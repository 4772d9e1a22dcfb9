------------------------- MODULE RowRequestsProofs -------------------------
(***************************************************************************)
(* What holds of RowRequests for every service whose operators are Sound.  *)
(***************************************************************************)
EXTENDS RowRequests

\* What the services promise of their operators.
Sound ==
  /\ Absent \notin Rows /\ Rows \subseteq Entities
  /\ \A j \in Jobs :
       /\ j.op \in {"edit", "delete"} => j.id \in Ids
       /\ j.op = "new" => Fresh(j) \in Rows
       /\ j.op = "edit" => /\ Saves(j) \in Nat /\ Saves(j) > 0
                           /\ \A n \in Nat, e \in Entities : Edited(j, n, e) \in Entities
  /\ \A e \in Entities, l \in Rows, now \in Rows : Written(e, l, now) \in Rows

Holding(s) == pc[s] \in {"save", "write"}
TableInv ==
  /\ TypeOK
  /\ \A s \in Slots : (~Holding(s) => saved[s] = 0) /\ (pc[s] = "answered" => Heard(job[s]))

RowTypes ==
  /\ rows \in [Ids -> Rows \cup {Absent}] /\ used \subseteq Ids
  /\ \A i \in Ids \ used : rows[i] = Absent
SlotTypes ==
  /\ pc \in [Slots -> {"insert", "save", "write", "idle", "answered"}]
  /\ job \in [Slots -> Jobs \cup {Absent}]
  /\ mem \in [Slots -> Entities \cup {Absent}] /\ loaded \in [Slots -> Rows \cup {Absent}]
  /\ saved \in [Slots -> Nat] /\ outcome \in [Slots -> {"none", "ok", "error"}]
SlotInv(s) ==
  /\ pc[s] # "idle" => job[s] \in Jobs
  /\ pc[s] = "insert" => job[s].op = "new"
  /\ Holding(s) => /\ mem[s] \in Entities /\ job[s].op = "edit"
                   /\ saved[s] < Saves(job[s]) /\ job[s].id \in used
  /\ ~Holding(s) => saved[s] = 0
  /\ pc[s] = "answered" => Heard(job[s])

LEMMA TableInvParts == TableInv <=> RowTypes /\ SlotTypes /\ \A s \in Slots : SlotInv(s)
  BY DEF TableInv, TypeOK, RowTypes, SlotTypes, SlotInv, Holding, Waiting

\* Only slot s moves.
Moved(s) ==
  \A t \in Slots \ {s} :
    /\ pc'[t] = pc[t] /\ job'[t] = job[t] /\ mem'[t] = mem[t] /\ loaded'[t] = loaded[t]
    /\ saved'[t] = saved[t] /\ outcome'[t] = outcome[t]

LEMMA SlotStep ==
  ASSUME TableInv, NEW s \in Slots, Moved(s), RowTypes', used \subseteq used', SlotTypes', SlotInv(s)'
  PROVE  TableInv'
<1>1. ASSUME NEW t \in Slots \ {s} PROVE SlotInv(t)'
  BY TableInvParts DEF Moved, SlotInv, Holding
<1>2. \A t \in Slots : SlotInv(t)'
  BY <1>1
<1>3. TableInv' <=> (RowTypes /\ SlotTypes /\ \A t \in Slots : SlotInv(t))'
  BY DEF TableInv, TypeOK, RowTypes, SlotTypes, SlotInv, Holding, Waiting
<1>4. QED
  BY <1>2, <1>3

LEMMA Answering ==
  ASSUME TableInv, NEW s \in Slots, NEW j \in Jobs, NEW o \in {"ok", "error"}, Answer(s, j, o)
  PROVE  /\ Moved(s) /\ SlotTypes' /\ SlotInv(s)'
         /\ pc'[s] \in {"idle", "answered"}
<1>1. SlotTypes
  BY TableInvParts
<1>2. CASE Heard(j)
  <2>1. /\ pc' = [pc EXCEPT ![s] = "answered"] /\ outcome' = [outcome EXCEPT ![s] = o]
        /\ job' = [job EXCEPT ![s] = j] /\ mem' = [mem EXCEPT ![s] = Absent]
        /\ loaded' = [loaded EXCEPT ![s] = Absent] /\ saved' = [saved EXCEPT ![s] = 0]
    BY <1>2 DEF Answer
  <2>2. /\ SlotTypes' /\ Moved(s)
        /\ pc'[s] = "answered" /\ job'[s] = j /\ saved'[s] = 0
    BY <1>1, <2>1 DEF SlotTypes, Moved
  <2>3. Heard(job'[s])
    BY <1>2, <2>2
  <2>4. QED
    BY <2>2, <2>3 DEF SlotInv, Holding
<1>3. CASE ~Heard(j)
  <2>1. /\ pc' = [pc EXCEPT ![s] = "idle"] /\ outcome' = outcome
        /\ job' = [job EXCEPT ![s] = Absent] /\ mem' = [mem EXCEPT ![s] = Absent]
        /\ loaded' = [loaded EXCEPT ![s] = Absent] /\ saved' = [saved EXCEPT ![s] = 0]
    BY <1>3 DEF Answer
  <2>2. QED
    BY <1>1, <2>1 DEF SlotTypes, Moved, SlotInv, Holding
<1>4. QED
  BY <1>2, <1>3

\* A request that arrives is answered, waits for its insert, or holds what it found.
LEMMA RequestStep ==
  ASSUME Sound, TableInv, NEW s \in Slots, NEW j \in Jobs,
         Finds(s, j) \/ Looks(s, j) \/ Deletes(s, j)
  PROVE  /\ TableInv' /\ Moved(s) /\ used' = used
         /\ \/ pc'[s] \in {"idle", "answered"} /\ \A i \in Ids : rows'[i] \in {rows[i], Absent}
            \/ /\ pc'[s] = "insert" /\ job'[s] = j /\ rows' = rows
               /\ j.op = "new" /\ ~Blocks(j, rows)
            \/ /\ pc'[s] = "save" /\ job'[s] = j /\ rows' = rows
               /\ j.op = "edit" /\ rows[j.id] \in Rows /\ mem'[s] = Edited(j, 1, rows[j.id])
<1>1. RowTypes /\ SlotTypes /\ SlotInv(s)
  BY TableInvParts
<1>2. pc[s] = "idle" /\ saved[s] = 0 /\ used' = used
  BY <1>1 DEF Finds, Looks, Deletes, Begins, SlotInv, Holding
<1>3. ASSUME NEW o \in {"ok", "error"}, Answer(s, j, o), \A i \in Ids : rows'[i] \in {rows[i], Absent},
             rows' \in [Ids -> Rows \cup {Absent}]
      PROVE  TableInv' /\ Moved(s) /\ pc'[s] \in {"idle", "answered"}
  <2>1. RowTypes'
    BY <1>1, <1>2, <1>3 DEF RowTypes
  <2>2. QED
    BY <1>2, <1>3, <2>1, Answering, SlotStep
<1>4. CASE UNCHANGED rows /\ Answer(s, j, "error")
  BY <1>1, <1>2, <1>3, <1>4 DEF RowTypes
<1>5. CASE /\ Finds(s, j) /\ rows[j.id] # Absent /\ mem' = [mem EXCEPT ![s] = Edited(j, 1, rows[j.id])]
           /\ Awaits(s, j, "save")
  <2>1. /\ j.op = "edit" /\ j.id \in Ids /\ rows' = rows
        /\ Saves(j) > 0
        /\ \A n \in Nat, e \in Entities : Edited(j, n, e) \in Entities
    BY <1>5 DEF Finds, Begins, Sound
  <2>2. rows[j.id] \in Rows /\ j.id \in used /\ rows[j.id] \in Entities
    BY <1>1, <1>5, <2>1 DEF RowTypes, Sound
  <2>3. Edited(j, 1, rows[j.id]) \in Entities
    BY <2>1, <2>2
  <2>4. /\ pc' = [pc EXCEPT ![s] = "save"] /\ job' = [job EXCEPT ![s] = j]
        /\ UNCHANGED <<loaded, saved, outcome>>
    BY <1>5 DEF Awaits
  <2>5. /\ SlotTypes' /\ Moved(s) /\ pc'[s] = "save" /\ job'[s] = j
        /\ mem'[s] = Edited(j, 1, rows[j.id]) /\ saved'[s] = 0
    BY <1>1, <1>2, <1>5, <2>3, <2>4 DEF SlotTypes, Moved
  <2>6. RowTypes' /\ SlotInv(s)'
    BY <1>1, <1>2, <2>1, <2>2, <2>3, <2>5 DEF RowTypes, SlotInv, Holding
  <2>7. QED
    BY <1>2, <2>1, <2>2, <2>5, <2>6, SlotStep
<1>6. CASE Looks(s, j) /\ ~Blocks(j, rows) /\ Awaits(s, j, "insert") /\ UNCHANGED mem
  <2>1. /\ j.op = "new" /\ rows' = rows
        /\ pc' = [pc EXCEPT ![s] = "insert"] /\ job' = [job EXCEPT ![s] = j]
        /\ UNCHANGED <<mem, loaded, saved, outcome>>
    BY <1>6 DEF Looks, Begins, Awaits
  <2>2. SlotTypes' /\ Moved(s) /\ pc'[s] = "insert" /\ job'[s] = j /\ saved'[s] = 0
    BY <1>1, <1>2, <2>1 DEF SlotTypes, Moved
  <2>3. RowTypes' /\ SlotInv(s)'
    BY <1>1, <1>2, <2>1, <2>2 DEF RowTypes, SlotInv, Holding
  <2>4. QED
    BY <1>2, <1>6, <2>1, <2>2, <2>3, SlotStep
<1>7. CASE Deletes(s, j) /\ rows' = [rows EXCEPT ![j.id] = Absent] /\ Confirmed(s, j)
  <2>1. PICK o \in {"ok", "error"} : Answer(s, j, o)
    BY <1>7 DEF Confirmed
  <2>2. /\ rows' \in [Ids -> Rows \cup {Absent}]
        /\ \A i \in Ids : rows'[i] \in {rows[i], Absent}
    BY <1>1, <1>7 DEF RowTypes
  <2>3. QED
    BY <1>2, <1>3, <2>1, <2>2
<1>8. QED
  BY <1>4, <1>5, <1>6, <1>7 DEF Finds, Looks, Deletes

\* A statement of a handler inserts a row, writes one, reads one or fails.
LEMMA SaveStep ==
  ASSUME Sound, TableInv, NEW s \in Slots,
         Inserts(s) \/ SaveLoads(s) \/ SaveWrites(s) \/ Fails(s)
  PROVE  /\ TableInv' /\ Moved(s)
         /\ \/ /\ pc[s] = "insert" /\ pc'[s] \in {"idle", "answered"} /\ job[s].op = "new"
               /\ \E i \in Ids \ used :
                    rows' = [rows EXCEPT ![i] = Fresh(job[s])] /\ used' = used \cup {i}
            \/ /\ pc[s] = "save" /\ pc'[s] = "write" /\ UNCHANGED <<rows, used, job, mem>>
               /\ loaded'[s] = rows[job[s].id]
            \/ /\ pc[s] = "write" /\ used' = used
               /\ rows' = [rows EXCEPT ![job[s].id] = Written(mem[s], loaded[s], rows[job[s].id])]
               /\ loaded[s] = Absent => rows[job[s].id] = Absent /\ mem[s] \in Rows
               /\ \/ pc'[s] \in {"idle", "answered"}
                  \/ pc'[s] = "save" /\ saved[s] + 1 < Saves(job[s])
            \/ pc'[s] \in {"idle", "answered"} /\ UNCHANGED <<rows, used>>
<1>1. RowTypes /\ SlotTypes /\ SlotInv(s) /\ pc[s] \in Waiting /\ job[s] \in Jobs
  BY TableInvParts DEF Inserts, SaveLoads, SaveWrites, Fails, SlotInv, Waiting
<1>2. ASSUME NEW o \in {"ok", "error"}, Answer(s, job[s], o), RowTypes', used \subseteq used'
      PROVE  TableInv' /\ Moved(s) /\ pc'[s] \in {"idle", "answered"}
  BY <1>1, <1>2, Answering, SlotStep
<1>3. CASE Inserts(s)
  <2>1. PICK i \in Ids \ used : rows' = [rows EXCEPT ![i] = Fresh(job[s])] /\ used' = used \cup {i}
    BY <1>3 DEF Inserts
  <2>2. pc[s] = "insert" /\ job[s].op = "new" /\ Fresh(job[s]) \in Rows
    BY <1>1, <1>3 DEF Inserts, SlotInv, Sound
  <2>3. RowTypes' /\ used \subseteq used'
    BY <1>1, <2>1, <2>2 DEF RowTypes
  <2>4. PICK o \in {"ok", "error"} : Answer(s, job[s], o)
    BY <1>3 DEF Inserts, Confirmed
  <2>5. QED
    BY <1>2, <2>1, <2>2, <2>3, <2>4
<1>4. CASE SaveLoads(s)
  <2>1. /\ pc[s] = "save" /\ job[s].op = "edit" /\ job[s].id \in Ids
        /\ loaded' = [loaded EXCEPT ![s] = rows[job[s].id]] /\ pc' = [pc EXCEPT ![s] = "write"]
        /\ UNCHANGED <<rows, used, job, mem, saved, outcome>>
    BY <1>1, <1>4 DEF SaveLoads, SlotInv, Holding, Sound
  <2>2. rows[job[s].id] \in Rows \cup {Absent}
    BY <1>1, <2>1 DEF RowTypes
  <2>3. SlotTypes' /\ Moved(s) /\ pc'[s] = "write" /\ loaded'[s] = rows[job[s].id]
    BY <1>1, <2>1, <2>2 DEF SlotTypes, Moved
  <2>4. RowTypes' /\ SlotInv(s)'
    BY <1>1, <2>1, <2>3 DEF RowTypes, SlotInv, Holding
  <2>5. QED
    BY <2>1, <2>3, <2>4, SlotStep
<1>5. CASE SaveWrites(s)
  <2> DEFINE i == job[s].id
             w == Written(mem[s], loaded[s], rows[i])
  <2>1. /\ pc[s] = "write" /\ (loaded[s] = Absent => rows[i] = Absent /\ mem[s] \in Rows)
        /\ rows' = [rows EXCEPT ![i] = w] /\ used' = used
    BY <1>5 DEF SaveWrites, Insertable
  <2>2. /\ mem[s] \in Entities /\ job[s].op = "edit" /\ i \in Ids /\ i \in used
        /\ loaded[s] \in Rows \cup {Absent} /\ rows[i] \in Rows \cup {Absent} /\ saved[s] \in Nat
    BY <1>1, <2>1 DEF SlotInv, Holding, Sound, SlotTypes, RowTypes
  <2>3. w \in Rows \cup {Absent}
    <3>1. loaded[s] # Absent /\ rows[i] # Absent => w \in Rows
      BY <2>2 DEF Sound
    <3>2. QED
      BY <2>1, <3>1 DEF Written
  <2> HIDE DEF w
  <2>4. RowTypes'
    BY <1>1, <2>1, <2>2, <2>3 DEF RowTypes
  <2>5. ASSUME saved[s] + 1 < Saves(job[s]),
               saved' = [saved EXCEPT ![s] = @ + 1],
               mem' = [mem EXCEPT ![s] = Edited(job[s], saved[s] + 2, @)],
               loaded' = [loaded EXCEPT ![s] = Absent], pc' = [pc EXCEPT ![s] = "save"],
               UNCHANGED <<job, outcome>>
        PROVE  TableInv' /\ Moved(s) /\ pc'[s] = "save"
    <3>1. Edited(job[s], saved[s] + 2, mem[s]) \in Entities
      BY <1>1, <2>2 DEF Sound
    <3>2. /\ SlotTypes' /\ Moved(s) /\ pc'[s] = "save" /\ saved'[s] = saved[s] + 1
          /\ mem'[s] \in Entities /\ job'[s] = job[s]
      BY <1>1, <2>2, <2>5, <3>1 DEF SlotTypes, Moved
    <3>3. SlotInv(s)'
      BY <1>1, <2>1, <2>2, <2>5, <3>2 DEF SlotInv, Holding
    <3>4. QED
      BY <2>1, <2>4, <3>2, <3>3, SlotStep
  <2>6. CASE Answer(s, job[s], "error") \/ Answer(s, job[s], "ok")
    BY <1>2, <2>1, <2>4, <2>6 DEF w
  <2>7. QED
    BY <1>5, <2>1, <2>5, <2>6 DEF SaveWrites, w
<1>6. CASE Fails(s)
  BY <1>1, <1>2, <1>6 DEF Fails, RowTypes
<1>7. QED
  BY <1>3, <1>4, <1>5, <1>6

\* An answer that is delivered frees its slot; a restart ends what was under way.
LEMMA Delivering ==
  ASSUME TableInv, NEW s \in Slots, Delivered(s)
  PROVE  TableInv' /\ Moved(s) /\ pc'[s] = "idle" /\ UNCHANGED <<rows, used>>
<1>1. RowTypes /\ SlotTypes /\ SlotInv(s)
  BY TableInvParts
<1>2. /\ pc' = [pc EXCEPT ![s] = "idle"] /\ outcome' = [outcome EXCEPT ![s] = "none"]
      /\ job' = [job EXCEPT ![s] = Absent] /\ pc[s] = "answered"
      /\ UNCHANGED <<rows, used, mem, loaded, saved>>
  BY DEF Delivered
<1>3. SlotTypes' /\ Moved(s) /\ pc'[s] = "idle" /\ saved'[s] = saved[s]
  BY <1>1, <1>2 DEF SlotTypes, Moved
<1>4. RowTypes' /\ SlotInv(s)'
  BY <1>1, <1>2, <1>3 DEF RowTypes, SlotInv, Holding
<1>5. QED
  BY <1>2, <1>3, <1>4, SlotStep

LEMMA Restarting ==
  ASSUME TableInv, Restarts
  PROVE  TableInv' /\ UNCHANGED <<rows, used>> /\ \A s \in Slots : pc'[s] \in {"idle", "answered"}
<1>1. RowTypes /\ SlotTypes /\ (\A s \in Slots : SlotInv(s)) /\ LosesHandlers /\ UNCHANGED <<rows, used>>
  BY TableInvParts DEF Restarts
<1>2. ASSUME NEW s \in Slots
      PROVE  /\ pc'[s] \in {"idle", "answered"} /\ saved'[s] = 0
             /\ pc'[s] = "answered" => /\ pc[s] # "idle" /\ job'[s] = job[s]
                                       /\ pc[s] = "answered" \/ Heard(job[s])
  BY <1>1 DEF LosesHandlers, SlotTypes, Waiting
<1>3. \A s \in Slots : SlotInv(s)'
  BY <1>1, <1>2 DEF SlotInv, Holding
<1>4. /\ pc' \in [Slots -> {"insert", "save", "write", "idle", "answered"}]
      /\ job' \in [Slots -> Jobs \cup {Absent}] /\ outcome' \in [Slots -> {"none", "ok", "error"}]
  BY <1>1 DEF LosesHandlers, SlotTypes
<1>5. SlotTypes'
  BY <1>1, <1>4 DEF LosesHandlers, SlotTypes
<1>6. RowTypes'
  BY <1>1 DEF RowTypes
<1>7. TableInv' <=> (RowTypes /\ SlotTypes /\ \A s \in Slots : SlotInv(s))'
  BY DEF TableInv, TypeOK, RowTypes, SlotTypes, SlotInv, Holding, Waiting
<1>8. QED
  BY <1>1, <1>2, <1>3, <1>5, <1>6, <1>7

\* The table may change behind the requests; it may also be left alone.
LEMMA Behind ==
  ASSUME TableInv, RowTypes', used \subseteq used', UNCHANGED slotVars
  PROVE  TableInv'
<1>1. UNCHANGED <<pc, job, mem, loaded, saved, outcome>>
  BY DEF slotVars
<1>2. SlotTypes' /\ \A s \in Slots : SlotInv(s)'
  BY <1>1, TableInvParts DEF SlotTypes, SlotInv, Holding
<1>3. TableInv' <=> (RowTypes /\ SlotTypes /\ \A s \in Slots : SlotInv(s))'
  BY DEF TableInv, TypeOK, RowTypes, SlotTypes, SlotInv, Holding, Waiting
<1>4. QED
  BY <1>2, <1>3

LEMMA Starting == Sound /\ Init => TableInv
  BY DEF Sound, Init, TableInv, TypeOK, Waiting, Holding
=============================================================================
