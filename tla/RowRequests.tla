---------------------------- MODULE RowRequests ----------------------------
(***************************************************************************)
(* What every CRUD service of the backend does with one table, under       *)
(* concurrent HTTP requests.  A handler reads the row (findOne), refuses   *)
(* or changes the entity in memory, and saves it; TypeORM's save reads the *)
(* row again and writes the columns in which the entity differs from it,   *)
(* or inserts the entity when the row is gone.  Every await lets other     *)
(* requests run, and any of them may fail.  The services say what their    *)
(* jobs do: INSTANCE this module with those operators.                     *)
(***************************************************************************)
EXTENDS Naturals

CONSTANTS
  Ids,          \* the uuids the database may generate
  Slots,        \* bound: requests handled at a time
  Jobs,         \* what clients ask for: records with an op and an id
  Rows,         \* the entities the table may hold
  Entities,     \* what handlers hold: rows, or objects with some of the columns
  Absent,       \* no row, no entity, no job
  Saves(_),     \* Saves(j): how often the handler of job j saves
  Edited(_, _, _), \* Edited(j, n, e): entity e as the handler saves it for the n-th time
  Refuses(_, _),   \* Refuses(j, e): the handler throws on the entity it found
  Fresh(_),     \* Fresh(j): the entity a create inserts
  Blocks(_, _), \* Blocks(j, rows): what a create finds already there
  Heard(_),     \* Heard(j): somebody does something with the answer to job j
  LaxDelete     \* whether remove() answers ok when there was no row to delete

VARIABLES
  rows,         \* the table
  used,         \* ids that were generated
  pc, job,      \* pc[s]: the await of slot s; job[s]: what it works on
  mem,          \* mem[s]: the entity the handler holds
  loaded,       \* loaded[s]: the row save() found
  saved,        \* saved[s]: saves done
  outcome       \* outcome[s]: the answer on its way to the client

slotVars == <<pc, job, mem, loaded, saved, outcome>>
vars == <<rows, used, slotVars>>

Waiting == {"insert", "save", "write"}

Init ==
  /\ rows = [i \in Ids |-> Absent] /\ used = {}
  /\ pc = [s \in Slots |-> "idle"] /\ job = [s \in Slots |-> Absent]
  /\ mem = [s \in Slots |-> Absent] /\ loaded = [s \in Slots |-> Absent]
  /\ saved = [s \in Slots |-> 0] /\ outcome = [s \in Slots |-> "none"]

\* Slot s drops what it holds and answers job j with o.
Answer(s, j, o) ==
  /\ IF Heard(j)
     THEN /\ pc' = [pc EXCEPT ![s] = "answered"] /\ outcome' = [outcome EXCEPT ![s] = o]
          /\ job' = [job EXCEPT ![s] = j]
     ELSE /\ pc' = [pc EXCEPT ![s] = "idle"] /\ job' = [job EXCEPT ![s] = Absent]
          /\ UNCHANGED outcome
  /\ mem' = [mem EXCEPT ![s] = Absent] /\ loaded' = [loaded EXCEPT ![s] = Absent]
  /\ saved' = [saved EXCEPT ![s] = 0]

Begins(s, j, op) == pc[s] = "idle" /\ j.op = op
Awaits(s, j, await) ==
  /\ pc' = [pc EXCEPT ![s] = await] /\ job' = [job EXCEPT ![s] = j]
  /\ UNCHANGED <<loaded, saved, outcome>>

\* findOne, then the handler's own code up to its first save; or an error,
\* because the row is missing, the handler refuses it or the SELECT fails.
Finds(s, j) ==
  /\ Begins(s, j, "edit")
  /\ \/ Answer(s, j, "error")
     \/ /\ rows[j.id] # Absent /\ ~Refuses(j, rows[j.id])
        /\ mem' = [mem EXCEPT ![s] = Edited(j, 1, rows[j.id])]
        /\ Awaits(s, j, "save")
  /\ UNCHANGED <<rows, used>>

\* A create looks for what it must not duplicate.
Looks(s, j) ==
  /\ Begins(s, j, "new")
  /\ \/ Answer(s, j, "error")
     \/ ~Blocks(j, rows) /\ Awaits(s, j, "insert") /\ UNCHANGED mem
  /\ UNCHANGED <<rows, used>>

\* A statement that was executed is confirmed, or only its confirmation is lost.
Confirmed(s, j) == \E o \in {"ok", "error"} : Answer(s, j, o)

Inserts(s) ==
  /\ pc[s] = "insert"
  /\ \E i \in Ids \ used :
       /\ rows' = [rows EXCEPT ![i] = Fresh(job[s])]
       /\ used' = used \cup {i}
  /\ Confirmed(s, job[s])

Deletes(s, j) ==
  /\ Begins(s, j, "delete")
  /\ \/ /\ rows[j.id] # Absent \/ LaxDelete
        /\ rows' = [rows EXCEPT ![j.id] = Absent] /\ Confirmed(s, j)
     \/ UNCHANGED rows /\ Answer(s, j, "error")
  /\ UNCHANGED used

\* save: the SELECT ...
SaveLoads(s) ==
  /\ pc[s] = "save"
  /\ loaded' = [loaded EXCEPT ![s] = rows[job[s].id]]
  /\ pc' = [pc EXCEPT ![s] = "write"]
  /\ UNCHANGED <<rows, used, job, mem, saved, outcome>>

\* ... and the UPDATE of the columns that differ, which affects nothing when
\* the row has gone since, or the INSERT, which needs the key free and every column.
Written(e, l, now) ==
  IF l = Absent THEN e
  ELSE IF now = Absent THEN Absent
  ELSE [c \in DOMAIN now |-> IF c \in DOMAIN e /\ e[c] # l[c] THEN e[c] ELSE now[c]]

\* A bug: a column that a handler did not load may be missing.
Insertable_AnyColumns(s) == rows[job[s].id] = Absent
Insertable(s) == rows[job[s].id] = Absent /\ mem[s] \in Rows

SaveWrites(s) ==
  /\ pc[s] = "write" /\ (loaded[s] = Absent => Insertable(s))
  /\ rows' = [rows EXCEPT ![job[s].id] = Written(mem[s], loaded[s], @)]
  /\ \/ Answer(s, job[s], "error")
     \/ saved[s] + 1 = Saves(job[s]) /\ Answer(s, job[s], "ok")
     \/ /\ saved[s] + 1 < Saves(job[s])
        /\ saved' = [saved EXCEPT ![s] = @ + 1]
        /\ mem' = [mem EXCEPT ![s] = Edited(job[s], saved[s] + 2, @)]
        /\ loaded' = [loaded EXCEPT ![s] = Absent]
        /\ pc' = [pc EXCEPT ![s] = "save"]
        /\ UNCHANGED <<job, outcome>>
  /\ UNCHANGED used

\* A statement fails without effect; the handler's promise rejects and Nest answers 500.
Fails(s) ==
  /\ pc[s] \in Waiting
  /\ Answer(s, job[s], "error")
  /\ UNCHANGED <<rows, used>>

\* The answer reaches the client and the slot is free again.
Delivered(s) ==
  /\ pc[s] = "answered"
  /\ pc' = [pc EXCEPT ![s] = "idle"] /\ outcome' = [outcome EXCEPT ![s] = "none"]
  /\ job' = [job EXCEPT ![s] = Absent]
  /\ UNCHANGED <<rows, used, mem, loaded, saved>>

\* The backend restarts: the handlers under way are gone, their clients see an error.
LosesHandlers ==
  LET lost == {s \in Slots : pc[s] \in Waiting}
      heard == {s \in lost : Heard(job[s])} IN
  /\ pc' = [s \in Slots |->
              IF s \in heard THEN "answered" ELSE IF s \in lost THEN "idle" ELSE pc[s]]
  /\ outcome' = [s \in Slots |-> IF s \in heard THEN "error" ELSE outcome[s]]
  /\ job' = [s \in Slots |-> IF s \in lost \ heard THEN Absent ELSE job[s]]
  /\ mem' = [s \in Slots |-> Absent] /\ loaded' = [s \in Slots |-> Absent]
  /\ saved' = [s \in Slots |-> 0]
Restarts == (\E s \in Slots : pc[s] \in Waiting) /\ LosesHandlers /\ UNCHANGED <<rows, used>>

-----------------------------------------------------------------------------
\* Slot s holds an entity of row i that it may still save.
Holds(s, i) == pc[s] \in {"save", "write"} /\ job[s].id = i

TypeOK ==
  /\ rows \in [Ids -> Rows \cup {Absent}] /\ used \subseteq Ids
  /\ \A i \in Ids \ used : rows[i] = Absent
  /\ pc \in [Slots -> Waiting \cup {"idle", "answered"}]
  /\ job \in [Slots -> Jobs \cup {Absent}]
  /\ mem \in [Slots -> Entities \cup {Absent}] /\ loaded \in [Slots -> Rows \cup {Absent}]
  /\ saved \in [Slots -> Nat] /\ outcome \in [Slots -> {"none", "ok", "error"}]
  /\ \A s \in Slots : pc[s] # "idle" => job[s] \in Jobs
  /\ \A s \in Slots : pc[s] = "insert" => job[s].op = "new"
  /\ \A s \in Slots : pc[s] \in {"save", "write"} =>
       mem[s] \in Entities /\ job[s].op = "edit" /\ saved[s] < Saves(job[s]) /\ job[s].id \in used
=============================================================================
