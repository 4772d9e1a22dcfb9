------------------------------ MODULE Machines ------------------------------
(***************************************************************************)
(* MachinesService (machines/machines.service.ts): the requests of         *)
(* RowRequests on the table of machines, from the page Machines.tsx and    *)
(* from other clients, heartbeats, and the import of a CSV file, which     *)
(* inserts row by row and counts what went in.                             *)
(***************************************************************************)
EXTENDS Naturals, FiniteSets

CONSTANTS
  MachineIds, Slots, Absent,
  Imports,     \* bound: imports under way
  FileRows     \* bound: rows of a file

VARIABLES
  rows, used, pc, job, mem, loaded, saved, outcome,
  listed, fetching, told, overtaken,   \* the page (see ListPage)
  import,      \* import[m]: the rows of import m, those still to do, and its counts
  inserted     \* history: inserted[m], the machines import m has put into the table

requestVars == <<pc, job, mem, loaded, saved, outcome>>
importVars == <<import, inserted>>
machinePageVars == <<listed, fetching, told, overtaken>>
machineVars == <<rows, used, requestVars, machinePageVars, importVars>>

\* beat stands for last_heartbeat, edited for the columns a PATCH sets.
MachineRows == [edited : BOOLEAN, beat : BOOLEAN]
\* What the form of the page sends, and the buttons of its rows; as others may.
FormJobs ==
  [op : {"new"}, handler : {"create"}, id : {Absent}]
  \cup [op : {"edit"}, handler : {"update"}, id : MachineIds]
RowJobs == [op : {"delete"}, handler : {"remove"}, id : MachineIds, page : BOOLEAN]
MachineJobs == FormJobs \cup RowJobs

NewMachine(j) == [edited |-> FALSE, beat |-> FALSE]
NothingBlocks(j, table) == FALSE
OneSave(j) == 1
PageDelete(j) == j.op = "delete" /\ j.page
NeverRefuses(j, e) == FALSE
EditMachine(j, n, e) == [e EXCEPT !.edited = TRUE]

Table == INSTANCE RowRequests WITH
  Ids <- MachineIds, Jobs <- MachineJobs, Rows <- MachineRows, Entities <- MachineRows,
  Saves <- OneSave, Edited <- EditMachine, Refuses <- NeverRefuses,
  Fresh <- NewMachine, Blocks <- NothingBlocks,
  Heard <- PageDelete, LaxDelete <- FALSE
Page == INSTANCE ListPage WITH Ids <- MachineIds

NoImport == [rows |-> 0, left |-> 0, imported |-> 0, errors |-> 0]
MachineInit ==
  /\ Table!Init /\ Page!ListInit
  /\ import = [m \in Imports |-> NoImport] /\ inserted = [m \in Imports |-> {}]

MachineRequest(s) ==
  /\ \E j \in MachineJobs :
       /\ PageDelete(j) => j.id \in listed
       /\ Table!Finds(s, j) \/ Table!Looks(s, j) \/ Table!Deletes(s, j)
  /\ Page!Elsewhere /\ UNCHANGED importVars
MachineSaveStep(s) ==
  /\ Table!Inserts(s) \/ Table!SaveLoads(s) \/ Table!SaveWrites(s) \/ Table!Fails(s)
  /\ Page!Elsewhere /\ UNCHANGED importVars
MachineAnswered(s) ==
  /\ Table!Delivered(s) /\ UNCHANGED importVars
  /\ Page!HearsDeleted(job[s].id, outcome[s] = "ok")

MachinePageStep ==
  /\ \/ Page!Asks /\ (listed' = listed \/ \A s \in Slots : pc[s] # "answered")
     \/ Page!ListRead \/ Page!ListLands
  /\ UNCHANGED <<rows, used, requestVars, importVars>>

\* updateHeartbeat: one UPDATE, of whatever the handlers hold.
HeartbeatUpdate ==
  /\ \E i \in MachineIds : rows[i] # Absent /\ rows' = [rows EXCEPT ![i].beat = TRUE]
  /\ UNCHANGED <<used, requestVars, machinePageVars, importVars>>

-----------------------------------------------------------------------------
(* importCsv *)

\* The file could be parsed and has a column name; an empty one has not.
ImportBegins(m) ==
  /\ import[m].rows = 0
  /\ \E k \in 1..FileRows : import' = [import EXCEPT ![m].rows = k, ![m].left = k]
  /\ UNCHANGED <<rows, used, requestVars, machinePageVars, inserted>>

RowDone(m, count) ==
  import' = [import EXCEPT ![m].left = @ - 1, ![m][count] = @ + 1]

InsertsMachine(m, i) ==
  /\ rows' = [rows EXCEPT ![i] = NewMachine(Absent)] /\ used' = used \cup {i}
  /\ inserted' = [inserted EXCEPT ![m] = @ \cup {i}]

\* A bug: the row is counted before its save, whose failure is noted besides.
ImportRow_CountsFirst(m) ==
  /\ import[m].left > 0
  /\ \/ \E i \in MachineIds \ used : InsertsMachine(m, i) /\ RowDone(m, "imported")
     \/ RowDone(m, "imported") /\ UNCHANGED <<rows, used, inserted>>
  /\ UNCHANGED requestVars /\ Page!Elsewhere
\* One row: its save succeeds; or it fails, before the row was inserted, or after
\* the database had it and only the confirmation was lost.
ImportRow(m) ==
  /\ import[m].left > 0
  /\ \/ \E i \in MachineIds \ used :
          InsertsMachine(m, i) /\ \E c \in {"imported", "errors"} : RowDone(m, c)
     \/ RowDone(m, "errors") /\ UNCHANGED <<rows, used, inserted>>
  /\ UNCHANGED requestVars /\ Page!Elsewhere

\* The counts are answered.
ImportAnswered(m) ==
  /\ import[m].rows > 0 /\ import[m].left = 0
  /\ import' = [import EXCEPT ![m] = NoImport] /\ inserted' = [inserted EXCEPT ![m] = {}]
  /\ UNCHANGED <<rows, used, requestVars, machinePageVars>>

\* An import that a restart breaks off leaves its rows and answers nothing.
MachineRestart ==
  /\ \/ Table!Restarts
     \/ /\ \E m \in Imports : import[m].rows > 0
        /\ \A s \in Slots : pc[s] \notin Table!Waiting
        /\ UNCHANGED <<rows, used, requestVars>>
  /\ import' = [m \in Imports |-> NoImport] /\ inserted' = [m \in Imports |-> {}]
  /\ UNCHANGED machinePageVars

MachineNext ==
  \/ HeartbeatUpdate \/ MachineRestart \/ MachinePageStep
  \/ \E s \in Slots : MachineRequest(s) \/ MachineSaveStep(s) \/ MachineAnswered(s)
  \/ \E m \in Imports : ImportBegins(m) \/ ImportRow(m) \/ ImportAnswered(m)

MachineSpec == MachineInit /\ [][MachineNext]_machineVars

-----------------------------------------------------------------------------
MachineTypeOK ==
  /\ Table!TypeOK /\ Page!ListTypeOK
  /\ import \in [Imports -> [rows : 0..FileRows, left : 0..FileRows,
                             imported : 0..FileRows, errors : 0..FileRows]]
  /\ inserted \in [Imports -> SUBSET used]

\* Every row of a file is counted once, and no import claims more machines than
\* it has put into the table, however requests and failures fall between its rows.
ImportAccounts ==
  \A m \in Imports :
    /\ import[m].imported + import[m].errors + import[m].left = import[m].rows
    /\ import[m].imported <= Cardinality(inserted[m])

\* See ListPage.
OnlyOvertakenReturn == Page!OnlyOvertakenReturn
=============================================================================
