------------------------------ MODULE Carriers ------------------------------
(***************************************************************************)
(* CarrierService (orders/carrier.service.ts) behind its controller, with  *)
(* the page of pages/Carriers.tsx and other clients, and the handshakes of *)
(* SpsDispatcherService as the long writer of the same rows: a handshake   *)
(* keeps the carrier it resolved for up to 5 s and saves an object with    *)
(* the column handshake_flags only.  A row keeps its name and its flags,   *)
(* one jsonb column that a save writes whole or not at all; the other      *)
(* columns take part in nothing the properties tell apart.                 *)
(***************************************************************************)
EXTENDS Naturals, FiniteSets

CONSTANTS
  CarrierIds, Slots, Absent,
  Names        \* names clients give carriers

VARIABLES
  rows, used, pc, job, mem, loaded, saved, outcome,
  listed, fetching, told, overtaken,   \* the page (see ListPage)
  excused,     \* history: names that saves, or two creates at a time, may have given twice
  marked       \* history: carriers marked faulty while nobody held them, not advanced since

requestVars == <<pc, job, mem, loaded, saved, outcome>>
carrierPageVars == <<listed, fetching, told, overtaken>>
carrierVars == <<rows, used, requestVars, carrierPageVars, excused, marked>>

\* Beside xErrL0 the flags are none, those that advance-step writes, or those with
\* the xAck of a handshake.
Flags == [xErrL0 : BOOLEAN, rest : {"none", "advanced", "acked"}]
CarrierRows == [name : Names, flags : Flags]
FlagsOnly == [flags : Flags]

\* What the form of the page sends by POST or PATCH, as other clients may.
FormJobs ==
  [op : {"new"}, handler : {"create"}, id : {Absent}, name : Names]
  \cup [op : {"edit"}, handler : {"rename"}, id : CarrierIds, name : Names]
\* The menu of a row: PATCH of a status, DELETE; others may send both too.
MenuJobs ==
  [op : {"edit"}, handler : {"status"}, id : CarrierIds]
  \cup [op : {"delete"}, handler : {"remove"}, id : CarrierIds, page : BOOLEAN]
\* Besides, PATCH of the status to error, advance-step and a handshake; a PATCH that
\* brings flags of its own writes new flags as advance-step does.
CarrierJobs ==
  FormJobs \cup MenuJobs
  \cup [op : {"edit"}, handler : {"error", "advanceManual", "handshake"}, id : CarrierIds]

\* Row i is there and has the name n.
HasName(table, i, n) == table[i] \in CarrierRows /\ table[i].name = n
\* A bug: create does not look.
NameTaken_Never(j, table) == FALSE
NameTaken(j, table) == \E i \in CarrierIds : HasName(table, i, j.name)

NewCarrier(j) == [name |-> j.name, flags |-> [xErrL0 |-> FALSE, rest |-> "none"]]
AdvancedFlags == [xErrL0 |-> FALSE, rest |-> "advanced"]

\* A bug: the handshake writes its flags without the ones it read.
EditCarrier_DropsFlags(j, n, e) ==
  CASE j.handler = "rename" -> [e EXCEPT !.name = j.name]
    [] j.handler = "error" -> [e EXCEPT !.flags.xErrL0 = TRUE]
    [] j.handler = "status" -> e
    [] j.handler = "advanceManual" -> [e EXCEPT !.flags = AdvancedFlags]
    [] j.handler = "handshake" -> [flags |-> [xErrL0 |-> FALSE, rest |-> "acked"]]
\* update spreads the flags and adds xErrL0; advanceManual writes new flags; a
\* handshake spreads the flags it read when it started.
EditCarrier(j, n, e) ==
  CASE j.handler = "rename" -> [e EXCEPT !.name = j.name]
    [] j.handler = "error" -> [e EXCEPT !.flags.xErrL0 = TRUE]
    [] j.handler = "status" -> e
    [] j.handler = "advanceManual" -> [e EXCEPT !.flags = AdvancedFlags]
    [] j.handler = "handshake" -> [flags |-> [e.flags EXCEPT !.rest = "acked"]]

OneSave(j) == 1
PageDelete(j) == j.op = "delete" /\ j.page
NeverRefuses(j, e) == FALSE

Table == INSTANCE RowRequests WITH
  Ids <- CarrierIds, Jobs <- CarrierJobs, Rows <- CarrierRows,
  Entities <- CarrierRows \cup FlagsOnly, Saves <- OneSave, Edited <- EditCarrier,
  Refuses <- NeverRefuses, Fresh <- NewCarrier, Blocks <- NameTaken,
  Heard <- PageDelete, LaxDelete <- TRUE
Page == INSTANCE ListPage WITH Ids <- CarrierIds

CarrierInit == Table!Init /\ Page!ListInit /\ excused = {} /\ marked = {}

\* A name may repeat once a save gave it to a carrier that did not have it (a rename,
\* one that re-inserts a deleted carrier, or one that writes an old name back after
\* a rename), or when two creates of it had been let through.
Recorded ==
  /\ excused' = excused \cup
       {n \in Names :
          \/ \E i \in used : HasName(rows', i, n) /\ ~HasName(rows, i, n)
          \/ \E s, t \in Slots : /\ s # t /\ pc[s] = "insert" /\ pc[t] = "insert"
                                 /\ job[s].name = n /\ job[t].name = n}
  /\ marked' = {i \in CarrierIds :
       /\ rows'[i] # Absent
       /\ \A s \in Slots : Table!Holds(s, i)' => job'[s].handler # "advanceManual"
       /\ \/ i \in marked
          \/ rows'[i].flags.xErrL0 /\ \A s \in Slots : ~Table!Holds(s, i)'}

CarrierRequest(s) ==
  /\ \E j \in CarrierJobs :
       /\ PageDelete(j) => j.id \in listed
       /\ Table!Finds(s, j) \/ Table!Looks(s, j) \/ Table!Deletes(s, j)
  /\ Recorded /\ Page!Elsewhere
CarrierSaveStep(s) ==
  /\ Table!Inserts(s) \/ Table!SaveLoads(s) \/ Table!SaveWrites(s) \/ Table!Fails(s)
  /\ Recorded /\ Page!Elsewhere

CarrierAnswered(s) ==
  /\ Table!Delivered(s) /\ Recorded
  /\ Page!HearsDeleted(job[s].id, outcome[s] = "ok")
CarrierRestart == Table!Restarts /\ Recorded /\ UNCHANGED carrierPageVars

CarrierPageStep ==
  /\ \/ Page!Asks /\ (listed' = listed \/ \A s \in Slots : pc[s] # "answered")
     \/ Page!ListRead \/ Page!ListLands
  /\ UNCHANGED <<rows, used, requestVars, excused, marked>>

CarrierNext ==
  \/ CarrierRestart \/ CarrierPageStep
  \/ \E s \in Slots : CarrierRequest(s) \/ CarrierSaveStep(s) \/ CarrierAnswered(s)

CarrierSpec == CarrierInit /\ [][CarrierNext]_carrierVars

-----------------------------------------------------------------------------
CarrierTypeOK ==
  Table!TypeOK /\ Page!ListTypeOK /\ excused \subseteq Names /\ marked \subseteq CarrierIds

\* create's check keeps names apart except under the races named above.
NamesRepeatOnlyByRace ==
  \A i, k \in CarrierIds :
    (\E n \in Names : HasName(rows, i, n) /\ HasName(rows, k, n)) /\ i # k
      => rows[i].name \in excused

\* A fault marked while no request held the carrier survives every handshake
\* and PATCH that starts later; only advance-step, or new flags by PATCH, clears it.
MarkSurvives == \A i \in marked : rows[i].flags.xErrL0

\* See ListPage.
OnlyOvertakenReturn == Page!OnlyOvertakenReturn
=============================================================================
