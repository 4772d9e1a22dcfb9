------------------------------- MODULE Shifts -------------------------------
(***************************************************************************)
(* ShiftService (notifications/shift.service.ts) on one day: a shift of a  *)
(* type is opened unless one is open, and closed.  The requests are those  *)
(* of RowRequests.                                                         *)
(***************************************************************************)
EXTENDS Naturals, FiniteSets

CONSTANTS ShiftIds, Slots, Absent,
          ShiftTypes   \* day, swing, night

VARIABLES rows, used, pc, job, mem, loaded, saved, outcome,
          raced        \* history: types that two creates at a time were let through for

shiftVars == <<rows, used, pc, job, mem, loaded, saved, outcome, raced>>

ShiftRows == [shift_type : ShiftTypes, closed : BOOLEAN]
ShiftJobs ==
  [op : {"new"}, handler : {"create"}, id : {Absent}, shift_type : ShiftTypes]
  \cup [op : {"edit"}, handler : {"closeShift"}, id : ShiftIds]
  \cup [op : {"delete"}, handler : {"remove"}, id : ShiftIds]

IsOpen(table, i, t) == table[i] # Absent /\ table[i].shift_type = t /\ ~table[i].closed

AlreadyOpen(j, table) == \E i \in ShiftIds : IsOpen(table, i, j.shift_type)

OpenedShift(j) == [shift_type |-> j.shift_type, closed |-> FALSE]
CloseShift(j, n, e) == [e EXCEPT !.closed = TRUE]
OneSave(j) == 1
\* No page works on shifts.
NobodyListens(j) == FALSE
NeverRefuses(j, e) == FALSE

Table == INSTANCE RowRequests WITH
  Ids <- ShiftIds, Jobs <- ShiftJobs, Rows <- ShiftRows, Entities <- ShiftRows,
  Saves <- OneSave, Edited <- CloseShift, Refuses <- NeverRefuses,
  Fresh <- OpenedShift, Blocks <- AlreadyOpen,
  Heard <- NobodyListens, LaxDelete <- FALSE

ShiftInit == Table!Init /\ raced = {}

Recorded ==
  raced' = raced \cup {t \in ShiftTypes : \E s, r \in Slots :
             s # r /\ \A x \in {s, r} : pc[x] = "insert" /\ job[x].shift_type = t}

ShiftRequest(s) ==
  /\ \E j \in ShiftJobs : Table!Finds(s, j) \/ Table!Looks(s, j) \/ Table!Deletes(s, j)
  /\ Recorded
ShiftSaveStep(s) ==
  /\ Table!Inserts(s) \/ Table!SaveLoads(s) \/ Table!SaveWrites(s) \/ Table!Fails(s)
  /\ Recorded
ShiftRestart == Table!Restarts /\ Recorded

ShiftNext ==
  \/ ShiftRestart
  \/ \E s \in Slots : ShiftRequest(s) \/ ShiftSaveStep(s)

ShiftSpec == ShiftInit /\ [][ShiftNext]_shiftVars

-----------------------------------------------------------------------------
\* Two shifts of a type are open at once only if two creates overlapped between
\* the check and the insert: neither a stale close nor one that re-inserts a
\* deleted shift opens another.
OpenTwiceOnlyByRace ==
  \A i, k \in ShiftIds : \A t \in ShiftTypes :
    IsOpen(rows, i, t) /\ IsOpen(rows, k, t) /\ i # k => t \in raced

ShiftTypeOK == Table!TypeOK /\ raced \subseteq ShiftTypes
=============================================================================
