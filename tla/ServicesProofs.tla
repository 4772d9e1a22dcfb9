--------------------------- MODULE ServicesProofs ---------------------------
(***************************************************************************)
(* Proofs about Services for any number of rows, names, requests, imports  *)
(* and pages' lists.  Stations, accounts and alarms have their invariants  *)
(* in modules of their own; those of carriers, shifts and machines are     *)
(* here, on top of what RowRequestsProofs says of any table.               *)
(***************************************************************************)
EXTENDS Services, AlarmsProofs, UsersProofs, StationsProofs, FiniteSetTheorems

\* The tables again, with what is proved of them.
CarrierTable == INSTANCE RowRequestsProofs WITH
  Ids <- TableIds, Jobs <- Carrier!CarrierJobs, Rows <- Carrier!CarrierRows,
  Entities <- Carrier!CarrierRows \cup Carrier!FlagsOnly,
  Saves <- Carrier!OneSave, Edited <- Carrier!EditCarrier, Refuses <- Carrier!NeverRefuses,
  Fresh <- Carrier!NewCarrier, Blocks <- Carrier!NameTaken,
  Heard <- Carrier!PageDelete, LaxDelete <- TRUE,
  rows <- tRows, used <- tUsed, pc <- tPc, job <- tJob, mem <- tMem, loaded <- tLoaded,
  saved <- tSaved, outcome <- tOutcome
ShiftTable == INSTANCE RowRequestsProofs WITH
  Ids <- TableIds, Jobs <- Shift!ShiftJobs, Rows <- Shift!ShiftRows, Entities <- Shift!ShiftRows,
  Saves <- Shift!OneSave, Edited <- Shift!CloseShift, Refuses <- Shift!NeverRefuses,
  Fresh <- Shift!OpenedShift, Blocks <- Shift!AlreadyOpen,
  Heard <- Shift!NobodyListens, LaxDelete <- FALSE,
  rows <- tRows, used <- tUsed, pc <- tPc, job <- tJob, mem <- tMem, loaded <- tLoaded,
  saved <- tSaved, outcome <- tOutcome
MachineTable == INSTANCE RowRequestsProofs WITH
  Ids <- TableIds, Slots <- MachineSlots,
  Jobs <- Machine!MachineJobs, Rows <- Machine!MachineRows, Entities <- Machine!MachineRows,
  Saves <- Machine!OneSave, Edited <- Machine!EditMachine, Refuses <- Machine!NeverRefuses,
  Fresh <- Machine!NewMachine, Blocks <- Machine!NothingBlocks,
  Heard <- Machine!PageDelete, LaxDelete <- FALSE,
  rows <- tRows, used <- tUsed, pc <- tPc, job <- tJob, mem <- tMem, loaded <- tLoaded,
  saved <- tSaved, outcome <- tOutcome

LEMMA CarrierTableIsTable ==
  /\ Carrier!Table!Init <=> CarrierTable!Init
  /\ Carrier!Table!TypeOK <=> CarrierTable!TypeOK
  /\ Carrier!Table!Restarts <=> CarrierTable!Restarts
  /\ \A s, j : /\ Carrier!Table!Finds(s, j) <=> CarrierTable!Finds(s, j)
               /\ Carrier!Table!Looks(s, j) <=> CarrierTable!Looks(s, j)
               /\ Carrier!Table!Deletes(s, j) <=> CarrierTable!Deletes(s, j)
  /\ \A s : /\ Carrier!Table!Inserts(s) <=> CarrierTable!Inserts(s)
            /\ Carrier!Table!SaveLoads(s) <=> CarrierTable!SaveLoads(s)
            /\ Carrier!Table!SaveWrites(s) <=> CarrierTable!SaveWrites(s)
            /\ Carrier!Table!Fails(s) <=> CarrierTable!Fails(s)
            /\ Carrier!Table!Delivered(s) <=> CarrierTable!Delivered(s)
  BY DEF Carrier!Table!Init, CarrierTable!Init, Carrier!Table!TypeOK, CarrierTable!TypeOK,
         Carrier!Table!Restarts, CarrierTable!Restarts, Carrier!Table!Finds, CarrierTable!Finds,
         Carrier!Table!Looks, CarrierTable!Looks, Carrier!Table!Deletes, CarrierTable!Deletes,
         Carrier!Table!Inserts, CarrierTable!Inserts,
         Carrier!Table!SaveLoads, CarrierTable!SaveLoads,
         Carrier!Table!SaveWrites, CarrierTable!SaveWrites,
         Carrier!Table!Fails, CarrierTable!Fails, Carrier!Table!Delivered, CarrierTable!Delivered,
         Carrier!Table!Waiting, CarrierTable!Waiting,
         Carrier!Table!LosesHandlers, CarrierTable!LosesHandlers,
         Carrier!Table!Begins, CarrierTable!Begins, Carrier!Table!Awaits, CarrierTable!Awaits,
         Carrier!Table!Confirmed, CarrierTable!Confirmed,
         Carrier!Table!Answer, CarrierTable!Answer,
         Carrier!Table!Insertable, CarrierTable!Insertable,
         Carrier!Table!Written, CarrierTable!Written

LEMMA ShiftTableIsTable ==
  /\ Shift!Table!Init <=> ShiftTable!Init
  /\ Shift!Table!TypeOK <=> ShiftTable!TypeOK
  /\ Shift!Table!Restarts <=> ShiftTable!Restarts
  /\ \A s, j : /\ Shift!Table!Finds(s, j) <=> ShiftTable!Finds(s, j)
               /\ Shift!Table!Looks(s, j) <=> ShiftTable!Looks(s, j)
               /\ Shift!Table!Deletes(s, j) <=> ShiftTable!Deletes(s, j)
  /\ \A s : /\ Shift!Table!Inserts(s) <=> ShiftTable!Inserts(s)
            /\ Shift!Table!SaveLoads(s) <=> ShiftTable!SaveLoads(s)
            /\ Shift!Table!SaveWrites(s) <=> ShiftTable!SaveWrites(s)
            /\ Shift!Table!Fails(s) <=> ShiftTable!Fails(s)
  BY DEF Shift!Table!Init, ShiftTable!Init, Shift!Table!TypeOK, ShiftTable!TypeOK,
         Shift!Table!Restarts, ShiftTable!Restarts, Shift!Table!Finds, ShiftTable!Finds,
         Shift!Table!Looks, ShiftTable!Looks, Shift!Table!Deletes, ShiftTable!Deletes,
         Shift!Table!Inserts, ShiftTable!Inserts, Shift!Table!SaveLoads, ShiftTable!SaveLoads,
         Shift!Table!SaveWrites, ShiftTable!SaveWrites, Shift!Table!Fails, ShiftTable!Fails,
         Shift!Table!Waiting, ShiftTable!Waiting,
         Shift!Table!LosesHandlers, ShiftTable!LosesHandlers,
         Shift!Table!Begins, ShiftTable!Begins, Shift!Table!Awaits, ShiftTable!Awaits,
         Shift!Table!Confirmed, ShiftTable!Confirmed, Shift!Table!Answer, ShiftTable!Answer,
         Shift!Table!Insertable, ShiftTable!Insertable, Shift!Table!Written, ShiftTable!Written

LEMMA MachineTableIsTable ==
  /\ Machine!Table!Init <=> MachineTable!Init
  /\ Machine!Table!TypeOK <=> MachineTable!TypeOK
  /\ Machine!Table!Restarts <=> MachineTable!Restarts
  /\ \A s, j : /\ Machine!Table!Finds(s, j) <=> MachineTable!Finds(s, j)
               /\ Machine!Table!Looks(s, j) <=> MachineTable!Looks(s, j)
               /\ Machine!Table!Deletes(s, j) <=> MachineTable!Deletes(s, j)
  /\ \A s : /\ Machine!Table!Inserts(s) <=> MachineTable!Inserts(s)
            /\ Machine!Table!SaveLoads(s) <=> MachineTable!SaveLoads(s)
            /\ Machine!Table!SaveWrites(s) <=> MachineTable!SaveWrites(s)
            /\ Machine!Table!Fails(s) <=> MachineTable!Fails(s)
            /\ Machine!Table!Delivered(s) <=> MachineTable!Delivered(s)
  BY DEF Machine!Table!Init, MachineTable!Init, Machine!Table!TypeOK, MachineTable!TypeOK,
         Machine!Table!Restarts, MachineTable!Restarts, Machine!Table!Finds, MachineTable!Finds,
         Machine!Table!Looks, MachineTable!Looks, Machine!Table!Deletes, MachineTable!Deletes,
         Machine!Table!Inserts, MachineTable!Inserts,
         Machine!Table!SaveLoads, MachineTable!SaveLoads,
         Machine!Table!SaveWrites, MachineTable!SaveWrites,
         Machine!Table!Fails, MachineTable!Fails, Machine!Table!Delivered, MachineTable!Delivered,
         Machine!Table!Waiting, MachineTable!Waiting,
         Machine!Table!LosesHandlers, MachineTable!LosesHandlers,
         Machine!Table!Begins, MachineTable!Begins, Machine!Table!Awaits, MachineTable!Awaits,
         Machine!Table!Confirmed, MachineTable!Confirmed,
         Machine!Table!Answer, MachineTable!Answer,
         Machine!Table!Insertable, MachineTable!Insertable,
         Machine!Table!Written, MachineTable!Written

----------------------------------------------------------------------------
(* The list of a page, which carriers and machines have. *)

\* A row known to be deleted is shown, or in a list on its way, only if its deletion
\* was heard after that list was read.
ListAgrees ==
  /\ \A i \in told : tRows[i] = Absent
  /\ told \cap listed \subseteq overtaken /\ told \cap fetching.list \subseteq fetching.late
  /\ fetching.at # "read" => fetching.list = {}
ListInv == Carrier!Page!ListTypeOK /\ ListAgrees

LEMMA PagesAreAlike ==
  /\ Machine!Page!ListInit <=> Carrier!Page!ListInit
  /\ Machine!Page!ListTypeOK <=> Carrier!Page!ListTypeOK
  /\ Machine!Page!Asks <=> Carrier!Page!Asks
  /\ Machine!Page!ListRead <=> Carrier!Page!ListRead
  /\ Machine!Page!ListLands <=> Carrier!Page!ListLands
  /\ Machine!Page!Elsewhere <=> Carrier!Page!Elsewhere
  /\ \A i, ok : Machine!Page!HearsDeleted(i, ok) <=> Carrier!Page!HearsDeleted(i, ok)
  BY DEF Machine!Page!ListInit, Carrier!Page!ListInit, Machine!Page!ListTypeOK, Carrier!Page!ListTypeOK,
         Machine!Page!Asks, Carrier!Page!Asks, Machine!Page!ListRead, Carrier!Page!ListRead,
         Machine!Page!ListLands, Carrier!Page!ListLands, Machine!Page!Elsewhere, Carrier!Page!Elsewhere,
         Machine!Page!HearsDeleted, Carrier!Page!HearsDeleted, Machine!Page!NoFetch, Carrier!Page!NoFetch,
         Machine!Page!Present, Carrier!Page!Present, Machine!Page!Fetches, Carrier!Page!Fetches,
         Machine!Page!Known, Carrier!Page!Known, Machine!Page!Remembers, Carrier!Page!Remembers

\* The table changes, and with it what the page knows; or it loses no row to a new one.
LEMMA TableChanges ==
  ASSUME ListInv,
         \/ Carrier!Page!Elsewhere
         \/ UNCHANGED listVars /\ \A i \in TableIds : tRows[i] = Absent => tRows'[i] = Absent
  PROVE  ListInv'
  BY DEF ListInv, ListAgrees, Carrier!Page!ListTypeOK, Carrier!Page!Fetches, Carrier!Page!Elsewhere, listVars

LEMMA ListChanges ==
  ASSUME ListInv, UNCHANGED tRows,
         \/ Carrier!Page!Asks \/ Carrier!Page!ListRead \/ Carrier!Page!ListLands
         \/ \E i \in TableIds, ok \in BOOLEAN : Carrier!Page!HearsDeleted(i, ok)
  PROVE  ListInv'
<1>1. /\ listed \subseteq TableIds /\ told \subseteq TableIds /\ overtaken \subseteq TableIds
      /\ fetching \in Carrier!Page!Fetches
      /\ fetching = [at |-> fetching.at, list |-> fetching.list, late |-> fetching.late]
      /\ fetching.at \in {"no", "sent", "read"}
      /\ fetching.list \subseteq TableIds /\ fetching.late \subseteq TableIds
      /\ ListAgrees
  BY DEF ListInv, Carrier!Page!ListTypeOK, Carrier!Page!Fetches
<1>2. \A at \in {"no", "sent", "read"}, list, late \in SUBSET TableIds :
        LET f == [at |-> at, list |-> list, late |-> late] IN
        f \in Carrier!Page!Fetches /\ f.at = at /\ f.list = list /\ f.late = late
  BY DEF Carrier!Page!Fetches
<1>3. CASE Carrier!Page!Asks
  <2>1. fetching' = [at |-> "sent", list |-> {}, late |-> {}]
    BY <1>3 DEF Carrier!Page!Asks, Carrier!Page!NoFetch
  <2>2. fetching' \in Carrier!Page!Fetches /\ fetching'.at = "sent" /\ fetching'.list = {}
    BY <1>2, <2>1
  <2>3. \/ listed' = {} /\ told' = {} /\ overtaken' = {}
        \/ UNCHANGED <<listed, told, overtaken>>
    BY <1>3 DEF Carrier!Page!Asks
  <2>4. QED
    BY <1>1, <2>2, <2>3 DEF ListInv, ListAgrees, Carrier!Page!ListTypeOK
<1>4. CASE Carrier!Page!ListRead
  <2>1. fetching' = [at |-> "read", list |-> Carrier!Page!Present, late |-> {}]
    BY <1>4 DEF Carrier!Page!ListRead, Carrier!Page!NoFetch
  <2>2. /\ fetching' \in Carrier!Page!Fetches /\ fetching'.at = "read"
        /\ fetching'.list = {i \in TableIds : tRows[i] # Absent}
    BY <1>2, <2>1 DEF Carrier!Page!Present
  <2>3. QED
    BY <1>1, <1>4, <2>2 DEF Carrier!Page!ListRead, ListInv, ListAgrees, Carrier!Page!ListTypeOK
<1>5. CASE Carrier!Page!ListLands
  <2>1. fetching' = [at |-> "no", list |-> {}, late |-> {}]
    BY <1>5 DEF Carrier!Page!ListLands, Carrier!Page!NoFetch
  <2>2. fetching' \in Carrier!Page!Fetches /\ fetching'.at = "no" /\ fetching'.list = {}
    BY <1>2, <2>1
  <2>3. /\ \/ listed' = fetching.list /\ overtaken' = fetching.late
           \/ listed' \in {listed, {}} /\ overtaken' = overtaken
        /\ told' = told
    BY <1>5 DEF Carrier!Page!ListLands
  <2>4. QED
    BY <1>1, <2>2, <2>3 DEF ListInv, ListAgrees, Carrier!Page!ListTypeOK
<1>6. ASSUME NEW i \in TableIds, NEW ok \in BOOLEAN, Carrier!Page!HearsDeleted(i, ok)
      PROVE  ListInv'
  <2> DEFINE known == Carrier!Page!Known(i, ok)
  <2>1. known \subseteq {i} /\ (i \in known <=> ok /\ tRows[i] = Absent)
    BY DEF Carrier!Page!Known
  <2>2. /\ listed' = IF ok THEN listed \ {i} ELSE listed
        /\ told' = told \cup known /\ overtaken' = overtaken \ known
        /\ fetching' = [fetching EXCEPT !.late = @ \cup (known \cap fetching.list)]
    BY <1>6 DEF Carrier!Page!HearsDeleted, Carrier!Page!Remembers
  <2> HIDE DEF known
  <2>3. fetching' = [at |-> fetching.at, list |-> fetching.list,
                     late |-> fetching.late \cup (known \cap fetching.list)]
    BY <1>1, <2>2
  <2>4. /\ fetching' \in Carrier!Page!Fetches /\ fetching'.at = fetching.at
        /\ fetching'.list = fetching.list
        /\ fetching'.late = fetching.late \cup (known \cap fetching.list)
    BY <1>1, <1>2, <2>3
  <2>5. \A k \in told' : tRows'[k] = Absent
    BY <1>1, <2>1, <2>2 DEF ListAgrees
  <2>6. told' \cap listed' \subseteq overtaken'
    BY <1>1, <2>1, <2>2 DEF ListAgrees
  <2>7. told' \cap fetching'.list \subseteq fetching'.late
    BY <1>1, <2>2, <2>4 DEF ListAgrees
  <2>8. QED
    BY <1>1, <2>1, <2>2, <2>4, <2>5, <2>6, <2>7 DEF ListInv, ListAgrees, Carrier!Page!ListTypeOK
<1>7. QED
  BY <1>3, <1>4, <1>5, <1>6

LEMMA ListStarts == ASSUME Carrier!Page!ListInit PROVE ListInv
  BY DEF Carrier!Page!ListInit, Carrier!Page!NoFetch, ListInv, ListAgrees, Carrier!Page!ListTypeOK, Carrier!Page!Fetches

----------------------------------------------------------------------------
(* Carriers. *)

\* A create that was let through finds the name still free, or may repeat it.
CreatesAreFirst ==
  \A s \in Slots : tPc[s] = "insert" =>
    \/ tJob[s].name \in excused
    \/ \A i \in TableIds : ~Carrier!HasName(tRows, i, tJob[s].name)

\* Whoever holds a carrier that is marked remembers the mark.
Remembers(s) ==
  /\ tJob[s].handler # "advanceManual" => tMem[s].flags.xErrL0
  /\ tPc[s] = "write" => tLoaded[s] # Absent /\ tLoaded[s].flags.xErrL0
MarksAreKnown ==
  \A i \in marked :
    /\ tRows[i] # Absent /\ tRows[i].flags.xErrL0
    /\ \A s \in Slots : CarrierTable!Holding(s) /\ tJob[s].id = i =>
         tJob[s].handler # "advanceManual" /\ Remembers(s)

CarrierInv ==
  /\ CarrierTable!TableInv /\ ListInv
  /\ excused \subseteq CarrierNames /\ marked \subseteq TableIds
  /\ Carrier!NamesRepeatOnlyByRace /\ CreatesAreFirst /\ MarksAreKnown

LEMMA CarrierShapes ==
  /\ Absent \notin Carrier!CarrierRows
  /\ \A e \in Carrier!CarrierRows : e.name \in CarrierNames /\ e.flags.xErrL0 \in BOOLEAN
  /\ \A e \in Carrier!CarrierRows \cup Carrier!FlagsOnly : e.flags.xErrL0 \in BOOLEAN
<1>1. /\ Absent \notin Carrier!CarrierRows
      /\ \A e \in Carrier!CarrierRows : e.name \in CarrierNames
      /\ \A e \in Carrier!CarrierRows \cup Carrier!FlagsOnly : e.flags \in Carrier!Flags
  BY ServicesAssumption DEF Carrier!CarrierRows, Carrier!FlagsOnly
<1>2. \A f \in Carrier!Flags : f.xErrL0 \in BOOLEAN
  BY DEF Carrier!Flags
<1>3. QED
  BY <1>1, <1>2

LEMMA CarrierJobShapes ==
  \A j \in Carrier!CarrierJobs :
    /\ j.op \in {"new", "edit", "delete"}
    /\ j.op \in {"edit", "delete"} => j.id \in TableIds
    /\ j.op = "new" => j.name \in CarrierNames
    /\ j.op = "edit" => j.handler \in {"rename", "status", "error", "advanceManual", "handshake"}
    /\ j.handler = "rename" => j.name \in CarrierNames
  BY DEF Carrier!CarrierJobs, Carrier!FormJobs, Carrier!MenuJobs

LEMMA CarrierEdits ==
  ASSUME NEW j \in Carrier!CarrierJobs, j.op = "edit", NEW n,
         NEW e \in Carrier!CarrierRows \cup Carrier!FlagsOnly
  PROVE  /\ Carrier!EditCarrier(j, n, e) \in Carrier!CarrierRows \cup Carrier!FlagsOnly
         /\ e.flags.xErrL0 /\ j.handler # "advanceManual" => Carrier!EditCarrier(j, n, e).flags.xErrL0
<1> DEFINE w == Carrier!EditCarrier(j, n, e)
<1>1. /\ e.flags \in Carrier!Flags
      /\ \/ e = [name |-> e.name, flags |-> e.flags] /\ e.name \in CarrierNames
         \/ e = [flags |-> e.flags]
  BY DEF Carrier!CarrierRows, Carrier!FlagsOnly
<1>2. \A f \in Carrier!Flags :
        /\ [f EXCEPT !.rest = "acked"] \in Carrier!Flags
        /\ [f EXCEPT !.rest = "acked"].xErrL0 = f.xErrL0
        /\ [f EXCEPT !.xErrL0 = TRUE] \in Carrier!Flags
        /\ [f EXCEPT !.xErrL0 = TRUE].xErrL0
  BY DEF Carrier!Flags
<1>3. \A f \in Carrier!Flags :
        /\ [flags |-> f] \in Carrier!FlagsOnly
        /\ [e EXCEPT !.flags = f] \in Carrier!CarrierRows \cup Carrier!FlagsOnly
        /\ [e EXCEPT !.flags = f].flags = f
  BY <1>1 DEF Carrier!CarrierRows, Carrier!FlagsOnly
<1>4. CASE j.handler = "rename"
  <2>1. w = [e EXCEPT !.name = j.name] /\ j.name \in CarrierNames
    BY <1>4, CarrierJobShapes DEF Carrier!EditCarrier
  <2>2. CASE e \in Carrier!CarrierRows
    <3>1. w = [name |-> j.name, flags |-> e.flags]
      BY <2>1, <2>2 DEF Carrier!CarrierRows
    <3>2. w \in Carrier!CarrierRows /\ w.flags = e.flags
      BY <1>1, <2>1, <3>1 DEF Carrier!CarrierRows
    <3>3. QED
      BY <3>2
  <2>3. CASE e \in Carrier!FlagsOnly
    <3>1. w = e
      BY <2>1, <2>3 DEF Carrier!FlagsOnly
    <3>2. QED
      BY <3>1
  <2>4. QED
    BY <2>2, <2>3
<1>5. CASE j.handler = "error"
  <2>1. w = [e EXCEPT !.flags = [e.flags EXCEPT !.xErrL0 = TRUE]]
    BY <1>5 DEF Carrier!EditCarrier
  <2> DEFINE f == [e.flags EXCEPT !.xErrL0 = TRUE]
  <2>2. f \in Carrier!Flags /\ f.xErrL0
    BY <1>1, <1>2
  <2> HIDE DEF f
  <2>3. w = [e EXCEPT !.flags = f]
    BY <2>1 DEF f
  <2> HIDE DEF w
  <2>4. w \in Carrier!CarrierRows \cup Carrier!FlagsOnly /\ w.flags.xErrL0
    BY <1>3, <2>2, <2>3
  <2>5. QED
    BY <2>4 DEF w
<1>6. CASE j.handler = "status"
  BY <1>6 DEF Carrier!EditCarrier
<1>7. CASE j.handler = "advanceManual"
  <2>1. w = [e EXCEPT !.flags = Carrier!AdvancedFlags] /\ Carrier!AdvancedFlags \in Carrier!Flags
    BY <1>7 DEF Carrier!EditCarrier, Carrier!AdvancedFlags, Carrier!Flags
  <2>2. QED
    BY <1>3, <1>7, <2>1
<1>8. CASE j.handler = "handshake"
  <2>1. w = [flags |-> [e.flags EXCEPT !.rest = "acked"]]
    BY <1>8 DEF Carrier!EditCarrier
  <2> DEFINE f == [e.flags EXCEPT !.rest = "acked"]
  <2>2. f \in Carrier!Flags /\ f.xErrL0 = e.flags.xErrL0
    BY <1>1, <1>2
  <2> HIDE DEF f
  <2>3. w = [flags |-> f]
    BY <2>1 DEF f
  <2>4. w \in Carrier!FlagsOnly /\ w.flags = f
    BY <2>2, <2>3 DEF Carrier!FlagsOnly
  <2>5. QED
    BY <2>2, <2>4
<1>9. QED
  BY <1>4, <1>5, <1>6, <1>7, <1>8, CarrierJobShapes

\* What save() leaves of the flag.
LEMMA CarrierWritten ==
  ASSUME NEW e \in Carrier!CarrierRows \cup Carrier!FlagsOnly,
         NEW l \in Carrier!CarrierRows, NEW now \in Carrier!CarrierRows
  PROVE  /\ CarrierTable!Written(e, l, now) \in Carrier!CarrierRows
         /\ e.flags.xErrL0 /\ l.flags.xErrL0 /\ now.flags.xErrL0 => CarrierTable!Written(e, l, now).flags.xErrL0
<1> DEFINE w == CarrierTable!Written(e, l, now)
<1>1. /\ l # Absent /\ now # Absent /\ DOMAIN now = {"name", "flags"}
      /\ DOMAIN e \in {{"name", "flags"}, {"flags"}}
  BY CarrierShapes DEF Carrier!CarrierRows, Carrier!FlagsOnly
<1>2. w = [c \in DOMAIN now |-> IF c \in DOMAIN e /\ e[c] # l[c] THEN e[c] ELSE now[c]]
  BY <1>1, Zenon DEF CarrierTable!Written
<1>3. w = [name |-> IF "name" \in DOMAIN e /\ e.name # l.name THEN e.name ELSE now.name,
           flags |-> IF e.flags # l.flags THEN e.flags ELSE now.flags]
  BY <1>1, <1>2
<1>4. /\ now.name \in CarrierNames /\ now.flags \in Carrier!Flags /\ e.flags \in Carrier!Flags
      /\ "name" \in DOMAIN e => e.name \in CarrierNames
  BY CarrierShapes DEF Carrier!CarrierRows, Carrier!FlagsOnly
<1>5. w \in Carrier!CarrierRows
  BY <1>3, <1>4 DEF Carrier!CarrierRows
<1>6. w.flags = IF e.flags # l.flags THEN e.flags ELSE now.flags
  BY <1>3
<1>7. QED
  BY <1>5, <1>6

LEMMA CarriersAreSound == CarrierTable!Sound
<1>1. \A j \in Carrier!CarrierJobs : j.op = "new" => Carrier!NewCarrier(j) \in Carrier!CarrierRows
  BY CarrierJobShapes DEF Carrier!NewCarrier, Carrier!CarrierRows, Carrier!Flags
<1>2. \A j : Carrier!OneSave(j) \in Nat /\ Carrier!OneSave(j) > 0
  BY DEF Carrier!OneSave
<1>3. QED
  BY <1>1, <1>2, CarrierShapes, CarrierJobShapes, CarrierEdits, CarrierWritten DEF CarrierTable!Sound

\* Only saves, which are recorded, and creates give names; two creates at a time are recorded.
LEMMA NamesHold ==
  ASSUME CarrierInv, CarrierTable!TableInv', Carrier!Recorded,
         \A s \in Slots : tPc'[s] = "insert" =>
           \/ tPc[s] = "insert" /\ tJob'[s] = tJob[s]
           \/ /\ UNCHANGED <<tRows, tUsed>>
              /\ \A i \in TableIds : ~Carrier!HasName(tRows, i, tJob'[s].name),
         \/ UNCHANGED tUsed
         \/ \E s \in Slots, k \in TableIds \ tUsed :
              /\ tPc[s] = "insert" /\ tPc'[s] # "insert"
              /\ tRows' = [tRows EXCEPT ![k] = Carrier!NewCarrier(tJob[s])]
              /\ tUsed' = tUsed \cup {k}
  PROVE  /\ excused' \subseteq CarrierNames /\ excused \subseteq excused'
         /\ Carrier!NamesRepeatOnlyByRace' /\ CreatesAreFirst'
<1>1. /\ CarrierTable!RowTypes /\ CarrierTable!RowTypes' /\ CarrierTable!SlotTypes
      /\ \A s \in Slots : CarrierTable!SlotInv(s)
  <2>1. CarrierTable!RowTypes'
    BY DEF CarrierTable!TableInv, CarrierTable!TypeOK, CarrierTable!RowTypes
  <2>2. QED
    BY <2>1, CarrierTable!TableInvParts DEF CarrierInv
<1>2. /\ excused' \subseteq CarrierNames /\ excused \subseteq excused'
      /\ \A n \in CarrierNames, i \in tUsed :
           Carrier!HasName(tRows', i, n) => Carrier!HasName(tRows, i, n) \/ n \in excused'
      /\ \A n \in CarrierNames, s, t \in Slots :
           s # t /\ tPc[s] = "insert" /\ tPc[t] = "insert" /\ tJob[s].name = n /\ tJob[t].name = n
             => n \in excused'
  BY DEF CarrierInv, Carrier!Recorded
<1>3. \A i \in TableIds : \A n : Carrier!HasName(tRows, i, n) => i \in tUsed
  BY <1>1, CarrierShapes DEF CarrierTable!RowTypes, Carrier!HasName
<1>4. \A i \in TableIds : \A n : Carrier!HasName(tRows', i, n) => i \in tUsed' /\ n \in CarrierNames
  BY <1>1, CarrierShapes DEF CarrierTable!RowTypes, Carrier!HasName
<1>5. tUsed \subseteq TableIds
  BY <1>1 DEF CarrierTable!RowTypes
<1>6. \A i, k \in TableIds, n \in CarrierNames :
        Carrier!HasName(tRows, i, n) /\ Carrier!HasName(tRows, k, n) /\ i # k => n \in excused
  BY DEF CarrierInv, Carrier!NamesRepeatOnlyByRace, Carrier!HasName
<1>7. \A s \in Slots : tPc[s] = "insert" => tJob[s].name \in CarrierNames
  BY <1>1, CarrierJobShapes DEF CarrierTable!SlotInv
<1>8. SUFFICES /\ \A i, k \in TableIds, n \in CarrierNames :
                    Carrier!HasName(tRows', i, n) /\ Carrier!HasName(tRows', k, n) /\ i # k => n \in excused'
               /\ CreatesAreFirst'
  BY <1>2 DEF Carrier!NamesRepeatOnlyByRace, Carrier!HasName
<1>9. CASE UNCHANGED tUsed
  <2>1. \A i \in TableIds, n \in CarrierNames :
          Carrier!HasName(tRows', i, n) => Carrier!HasName(tRows, i, n) \/ n \in excused'
    BY <1>2, <1>4, <1>9
  <2>2. ASSUME NEW s \in Slots, tPc'[s] = "insert"
        PROVE  \/ tJob'[s].name \in excused'
               \/ \A i \in TableIds : ~Carrier!HasName(tRows', i, tJob'[s].name)
    <3>1. CASE tPc[s] = "insert" /\ tJob'[s] = tJob[s]
      BY <1>2, <1>7, <2>1, <3>1 DEF CarrierInv, CreatesAreFirst
    <3>2. CASE /\ UNCHANGED <<tRows, tUsed>>
               /\ \A i \in TableIds : ~Carrier!HasName(tRows, i, tJob'[s].name)
      BY <3>2 DEF Carrier!HasName
    <3>3. QED
      BY <2>2, <3>1, <3>2
  <2>3. QED
    BY <1>2, <1>6, <2>1, <2>2 DEF CreatesAreFirst
<1>10. ASSUME NEW s \in Slots, NEW k \in TableIds \ tUsed,
              tPc[s] = "insert", tPc'[s] # "insert",
              tRows' = [tRows EXCEPT ![k] = Carrier!NewCarrier(tJob[s])], tUsed' = tUsed \cup {k}
       PROVE  /\ \A i, l \in TableIds, n \in CarrierNames :
                   Carrier!HasName(tRows', i, n) /\ Carrier!HasName(tRows', l, n) /\ i # l => n \in excused'
              /\ CreatesAreFirst'
  <2> DEFINE m == tJob[s].name
  <2>1. \A i \in TableIds : \A n : Carrier!HasName(tRows', i, n) =>
          (i = k /\ n = m) \/ (i # k /\ Carrier!HasName(tRows, i, n))
    BY <1>1, <1>10 DEF CarrierTable!RowTypes, Carrier!HasName, Carrier!NewCarrier
  <2>2. m \in CarrierNames /\ (m \in excused \/ \A i \in TableIds : ~Carrier!HasName(tRows, i, m))
    BY <1>7, <1>10 DEF CarrierInv, CreatesAreFirst
  <2>3. \A i, l \in TableIds, n \in CarrierNames :
          Carrier!HasName(tRows', i, n) /\ Carrier!HasName(tRows', l, n) /\ i # l => n \in excused'
    BY <1>2, <1>6, <2>1, <2>2
  <2>4. ASSUME NEW t \in Slots, tPc'[t] = "insert"
        PROVE  \/ tJob'[t].name \in excused'
               \/ \A i \in TableIds : ~Carrier!HasName(tRows', i, tJob'[t].name)
    <3>1. t # s /\ tPc[t] = "insert" /\ tJob'[t] = tJob[t]
      BY <1>10, <2>4
    <3>2. CASE tJob[t].name = m
      BY <1>2, <1>10, <2>2, <3>1, <3>2
    <3>3. CASE tJob[t].name # m
      BY <1>2, <2>1, <3>1, <3>3 DEF CarrierInv, CreatesAreFirst
    <3>4. QED
      BY <3>2, <3>3
  <2>5. QED
    BY <2>3, <2>4 DEF CreatesAreFirst
<1>11. QED
  BY <1>9, <1>10

\* A mark stays known when its row keeps it and whoever comes to hold it remembers it.
LEMMA MarksHold ==
  ASSUME CarrierInv, Carrier!Recorded,
         \A i \in marked : tRows'[i] = Absent \/ tRows'[i].flags.xErrL0,
         \A s \in Slots, i \in marked :
           CarrierTable!Holding(s)' /\ tJob'[s].id = i => Remembers(s)'
  PROVE  marked' \subseteq TableIds /\ MarksAreKnown'
<1>1. marked' = {i \in TableIds :
        /\ tRows'[i] # Absent
        /\ \A s \in Slots : Carrier!Table!Holds(s, i)' => tJob'[s].handler # "advanceManual"
        /\ \/ i \in marked
           \/ tRows'[i].flags.xErrL0 /\ \A s \in Slots : ~Carrier!Table!Holds(s, i)'}
  BY DEF Carrier!Recorded
<1>2. \A s \in Slots : \A i : Carrier!Table!Holds(s, i)' <=> CarrierTable!Holding(s)' /\ tJob'[s].id = i
  BY DEF Carrier!Table!Holds, CarrierTable!Holding
<1>3. ASSUME NEW i \in marked'
      PROVE  /\ tRows'[i] # Absent /\ tRows'[i].flags.xErrL0
             /\ \A s \in Slots : CarrierTable!Holding(s)' /\ tJob'[s].id = i =>
                  tJob'[s].handler # "advanceManual" /\ Remembers(s)'
  <2>1. CASE i \in marked
    BY <1>1, <1>2, <1>3, <2>1
  <2>2. CASE i \notin marked
    BY <1>1, <1>2, <1>3, <2>2
  <2>3. QED
    BY <2>1, <2>2
<1>4. MarksAreKnown'
  BY <1>3 DEF MarksAreKnown
<1>5. QED
  BY <1>1, <1>4

\* Whoever held a marked carrier and does not move goes on remembering it.
LEMMA OthersRemember ==
  ASSUME CarrierInv, NEW s \in Slots, CarrierTable!Moved(s), NEW t \in Slots \ {s}, NEW i \in marked,
         CarrierTable!Holding(t)', tJob'[t].id = i
  PROVE  Remembers(t)'
<1>1. /\ tPc'[t] = tPc[t] /\ tJob'[t] = tJob[t] /\ tMem'[t] = tMem[t] /\ tLoaded'[t] = tLoaded[t]
  BY DEF CarrierTable!Moved
<1>2. Remembers(t)
  BY <1>1 DEF CarrierInv, MarksAreKnown, CarrierTable!Holding
<1>3. QED
  BY <1>1, <1>2 DEF Remembers

LEMMA CarrierRequestStep ==
  ASSUME CarrierInv, NEW s \in Slots, Carrier!CarrierRequest(s)
  PROVE  CarrierInv'
<1>1. PICK j \in Carrier!CarrierJobs :
        CarrierTable!Finds(s, j) \/ CarrierTable!Looks(s, j) \/ CarrierTable!Deletes(s, j)
  BY CarrierTableIsTable DEF Carrier!CarrierRequest
<1>2. Carrier!Recorded /\ Carrier!Page!Elsewhere /\ CarrierTable!TableInv /\ CarrierTable!Sound
  BY CarriersAreSound DEF Carrier!CarrierRequest, CarrierInv
<1>3. /\ CarrierTable!TableInv' /\ CarrierTable!Moved(s) /\ tUsed' = tUsed
      /\ \/ tPc'[s] \in {"idle", "answered"} /\ \A i \in TableIds : tRows'[i] \in {tRows[i], Absent}
         \/ /\ tPc'[s] = "insert" /\ tJob'[s] = j /\ tRows' = tRows
            /\ j.op = "new" /\ ~Carrier!NameTaken(j, tRows)
         \/ /\ tPc'[s] = "save" /\ tJob'[s] = j /\ tRows' = tRows
            /\ j.op = "edit" /\ tRows[j.id] \in Carrier!CarrierRows
            /\ tMem'[s] = Carrier!EditCarrier(j, 1, tRows[j.id])
  BY <1>1, <1>2, CarrierTable!RequestStep
<1>4. ListInv'
  BY <1>2, TableChanges DEF CarrierInv
<1>5. ASSUME NEW t \in Slots, tPc'[t] = "insert"
      PROVE  \/ tPc[t] = "insert" /\ tJob'[t] = tJob[t]
             \/ /\ UNCHANGED <<tRows, tUsed>>
                /\ \A i \in TableIds : ~Carrier!HasName(tRows, i, tJob'[t].name)
  <2>1. CASE t = s
    BY <1>3, <1>5, <2>1 DEF Carrier!NameTaken
  <2>2. CASE t # s
    BY <1>3, <1>5, <2>2 DEF CarrierTable!Moved
  <2>3. QED
    BY <2>1, <2>2
<1>6. /\ excused' \subseteq CarrierNames
      /\ Carrier!NamesRepeatOnlyByRace' /\ CreatesAreFirst'
  BY <1>2, <1>3, <1>5, NamesHold
<1>7. \A i \in marked : i \in TableIds /\ tRows[i] # Absent /\ tRows[i].flags.xErrL0
  BY DEF CarrierInv, MarksAreKnown
<1>8. \A i \in marked : tRows'[i] = Absent \/ tRows'[i].flags.xErrL0
  BY <1>3, <1>7
<1>9. ASSUME NEW t \in Slots, NEW i \in marked, CarrierTable!Holding(t)', tJob'[t].id = i
      PROVE  Remembers(t)'
  <2>1. CASE t = s
    <3>1. tPc'[s] = "save" /\ tJob'[s] = j /\ j.id = i /\ tMem'[s] = Carrier!EditCarrier(j, 1, tRows[i])
          /\ tRows[i] \in Carrier!CarrierRows /\ j.op = "edit"
      BY <1>3, <1>9, <2>1 DEF CarrierTable!Holding
    <3>2. j.handler # "advanceManual" => tMem'[s].flags.xErrL0
      BY <1>7, <3>1, CarrierEdits
    <3>3. QED
      BY <2>1, <3>1, <3>2 DEF Remembers
  <2>2. CASE t # s
    BY <1>3, <1>9, <2>2, OthersRemember
  <2>3. QED
    BY <2>1, <2>2
<1>10. marked' \subseteq TableIds /\ MarksAreKnown'
  BY <1>2, <1>8, <1>9, MarksHold
<1>11. QED
  BY <1>3, <1>4, <1>6, <1>10 DEF CarrierInv

LEMMA CarrierSaves ==
  ASSUME CarrierInv, NEW s \in Slots, Carrier!CarrierSaveStep(s)
  PROVE  CarrierInv'
<1>1. /\ CarrierTable!Inserts(s) \/ CarrierTable!SaveLoads(s) \/ CarrierTable!SaveWrites(s)
           \/ CarrierTable!Fails(s)
      /\ Carrier!Recorded /\ Carrier!Page!Elsewhere /\ CarrierTable!TableInv /\ CarrierTable!Sound
  BY CarrierTableIsTable, CarriersAreSound DEF Carrier!CarrierSaveStep, CarrierInv
<1> DEFINE i == tJob[s].id
<1>2. /\ CarrierTable!TableInv' /\ CarrierTable!Moved(s)
      /\ \/ /\ tPc[s] = "insert" /\ tPc'[s] \in {"idle", "answered"} /\ tJob[s].op = "new"
            /\ \E k \in TableIds \ tUsed :
                 tRows' = [tRows EXCEPT ![k] = Carrier!NewCarrier(tJob[s])] /\ tUsed' = tUsed \cup {k}
         \/ /\ tPc[s] = "save" /\ tPc'[s] = "write" /\ UNCHANGED <<tRows, tUsed, tJob, tMem>>
            /\ tLoaded'[s] = tRows[i]
         \/ /\ tPc[s] = "write" /\ tUsed' = tUsed
            /\ tRows' = [tRows EXCEPT ![i] = CarrierTable!Written(tMem[s], tLoaded[s], tRows[i])]
            /\ tLoaded[s] = Absent => tRows[i] = Absent /\ tMem[s] \in Carrier!CarrierRows
            /\ \/ tPc'[s] \in {"idle", "answered"}
               \/ tPc'[s] = "save" /\ tSaved[s] + 1 < Carrier!OneSave(tJob[s])
         \/ tPc'[s] \in {"idle", "answered"} /\ UNCHANGED <<tRows, tUsed>>
  BY <1>1, CarrierTable!SaveStep
<1>3. /\ CarrierTable!RowTypes /\ CarrierTable!SlotTypes /\ CarrierTable!SlotInv(s)
  BY <1>1, CarrierTable!TableInvParts
<1>4. tPc'[s] \in {"idle", "answered", "write"}
  BY <1>2, <1>3 DEF Carrier!OneSave, CarrierTable!SlotTypes
<1>5. ListInv'
  BY <1>1, TableChanges DEF CarrierInv
<1>6. \A t \in Slots : tPc'[t] = "insert" => tPc[t] = "insert" /\ tJob'[t] = tJob[t]
  BY <1>2, <1>4 DEF CarrierTable!Moved
<1>7. \/ UNCHANGED tUsed
      \/ \E t \in Slots, k \in TableIds \ tUsed :
           /\ tPc[t] = "insert" /\ tPc'[t] # "insert"
           /\ tRows' = [tRows EXCEPT ![k] = Carrier!NewCarrier(tJob[t])]
           /\ tUsed' = tUsed \cup {k}
  BY <1>2
<1>8. /\ excused' \subseteq CarrierNames
      /\ Carrier!NamesRepeatOnlyByRace' /\ CreatesAreFirst'
  BY <1>1, <1>2, <1>6, <1>7, NamesHold
<1>9. \A m \in marked : m \in TableIds /\ tRows[m] # Absent /\ tRows[m].flags.xErrL0 /\ m \in tUsed
  BY <1>3 DEF CarrierInv, MarksAreKnown, CarrierTable!RowTypes
<1>10. tPc[s] \in {"save", "write"} /\ i \in marked => Remembers(s) /\ tJob[s].handler # "advanceManual"
  BY DEF CarrierInv, MarksAreKnown, CarrierTable!Holding
<1>11. ASSUME NEW m \in marked PROVE tRows'[m] = Absent \/ tRows'[m].flags.xErrL0
  <2>1. CASE UNCHANGED tRows
    BY <1>9, <2>1
  <2>2. ASSUME NEW k \in TableIds \ tUsed, tRows' = [tRows EXCEPT ![k] = Carrier!NewCarrier(tJob[s])]
        PROVE  tRows'[m] = Absent \/ tRows'[m].flags.xErrL0
    BY <1>3, <1>9, <2>2 DEF CarrierTable!RowTypes
  <2>3. CASE /\ tPc[s] = "write"
             /\ tRows' = [tRows EXCEPT ![i] = CarrierTable!Written(tMem[s], tLoaded[s], tRows[i])]
    <3>1. CASE m # i
      BY <1>3, <1>9, <2>3, <3>1 DEF CarrierTable!RowTypes
    <3>2. CASE m = i
      <4>1. tMem[s].flags.xErrL0 /\ tLoaded[s] # Absent /\ tLoaded[s].flags.xErrL0
        BY <1>10, <2>3, <3>2 DEF Remembers
      <4>2. /\ tMem[s] \in Carrier!CarrierRows \cup Carrier!FlagsOnly
            /\ tLoaded[s] \in Carrier!CarrierRows /\ tRows[i] \in Carrier!CarrierRows
        BY <1>3, <1>9, <2>3, <3>2, <4>1
        DEF CarrierTable!SlotInv, CarrierTable!Holding, CarrierTable!SlotTypes, CarrierTable!RowTypes
      <4>3. CarrierTable!Written(tMem[s], tLoaded[s], tRows[i]).flags.xErrL0
        BY <1>9, <3>2, <4>1, <4>2, CarrierWritten
      <4>4. tRows'[m] = CarrierTable!Written(tMem[s], tLoaded[s], tRows[i])
        BY <1>3, <1>9, <2>3, <3>2 DEF CarrierTable!RowTypes
      <4>5. QED
        BY <4>3, <4>4
    <3>3. QED
      BY <3>1, <3>2
  <2>4. QED
    BY <1>2, <2>1, <2>2, <2>3
<1>12. ASSUME NEW t \in Slots, NEW m \in marked, CarrierTable!Holding(t)', tJob'[t].id = m
       PROVE  Remembers(t)'
  <2>1. CASE t = s
    <3>1. tPc'[s] = "write" /\ tPc[s] = "save" /\ tJob' = tJob /\ tMem' = tMem /\ tLoaded'[s] = tRows[i] /\ m = i
      BY <1>2, <1>4, <1>12, <2>1 DEF CarrierTable!Holding
    <3>2. Remembers(s) /\ tRows[i] # Absent /\ tRows[i].flags.xErrL0
      BY <1>9, <1>10, <3>1
    <3>3. QED
      BY <2>1, <3>1, <3>2 DEF Remembers
  <2>2. CASE t # s
    BY <1>2, <1>12, <2>2, OthersRemember
  <2>3. QED
    BY <2>1, <2>2
<1>13. marked' \subseteq TableIds /\ MarksAreKnown'
  BY <1>1, <1>11, <1>12, MarksHold
<1>14. QED
  BY <1>2, <1>5, <1>8, <1>13 DEF CarrierInv

\* A step that leaves the table alone and starts nothing.
LEMMA CarrierQuiet ==
  ASSUME CarrierInv, CarrierTable!TableInv', ListInv', Carrier!Recorded, UNCHANGED <<tRows, tUsed>>,
         \A s \in Slots : \/ tPc'[s] \in {"idle", "answered"}
                          \/ /\ tPc'[s] = tPc[s] /\ tJob'[s] = tJob[s] /\ tMem'[s] = tMem[s]
                             /\ tLoaded'[s] = tLoaded[s]
  PROVE  CarrierInv'
<1>1. /\ excused' \subseteq CarrierNames
      /\ Carrier!NamesRepeatOnlyByRace' /\ CreatesAreFirst'
  BY NamesHold
<1>2. \A m \in marked : tRows'[m] = Absent \/ tRows'[m].flags.xErrL0
  BY DEF CarrierInv, MarksAreKnown
<1>3. \A t \in Slots, m \in marked : CarrierTable!Holding(t)' /\ tJob'[t].id = m => Remembers(t)'
  BY DEF CarrierInv, MarksAreKnown, CarrierTable!Holding, Remembers
<1>4. marked' \subseteq TableIds /\ MarksAreKnown'
  BY <1>2, <1>3, MarksHold
<1>5. QED
  BY <1>1, <1>4 DEF CarrierInv

LEMMA CarrierAnswers ==
  ASSUME CarrierInv, NEW s \in Slots, Carrier!CarrierAnswered(s)
  PROVE  CarrierInv'
<1>1. /\ CarrierTable!Delivered(s) /\ Carrier!Recorded
      /\ Carrier!Page!HearsDeleted(tJob[s].id, tOutcome[s] = "ok")
      /\ CarrierTable!TableInv
  BY CarrierTableIsTable DEF Carrier!CarrierAnswered, CarrierInv
<1>2. /\ CarrierTable!TableInv' /\ CarrierTable!Moved(s) /\ tPc'[s] = "idle" /\ UNCHANGED <<tRows, tUsed>>
  BY <1>1, CarrierTable!Delivering
<1>3. tJob[s].id \in TableIds
  <2>1. tPc[s] = "answered" /\ CarrierTable!SlotInv(s)
    BY <1>1, CarrierTable!TableInvParts DEF CarrierTable!Delivered
  <2>2. tJob[s] \in Carrier!CarrierJobs /\ tJob[s].op = "delete"
    BY <2>1 DEF CarrierTable!SlotInv, Carrier!PageDelete
  <2>3. QED
    BY <2>2, CarrierJobShapes
<1>4. ListInv'
  BY <1>1, <1>2, <1>3, ListChanges DEF CarrierInv
<1>5. \A t \in Slots : \/ tPc'[t] \in {"idle", "answered"}
                       \/ /\ tPc'[t] = tPc[t] /\ tJob'[t] = tJob[t] /\ tMem'[t] = tMem[t]
                          /\ tLoaded'[t] = tLoaded[t]
  BY <1>2 DEF CarrierTable!Moved
<1>6. QED
  BY <1>1, <1>2, <1>4, <1>5, CarrierQuiet

LEMMA CarrierRestarts == ASSUME CarrierInv, Carrier!CarrierRestart PROVE CarrierInv'
<1>1. /\ CarrierTable!Restarts /\ Carrier!Recorded /\ UNCHANGED listVars /\ CarrierTable!TableInv
  BY CarrierTableIsTable DEF Carrier!CarrierRestart, Carrier!carrierPageVars, listVars, CarrierInv
<1>2. /\ CarrierTable!TableInv' /\ UNCHANGED <<tRows, tUsed>>
      /\ \A s \in Slots : tPc'[s] \in {"idle", "answered"}
  BY <1>1, CarrierTable!Restarting
<1>3. ListInv'
  BY <1>1, <1>2, TableChanges DEF CarrierInv
<1>4. QED
  BY <1>1, <1>2, <1>3, CarrierQuiet

LEMMA CarrierRests ==
  ASSUME CarrierInv, ListInv', UNCHANGED <<tableVars, excused, marked>>
  PROVE  CarrierInv'
<1>1. UNCHANGED <<tRows, tUsed, tPc, tJob, tMem, tLoaded, tSaved, tOutcome, excused, marked>>
  BY DEF tableVars
<1>2. CarrierTable!TableInv'
  BY <1>1 DEF CarrierInv, CarrierTable!TableInv, CarrierTable!TypeOK, CarrierTable!Holding
<1>3. Carrier!NamesRepeatOnlyByRace' /\ CreatesAreFirst' /\ MarksAreKnown'
  BY <1>1 DEF CarrierInv, Carrier!NamesRepeatOnlyByRace, Carrier!HasName, CreatesAreFirst,
              MarksAreKnown, Remembers, CarrierTable!Holding
<1>4. QED
  BY <1>1, <1>2, <1>3 DEF CarrierInv

LEMMA CarrierInitInv == ASSUME Carrier!CarrierInit PROVE CarrierInv
<1>1. Carrier!Table!Init /\ Carrier!Page!ListInit /\ excused = {} /\ marked = {}
  BY DEF Carrier!CarrierInit
<1>2. CarrierTable!Init
  BY <1>1, CarrierTableIsTable
<1>3. ListInv
  BY <1>1, ListStarts
<1>4. CarrierTable!TableInv
  BY <1>2, CarriersAreSound, CarrierTable!Starting
<1>5. /\ \A i \in TableIds : tRows[i] = Absent
      /\ \A s \in Slots : tPc[s] = "idle"
  BY <1>2 DEF CarrierTable!Init
<1>6. Carrier!NamesRepeatOnlyByRace /\ CreatesAreFirst /\ MarksAreKnown
  BY <1>1, <1>5, CarrierShapes DEF Carrier!NamesRepeatOnlyByRace, Carrier!HasName, CreatesAreFirst, MarksAreKnown
<1>7. QED
  BY <1>1, <1>3, <1>4, <1>6 DEF CarrierInv

LEMMA CarrierStepInv == CarrierInv /\ Carrier!CarrierNext => CarrierInv'
<1>1. SUFFICES ASSUME CarrierInv, Carrier!CarrierNext PROVE CarrierInv'
  OBVIOUS
<1>2. CASE Carrier!CarrierPageStep
  <2>1. /\ UNCHANGED <<tableVars, excused, marked>>
        /\ Carrier!Page!Asks \/ Carrier!Page!ListRead \/ Carrier!Page!ListLands
    BY <1>2 DEF Carrier!CarrierPageStep, Carrier!requestVars, tableVars
  <2>2. UNCHANGED tRows
    BY <2>1 DEF tableVars
  <2>3. ListInv'
    BY <2>1, <2>2, ListChanges, <1>1 DEF CarrierInv
  <2>4. QED
    BY <1>1, <2>1, <2>3, CarrierRests
<1>3. QED
  BY <1>1, <1>2, CarrierRestarts, CarrierRequestStep, CarrierSaves, CarrierAnswers DEF Carrier!CarrierNext

----------------------------------------------------------------------------
(* Shifts. *)

\* A create that was let through finds no open shift of its type, or may open a second.
OpensAreFirst ==
  \A s \in Slots : tPc[s] = "insert" =>
    \/ tJob[s].shift_type \in raced
    \/ \A i \in TableIds : ~Shift!IsOpen(tRows, i, tJob[s].shift_type)

\* Whoever saves a shift closes it, and finds no other open than the one it read.
Closes(s) ==
  /\ ShiftTable!Holding(s) => tMem[s].closed
  /\ tPc[s] = "write" /\ tLoaded[s] # Absent /\ tLoaded[s].closed =>
       tRows[tJob[s].id] = Absent \/ tRows[tJob[s].id].closed

ShiftInv ==
  /\ ShiftTable!TableInv /\ raced \subseteq ShiftTypes
  /\ Shift!OpenTwiceOnlyByRace /\ OpensAreFirst /\ \A s \in Slots : Closes(s)

LEMMA ShiftShapes ==
  /\ Absent \notin Shift!ShiftRows
  /\ \A e \in Shift!ShiftRows : e.shift_type \in ShiftTypes /\ e.closed \in BOOLEAN
  /\ \A j \in Shift!ShiftJobs :
       /\ j.op \in {"edit", "delete"} => j.id \in TableIds
       /\ j.op = "new" => j.shift_type \in ShiftTypes
  BY ServicesAssumption DEF Shift!ShiftRows, Shift!ShiftJobs

LEMMA ShiftWritten ==
  ASSUME NEW e \in Shift!ShiftRows, NEW l \in Shift!ShiftRows, NEW now \in Shift!ShiftRows
  PROVE  /\ ShiftTable!Written(e, l, now) \in Shift!ShiftRows
         /\ e.closed /\ (l.closed => now.closed) => ShiftTable!Written(e, l, now).closed
<1> DEFINE w == ShiftTable!Written(e, l, now)
<1>1. /\ l # Absent /\ now # Absent
      /\ DOMAIN now = {"shift_type", "closed"} /\ DOMAIN e = {"shift_type", "closed"}
  BY ShiftShapes DEF Shift!ShiftRows
<1>2. w = [c \in DOMAIN now |-> IF c \in DOMAIN e /\ e[c] # l[c] THEN e[c] ELSE now[c]]
  BY <1>1, Zenon DEF ShiftTable!Written
<1>3. w = [shift_type |-> IF e.shift_type # l.shift_type THEN e.shift_type ELSE now.shift_type,
           closed |-> IF e.closed # l.closed THEN e.closed ELSE now.closed]
  BY <1>1, <1>2
<1>4. /\ now.shift_type \in ShiftTypes /\ e.shift_type \in ShiftTypes
      /\ e.closed \in BOOLEAN /\ l.closed \in BOOLEAN /\ now.closed \in BOOLEAN
  BY ShiftShapes
<1>5. w \in Shift!ShiftRows
  BY <1>3, <1>4 DEF Shift!ShiftRows
<1>6. w.closed = IF e.closed # l.closed THEN e.closed ELSE now.closed
  BY <1>3
<1>7. QED
  BY <1>4, <1>5, <1>6

LEMMA ShiftsAreSound == ShiftTable!Sound
<1>1. \A j \in Shift!ShiftJobs : j.op = "new" => Shift!OpenedShift(j) \in Shift!ShiftRows
  BY ShiftShapes DEF Shift!OpenedShift, Shift!ShiftRows
<1>2. \A j : Shift!OneSave(j) \in Nat /\ Shift!OneSave(j) > 0
  BY DEF Shift!OneSave
<1>3. \A j, n : \A e \in Shift!ShiftRows : Shift!CloseShift(j, n, e) \in Shift!ShiftRows
  BY DEF Shift!CloseShift, Shift!ShiftRows
<1>4. QED
  BY <1>1, <1>2, <1>3, ShiftShapes, ShiftWritten DEF ShiftTable!Sound

\* Shifts are opened by creates alone, and two at a time are recorded.
LEMMA OpensHold ==
  ASSUME ShiftInv, ShiftTable!TableInv', Shift!Recorded,
         \A i \in tUsed : \A t : Shift!IsOpen(tRows', i, t) => Shift!IsOpen(tRows, i, t),
         \A s \in Slots : tPc'[s] = "insert" =>
           \/ tPc[s] = "insert" /\ tJob'[s] = tJob[s]
           \/ /\ UNCHANGED <<tRows, tUsed>>
              /\ \A i \in TableIds : ~Shift!IsOpen(tRows, i, tJob'[s].shift_type),
         \/ UNCHANGED tUsed
         \/ \E s \in Slots, k \in TableIds \ tUsed :
              /\ tPc[s] = "insert" /\ tPc'[s] # "insert"
              /\ tRows' = [tRows EXCEPT ![k] = Shift!OpenedShift(tJob[s])]
              /\ tUsed' = tUsed \cup {k}
  PROVE  raced' \subseteq ShiftTypes /\ Shift!OpenTwiceOnlyByRace' /\ OpensAreFirst'
<1>1. /\ ShiftTable!RowTypes /\ ShiftTable!RowTypes' /\ \A s \in Slots : ShiftTable!SlotInv(s)
  <2>1. ShiftTable!RowTypes'
    BY DEF ShiftTable!TableInv, ShiftTable!TypeOK, ShiftTable!RowTypes
  <2>2. QED
    BY <2>1, ShiftTable!TableInvParts DEF ShiftInv
<1>2. /\ raced' \subseteq ShiftTypes /\ raced \subseteq raced'
      /\ \A t \in ShiftTypes, s, r \in Slots :
           s # r /\ tPc[s] = "insert" /\ tPc[r] = "insert" /\ tJob[s].shift_type = t /\ tJob[r].shift_type = t
             => t \in raced'
  BY DEF ShiftInv, Shift!Recorded
<1>3. \A i \in TableIds : \A t : Shift!IsOpen(tRows, i, t) => i \in tUsed
  BY <1>1 DEF ShiftTable!RowTypes, Shift!IsOpen
<1>4. \A i \in TableIds : \A t : Shift!IsOpen(tRows', i, t) => i \in tUsed'
  BY <1>1 DEF ShiftTable!RowTypes, Shift!IsOpen
<1>5. \A i, k \in TableIds, t \in ShiftTypes :
        Shift!IsOpen(tRows, i, t) /\ Shift!IsOpen(tRows, k, t) /\ i # k => t \in raced
  BY DEF ShiftInv, Shift!OpenTwiceOnlyByRace
<1>6. \A s \in Slots : tPc[s] = "insert" => tJob[s].shift_type \in ShiftTypes
  BY <1>1, ShiftShapes DEF ShiftTable!SlotInv
<1>7. SUFFICES /\ \A i, k \in TableIds, t \in ShiftTypes :
                    Shift!IsOpen(tRows', i, t) /\ Shift!IsOpen(tRows', k, t) /\ i # k => t \in raced'
               /\ OpensAreFirst'
  BY <1>2 DEF Shift!OpenTwiceOnlyByRace, Shift!IsOpen
<1>8. CASE UNCHANGED tUsed
  <2>1. \A i \in TableIds : \A t : Shift!IsOpen(tRows', i, t) => Shift!IsOpen(tRows, i, t)
    BY <1>4, <1>8
  <2>2. ASSUME NEW s \in Slots, tPc'[s] = "insert"
        PROVE  \/ tJob'[s].shift_type \in raced'
               \/ \A i \in TableIds : ~Shift!IsOpen(tRows', i, tJob'[s].shift_type)
    <3>1. CASE tPc[s] = "insert" /\ tJob'[s] = tJob[s]
      BY <1>2, <2>1, <3>1 DEF ShiftInv, OpensAreFirst
    <3>2. CASE /\ UNCHANGED <<tRows, tUsed>>
               /\ \A i \in TableIds : ~Shift!IsOpen(tRows, i, tJob'[s].shift_type)
      BY <2>1, <3>2
    <3>3. QED
      BY <2>2, <3>1, <3>2
  <2>3. QED
    BY <1>2, <1>5, <2>1, <2>2 DEF OpensAreFirst
<1>9. ASSUME NEW s \in Slots, NEW k \in TableIds \ tUsed,
             tPc[s] = "insert", tPc'[s] # "insert",
             tRows' = [tRows EXCEPT ![k] = Shift!OpenedShift(tJob[s])], tUsed' = tUsed \cup {k}
      PROVE  /\ \A i, l \in TableIds, t \in ShiftTypes :
                  Shift!IsOpen(tRows', i, t) /\ Shift!IsOpen(tRows', l, t) /\ i # l => t \in raced'
             /\ OpensAreFirst'
  <2> DEFINE m == tJob[s].shift_type
  <2>1. \A i \in TableIds : \A t : Shift!IsOpen(tRows', i, t) =>
          (i = k /\ t = m) \/ (i # k /\ Shift!IsOpen(tRows, i, t))
    BY <1>1, <1>9 DEF ShiftTable!RowTypes, Shift!IsOpen, Shift!OpenedShift
  <2>2. m \in ShiftTypes /\ (m \in raced \/ \A i \in TableIds : ~Shift!IsOpen(tRows, i, m))
    BY <1>6, <1>9 DEF ShiftInv, OpensAreFirst
  <2>3. \A i, l \in TableIds, t \in ShiftTypes :
          Shift!IsOpen(tRows', i, t) /\ Shift!IsOpen(tRows', l, t) /\ i # l => t \in raced'
    BY <1>2, <1>5, <2>1, <2>2
  <2>4. ASSUME NEW r \in Slots, tPc'[r] = "insert"
        PROVE  \/ tJob'[r].shift_type \in raced'
               \/ \A i \in TableIds : ~Shift!IsOpen(tRows', i, tJob'[r].shift_type)
    <3>1. r # s /\ tPc[r] = "insert" /\ tJob'[r] = tJob[r]
      BY <1>9, <2>4
    <3>2. CASE tJob[r].shift_type = m
      BY <1>2, <1>9, <2>2, <3>1, <3>2
    <3>3. CASE tJob[r].shift_type # m
      BY <1>2, <2>1, <3>1, <3>3 DEF ShiftInv, OpensAreFirst
    <3>4. QED
      BY <3>2, <3>3
  <2>5. QED
    BY <2>3, <2>4 DEF OpensAreFirst
<1>10. QED
  BY <1>8, <1>9

\* A step of slot s that opens no shift but by its insert keeps the rest.
LEMMA ShiftSlotStep ==
  ASSUME ShiftInv, NEW s \in Slots, ShiftTable!Moved(s), ShiftTable!TableInv', Shift!Recorded,
         \A i \in tUsed : tRows'[i] \in {tRows[i], Absent} \/ tRows'[i].closed,
         tPc'[s] = "insert" =>
           /\ UNCHANGED <<tRows, tUsed>>
           /\ \A i \in TableIds : ~Shift!IsOpen(tRows, i, tJob'[s].shift_type),
         \/ UNCHANGED tUsed
         \/ \E k \in TableIds \ tUsed :
              /\ tPc[s] = "insert" /\ tPc'[s] # "insert"
              /\ tRows' = [tRows EXCEPT ![k] = Shift!OpenedShift(tJob[s])]
              /\ tUsed' = tUsed \cup {k},
         Closes(s)'
  PROVE  ShiftInv'
<1>1. \A i \in tUsed : \A t : Shift!IsOpen(tRows', i, t) => Shift!IsOpen(tRows, i, t)
  BY DEF Shift!IsOpen
<1>2. ASSUME NEW t \in Slots, tPc'[t] = "insert"
      PROVE  \/ tPc[t] = "insert" /\ tJob'[t] = tJob[t]
             \/ /\ UNCHANGED <<tRows, tUsed>>
                /\ \A i \in TableIds : ~Shift!IsOpen(tRows, i, tJob'[t].shift_type)
  BY <1>2 DEF ShiftTable!Moved
<1>3. raced' \subseteq ShiftTypes /\ Shift!OpenTwiceOnlyByRace' /\ OpensAreFirst'
  BY <1>1, <1>2, OpensHold
<1>4. ASSUME NEW t \in Slots \ {s} PROVE Closes(t)'
  <2>1. /\ tPc'[t] = tPc[t] /\ tJob'[t] = tJob[t] /\ tMem'[t] = tMem[t] /\ tLoaded'[t] = tLoaded[t]
    BY DEF ShiftTable!Moved
  <2>2. Closes(t)
    BY DEF ShiftInv
  <2>3. tPc[t] = "write" => tJob[t].id \in tUsed
    BY ShiftTable!TableInvParts DEF ShiftInv, ShiftTable!SlotInv, ShiftTable!Holding
  <2>4. QED
    BY <2>1, <2>2, <2>3 DEF Closes, ShiftTable!Holding
<1>5. \A t \in Slots : Closes(t)'
  BY <1>4
<1>6. QED
  BY <1>3, <1>5 DEF ShiftInv

LEMMA ShiftRequestStep ==
  ASSUME ShiftInv, NEW s \in Slots, Shift!ShiftRequest(s)
  PROVE  ShiftInv'
<1>1. PICK j \in Shift!ShiftJobs :
        ShiftTable!Finds(s, j) \/ ShiftTable!Looks(s, j) \/ ShiftTable!Deletes(s, j)
  BY ShiftTableIsTable DEF Shift!ShiftRequest
<1>2. Shift!Recorded /\ ShiftTable!TableInv /\ ShiftTable!Sound /\ ShiftTable!RowTypes
  BY ShiftsAreSound, ShiftTable!TableInvParts DEF Shift!ShiftRequest, ShiftInv
<1>3. /\ ShiftTable!TableInv' /\ ShiftTable!Moved(s) /\ tUsed' = tUsed
      /\ \/ tPc'[s] \in {"idle", "answered"} /\ \A i \in TableIds : tRows'[i] \in {tRows[i], Absent}
         \/ /\ tPc'[s] = "insert" /\ tJob'[s] = j /\ tRows' = tRows
            /\ j.op = "new" /\ ~Shift!AlreadyOpen(j, tRows)
         \/ /\ tPc'[s] = "save" /\ tJob'[s] = j /\ tRows' = tRows
            /\ j.op = "edit" /\ tRows[j.id] \in Shift!ShiftRows
            /\ tMem'[s] = Shift!CloseShift(j, 1, tRows[j.id])
  BY <1>1, <1>2, ShiftTable!RequestStep
<1>4. \A i \in tUsed : tRows'[i] \in {tRows[i], Absent}
  BY <1>2, <1>3 DEF ShiftTable!RowTypes
<1>5. tPc'[s] = "insert" =>
        /\ UNCHANGED <<tRows, tUsed>>
        /\ \A i \in TableIds : ~Shift!IsOpen(tRows, i, tJob'[s].shift_type)
  BY <1>3 DEF Shift!AlreadyOpen
<1>6. tPc'[s] = "save" => tMem'[s].closed
  BY <1>3 DEF Shift!CloseShift, Shift!ShiftRows
<1>7. Closes(s)'
  BY <1>3, <1>6 DEF Closes, ShiftTable!Holding
<1>8. QED
  BY <1>2, <1>3, <1>4, <1>5, <1>7, ShiftSlotStep

LEMMA ShiftSaves ==
  ASSUME ShiftInv, NEW s \in Slots, Shift!ShiftSaveStep(s)
  PROVE  ShiftInv'
<1>1. /\ ShiftTable!Inserts(s) \/ ShiftTable!SaveLoads(s) \/ ShiftTable!SaveWrites(s)
           \/ ShiftTable!Fails(s)
      /\ Shift!Recorded /\ ShiftTable!TableInv /\ ShiftTable!Sound
  BY ShiftTableIsTable, ShiftsAreSound DEF Shift!ShiftSaveStep, ShiftInv
<1> DEFINE i == tJob[s].id
<1>2. /\ ShiftTable!TableInv' /\ ShiftTable!Moved(s)
      /\ \/ /\ tPc[s] = "insert" /\ tPc'[s] \in {"idle", "answered"} /\ tJob[s].op = "new"
            /\ \E k \in TableIds \ tUsed :
                 tRows' = [tRows EXCEPT ![k] = Shift!OpenedShift(tJob[s])] /\ tUsed' = tUsed \cup {k}
         \/ /\ tPc[s] = "save" /\ tPc'[s] = "write" /\ UNCHANGED <<tRows, tUsed, tJob, tMem>>
            /\ tLoaded'[s] = tRows[i]
         \/ /\ tPc[s] = "write" /\ tUsed' = tUsed
            /\ tRows' = [tRows EXCEPT ![i] = ShiftTable!Written(tMem[s], tLoaded[s], tRows[i])]
            /\ tLoaded[s] = Absent => tRows[i] = Absent /\ tMem[s] \in Shift!ShiftRows
            /\ \/ tPc'[s] \in {"idle", "answered"}
               \/ tPc'[s] = "save" /\ tSaved[s] + 1 < Shift!OneSave(tJob[s])
         \/ tPc'[s] \in {"idle", "answered"} /\ UNCHANGED <<tRows, tUsed>>
  BY <1>1, ShiftTable!SaveStep
<1>3. /\ ShiftTable!RowTypes /\ ShiftTable!SlotTypes /\ ShiftTable!SlotInv(s) /\ Closes(s)
  BY <1>1, ShiftTable!TableInvParts DEF ShiftInv
<1>4. tPc'[s] \in {"idle", "answered", "write"}
  BY <1>2, <1>3 DEF Shift!OneSave, ShiftTable!SlotTypes
<1>5. ASSUME tPc[s] = "write",
             tRows' = [tRows EXCEPT ![i] = ShiftTable!Written(tMem[s], tLoaded[s], tRows[i])],
             tLoaded[s] = Absent => tRows[i] = Absent
      PROVE  \A k \in tUsed : tRows'[k] \in {tRows[k], Absent} \/ tRows'[k].closed
  <2> DEFINE w == ShiftTable!Written(tMem[s], tLoaded[s], tRows[i])
  <2>1. /\ tMem[s] \in Shift!ShiftRows /\ tMem[s].closed
        /\ tLoaded[s] \in Shift!ShiftRows \cup {Absent} /\ tRows[i] \in Shift!ShiftRows \cup {Absent}
    BY <1>3, <1>5 DEF ShiftTable!SlotInv, ShiftTable!Holding, ShiftTable!SlotTypes, ShiftTable!RowTypes, Closes
  <2>2. CASE tLoaded[s] = Absent
    <3>1. w = tMem[s]
      BY <2>2 DEF ShiftTable!Written
    <3>2. QED
      BY <1>3, <1>5, <2>1, <3>1 DEF ShiftTable!RowTypes
  <2>3. CASE tLoaded[s] # Absent /\ tRows[i] = Absent
    <3>1. w = Absent
      BY <2>3 DEF ShiftTable!Written
    <3>2. QED
      BY <1>3, <1>5, <3>1 DEF ShiftTable!RowTypes
  <2>4. CASE tLoaded[s] # Absent /\ tRows[i] # Absent
    <3>1. tLoaded[s].closed => tRows[i].closed
      BY <1>3, <1>5, <2>4 DEF Closes
    <3>2. w.closed
      BY <2>1, <2>4, <3>1, ShiftWritten
    <3>3. QED
      BY <1>3, <1>5, <3>2 DEF ShiftTable!RowTypes
  <2>5. QED
    BY <2>2, <2>3, <2>4
<1>6. \A k \in tUsed : tRows'[k] \in {tRows[k], Absent} \/ tRows'[k].closed
  <2>1. CASE UNCHANGED tRows
    BY <2>1
  <2>2. ASSUME NEW k \in TableIds \ tUsed, tRows' = [tRows EXCEPT ![k] = Shift!OpenedShift(tJob[s])]
        PROVE  \A l \in tUsed : tRows'[l] = tRows[l]
    BY <1>3, <2>2 DEF ShiftTable!RowTypes
  <2>3. QED
    BY <1>2, <1>5, <2>1, <2>2
<1>7. Closes(s)'
  <2>1. CASE tPc'[s] # "write"
    BY <1>4, <2>1 DEF Closes, ShiftTable!Holding
  <2>2. CASE tPc'[s] = "write"
    <3>1. /\ tPc[s] = "save" /\ UNCHANGED <<tRows, tUsed, tJob, tMem>> /\ tLoaded'[s] = tRows[i]
      BY <1>2, <2>2
    <3>2. QED
      BY <1>3, <2>2, <3>1 DEF Closes, ShiftTable!Holding
  <2>3. QED
    BY <2>1, <2>2
<1>8. \/ UNCHANGED tUsed
      \/ \E k \in TableIds \ tUsed :
           /\ tPc[s] = "insert" /\ tPc'[s] # "insert"
           /\ tRows' = [tRows EXCEPT ![k] = Shift!OpenedShift(tJob[s])]
           /\ tUsed' = tUsed \cup {k}
  BY <1>2
<1>9. QED
  BY <1>1, <1>2, <1>4, <1>6, <1>7, <1>8, ShiftSlotStep

LEMMA ShiftRestarts == ASSUME ShiftInv, Shift!ShiftRestart PROVE ShiftInv'
<1>1. ShiftTable!Restarts /\ Shift!Recorded /\ ShiftTable!TableInv
  BY ShiftTableIsTable DEF Shift!ShiftRestart, ShiftInv
<1>2. /\ ShiftTable!TableInv' /\ UNCHANGED <<tRows, tUsed>>
      /\ \A s \in Slots : tPc'[s] \in {"idle", "answered"}
  BY <1>1, ShiftTable!Restarting
<1>3. raced' \subseteq ShiftTypes /\ Shift!OpenTwiceOnlyByRace' /\ OpensAreFirst'
  BY <1>1, <1>2, OpensHold
<1>4. \A s \in Slots : Closes(s)'
  BY <1>2 DEF Closes, ShiftTable!Holding
<1>5. QED
  BY <1>2, <1>3, <1>4 DEF ShiftInv

LEMMA ShiftRests == ASSUME ShiftInv, UNCHANGED <<tableVars, raced>> PROVE ShiftInv'
<1>1. UNCHANGED <<tRows, tUsed, tPc, tJob, tMem, tLoaded, tSaved, tOutcome, raced>>
  BY DEF tableVars
<1>2. ShiftTable!TableInv'
  BY <1>1 DEF ShiftInv, ShiftTable!TableInv, ShiftTable!TypeOK, ShiftTable!Holding
<1>3. QED
  BY <1>1, <1>2 DEF ShiftInv, Shift!OpenTwiceOnlyByRace, Shift!IsOpen, OpensAreFirst, Closes, ShiftTable!Holding

LEMMA ShiftInitInv == ASSUME Shift!ShiftInit PROVE ShiftInv
<1>1. Shift!Table!Init /\ raced = {}
  BY DEF Shift!ShiftInit
<1>2. ShiftTable!Init
  BY <1>1, ShiftTableIsTable
<1>3. ShiftTable!TableInv
  BY <1>2, ShiftsAreSound, ShiftTable!Starting
<1>4. /\ \A i \in TableIds : tRows[i] = Absent
      /\ \A s \in Slots : tPc[s] = "idle"
  BY <1>2 DEF ShiftTable!Init
<1>5. Shift!OpenTwiceOnlyByRace /\ OpensAreFirst /\ \A s \in Slots : Closes(s)
  BY <1>4 DEF Shift!OpenTwiceOnlyByRace, Shift!IsOpen, OpensAreFirst, Closes, ShiftTable!Holding
<1>6. QED
  BY <1>1, <1>3, <1>5 DEF ShiftInv

LEMMA ShiftStepInv == ShiftInv /\ Shift!ShiftNext => ShiftInv'
  BY ShiftRestarts, ShiftRequestStep, ShiftSaves DEF Shift!ShiftNext

----------------------------------------------------------------------------
(* Machines. *)

Counts == [rows : 0..FileRows, left : 0..FileRows, imported : 0..FileRows, errors : 0..FileRows]
\* The counts of one import are those of its rows, and of machines it has put in.
ImportInv(m) ==
  /\ import[m] \in Counts
  /\ import[m].imported + import[m].errors + import[m].left = import[m].rows
  /\ inserted[m] \subseteq tUsed /\ IsFiniteSet(inserted[m])
  /\ import[m].imported <= Cardinality(inserted[m])
ImportsInv ==
  /\ import = [m \in Imports |-> import[m]] /\ inserted = [m \in Imports |-> inserted[m]]
  /\ \A m \in Imports : ImportInv(m)

MachineInv == MachineTable!TableInv /\ ListInv /\ ImportsInv

LEMMA MachineShapes ==
  /\ Absent \notin Machine!MachineRows
  /\ \A e \in Machine!MachineRows : e.edited \in BOOLEAN /\ e.beat \in BOOLEAN
  /\ \A j \in Machine!MachineJobs : j.op \in {"edit", "delete"} => j.id \in TableIds
  BY ServicesAssumption DEF Machine!MachineRows, Machine!MachineJobs, Machine!FormJobs, Machine!RowJobs

LEMMA MachineWritten ==
  ASSUME NEW e \in Machine!MachineRows, NEW l \in Machine!MachineRows, NEW now \in Machine!MachineRows
  PROVE  MachineTable!Written(e, l, now) \in Machine!MachineRows
<1> DEFINE w == MachineTable!Written(e, l, now)
<1>1. /\ l # Absent /\ now # Absent
      /\ DOMAIN now = {"edited", "beat"} /\ DOMAIN e = {"edited", "beat"}
  BY MachineShapes DEF Machine!MachineRows
<1>2. w = [c \in DOMAIN now |-> IF c \in DOMAIN e /\ e[c] # l[c] THEN e[c] ELSE now[c]]
  BY <1>1, Zenon DEF MachineTable!Written
<1>3. w = [edited |-> IF e.edited # l.edited THEN e.edited ELSE now.edited,
           beat |-> IF e.beat # l.beat THEN e.beat ELSE now.beat]
  BY <1>1, <1>2
<1>4. QED
  BY <1>3, MachineShapes DEF Machine!MachineRows

LEMMA MachinesAreSound == MachineTable!Sound
<1>1. \A j : Machine!NewMachine(j) \in Machine!MachineRows
  BY DEF Machine!NewMachine, Machine!MachineRows
<1>2. \A j : Machine!OneSave(j) \in Nat /\ Machine!OneSave(j) > 0
  BY DEF Machine!OneSave
<1>3. \A j, n : \A e \in Machine!MachineRows : Machine!EditMachine(j, n, e) \in Machine!MachineRows
  BY DEF Machine!EditMachine, Machine!MachineRows
<1>4. QED
  BY <1>1, <1>2, <1>3, MachineShapes, MachineWritten DEF MachineTable!Sound

\* Imports are left alone while the table takes more rows.
LEMMA ImportsRest ==
  ASSUME ImportsInv, UNCHANGED <<import, inserted>>, tUsed \subseteq tUsed'
  PROVE  ImportsInv'
  BY DEF ImportsInv, ImportInv

LEMMA NothingImported ==
  ASSUME import' = [m \in Imports |-> Machine!NoImport], inserted' = [m \in Imports |-> {}]
  PROVE  ImportsInv'
<1>1. IsFiniteSet({}) /\ Cardinality({}) = 0
  BY FS_EmptySet
<1>2. ASSUME NEW m \in Imports PROVE ImportInv(m)'
  <2>1. import'[m] = Machine!NoImport /\ inserted'[m] = {}
    OBVIOUS
  <2>2. QED
    BY <1>1, <2>1, ServicesAssumption DEF ImportInv, Machine!NoImport, Counts
<1>3. QED
  BY <1>2 DEF ImportsInv

\* One import changes its counts and what it has put in.
LEMMA ImportStep ==
  ASSUME ImportsInv, NEW m \in Imports, NEW c, NEW w, tUsed \subseteq tUsed',
         import' = [import EXCEPT ![m] = c], inserted' = [inserted EXCEPT ![m] = w],
         c \in Counts,
         c.imported + c.errors + c.left = c.rows,
         w \subseteq tUsed', IsFiniteSet(w), c.imported <= Cardinality(w)
  PROVE  ImportsInv'
<1>1. /\ import' = [k \in Imports |-> IF k = m THEN c ELSE import[k]]
      /\ inserted' = [k \in Imports |-> IF k = m THEN w ELSE inserted[k]]
  BY DEF ImportsInv
<1>2. ImportInv(m)'
  BY <1>1 DEF ImportInv
<1>3. ASSUME NEW k \in Imports \ {m} PROVE ImportInv(k)'
  <2>1. import'[k] = import[k] /\ inserted'[k] = inserted[k] /\ ImportInv(k)
    BY <1>1 DEF ImportsInv
  <2>2. QED
    BY <2>1 DEF ImportInv
<1>4. QED
  BY <1>1, <1>2, <1>3 DEF ImportsInv

LEMMA CountsRange ==
  ASSUME NEW r \in Counts
  PROVE  /\ r.rows \in 0..FileRows /\ r.left \in 0..FileRows
         /\ r.imported \in 0..FileRows /\ r.errors \in 0..FileRows
  BY ServicesAssumption DEF Counts

LEMMA CountsSuccess ==
  ASSUME NEW r \in Counts, r.left > 0, r.imported < FileRows
  PROVE  LET c == [r EXCEPT !.left = @ - 1, !.imported = @ + 1] IN
           /\ c \in Counts /\ c.rows = r.rows /\ c.left = r.left - 1
           /\ c.imported = r.imported + 1 /\ c.errors = r.errors
<1> DEFINE c == [r EXCEPT !.left = @ - 1, !.imported = @ + 1]
<1>1. r.left - 1 \in 0..FileRows /\ r.imported + 1 \in 0..FileRows
  BY ServicesAssumption, CountsRange
<1>2. c \in Counts
  BY <1>1 DEF Counts
<1>3. QED
  BY <1>2 DEF Counts

LEMMA CountsError ==
  ASSUME NEW r \in Counts, r.left > 0, r.errors < FileRows
  PROVE  LET c == [r EXCEPT !.left = @ - 1, !.errors = @ + 1] IN
           /\ c \in Counts /\ c.rows = r.rows /\ c.left = r.left - 1
           /\ c.imported = r.imported /\ c.errors = r.errors + 1
<1> DEFINE c == [r EXCEPT !.left = @ - 1, !.errors = @ + 1]
<1>1. r.left - 1 \in 0..FileRows /\ r.errors + 1 \in 0..FileRows
  BY ServicesAssumption, CountsRange
<1>2. c \in Counts
  BY <1>1 DEF Counts
<1>3. QED
  BY <1>2 DEF Counts

LEMMA CountsBegin ==
  ASSUME NEW r \in Counts, NEW k \in 0..FileRows
  PROVE  LET c == [r EXCEPT !.rows = k, !.left = k] IN
           /\ c \in Counts /\ c.rows = k /\ c.left = k
           /\ c.imported = r.imported /\ c.errors = r.errors
  BY DEF Counts

LEMMA ImportRowStep ==
  ASSUME MachineInv, NEW m \in Imports, Machine!ImportRow(m)
  PROVE  MachineInv'
<1> DEFINE r == import[m]
<1>1. /\ MachineTable!TableInv /\ MachineTable!RowTypes /\ ListInv /\ ImportsInv /\ ImportInv(m)
  BY MachineTable!TableInvParts DEF MachineInv, ImportsInv
<1>2. /\ UNCHANGED MachineTable!slotVars /\ r.left > 0 /\ Machine!Page!Elsewhere
      /\ \/ \E i \in TableIds \ tUsed :
              /\ Machine!InsertsMachine(m, i)
              /\ \E c \in {"imported", "errors"} : Machine!RowDone(m, c)
         \/ Machine!RowDone(m, "errors") /\ UNCHANGED <<tRows, tUsed, inserted>>
  BY DEF Machine!ImportRow, Machine!requestVars, MachineTable!slotVars
<1>3. ListInv'
  BY <1>1, <1>2, TableChanges, PagesAreAlike
<1>4. /\ r \in Counts /\ r.rows \in 0..FileRows /\ r.left \in 0..FileRows
      /\ r.imported \in 0..FileRows /\ r.errors \in 0..FileRows /\ FileRows \in Nat
      /\ r.imported + r.errors + r.left = r.rows
      /\ inserted[m] \subseteq tUsed /\ IsFiniteSet(inserted[m])
      /\ r.imported <= Cardinality(inserted[m])
  BY <1>1, CountsRange, ServicesAssumption DEF ImportInv
<1> DEFINE good == [r EXCEPT !.left = @ - 1, !.imported = @ + 1]
           bad == [r EXCEPT !.left = @ - 1, !.errors = @ + 1]
<1>5. /\ Machine!RowDone(m, "imported") => import' = [import EXCEPT ![m] = good]
      /\ Machine!RowDone(m, "errors") => import' = [import EXCEPT ![m] = bad]
  <2>1. m \in DOMAIN import
    BY <1>1 DEF ImportsInv
  <2>2. QED
    BY <2>1 DEF Machine!RowDone
<1>6. /\ good \in Counts /\ good.imported = r.imported + 1
      /\ good.imported + good.errors + good.left = good.rows
      /\ bad \in Counts /\ bad.imported = r.imported
      /\ bad.imported + bad.errors + bad.left = bad.rows
  <2>1. r.imported < FileRows /\ r.errors < FileRows
    BY <1>2, <1>4
  <2>2. /\ good \in Counts /\ good.rows = r.rows /\ good.left = r.left - 1
        /\ good.imported = r.imported + 1 /\ good.errors = r.errors
        /\ bad \in Counts /\ bad.rows = r.rows /\ bad.left = r.left - 1
        /\ bad.imported = r.imported /\ bad.errors = r.errors + 1
    BY <1>2, <1>4, <2>1, CountsSuccess, CountsError
  <2> HIDE DEF good, bad
  <2>3. QED
    BY <1>4, <2>2
<1> HIDE DEF good, bad
<1>7. ASSUME NEW i \in TableIds \ tUsed, Machine!InsertsMachine(m, i),
             NEW c \in {"imported", "errors"}, Machine!RowDone(m, c)
      PROVE  MachineInv'
  <2>1. /\ tRows' = [tRows EXCEPT ![i] = Machine!NewMachine(Absent)] /\ tUsed' = tUsed \cup {i}
        /\ inserted' = [inserted EXCEPT ![m] = @ \cup {i}]
    BY <1>7 DEF Machine!InsertsMachine
  <2>2. Machine!NewMachine(Absent) \in Machine!MachineRows
    BY DEF Machine!NewMachine, Machine!MachineRows
  <2>3. MachineTable!RowTypes' /\ tUsed \subseteq tUsed'
    BY <1>1, <2>1, <2>2 DEF MachineTable!RowTypes
  <2>4. MachineTable!TableInv'
    BY <1>1, <1>2, <2>3, MachineTable!Behind
  <2> DEFINE w == inserted[m] \cup {i}
  <2>5. w \subseteq tUsed' /\ inserted' = [inserted EXCEPT ![m] = w]
    BY <1>4, <2>1
  <2>6. /\ IsFiniteSet(w) /\ Cardinality(w) = Cardinality(inserted[m]) + 1
        /\ Cardinality(inserted[m]) \in Nat
    <3>1. i \notin inserted[m]
      BY <1>4, <1>7
    <3>2. QED
      BY <1>4, <3>1, FS_AddElement, FS_CardinalityType
  <2> HIDE DEF w
  <2>7. good.imported <= Cardinality(w) /\ bad.imported <= Cardinality(w)
    BY <1>4, <1>6, <2>6
  <2>8. ImportsInv'
    BY <1>1, <1>5, <1>6, <1>7, <2>3, <2>5, <2>6, <2>7, ImportStep
  <2>9. QED
    BY <1>3, <2>4, <2>8 DEF MachineInv
<1>8. CASE Machine!RowDone(m, "errors") /\ UNCHANGED <<tRows, tUsed, inserted>>
  <2>1. MachineTable!RowTypes' /\ tUsed \subseteq tUsed'
    BY <1>1, <1>8 DEF MachineTable!RowTypes
  <2>2. MachineTable!TableInv'
    BY <1>1, <1>2, <2>1, MachineTable!Behind
  <2>3. inserted' = [inserted EXCEPT ![m] = inserted[m]]
    BY <1>1, <1>8 DEF ImportsInv
  <2>4. ImportsInv'
    BY <1>1, <1>4, <1>5, <1>6, <1>8, <2>1, <2>3, ImportStep
  <2>5. QED
    BY <1>3, <2>2, <2>4 DEF MachineInv
<1>9. QED
  BY <1>2, <1>7, <1>8

LEMMA ImportEnds ==
  ASSUME MachineInv, NEW m \in Imports, Machine!ImportBegins(m) \/ Machine!ImportAnswered(m)
  PROVE  MachineInv'
<1>1. /\ UNCHANGED tableVars /\ UNCHANGED listVars
      /\ ImportsInv /\ ImportInv(m) /\ MachineTable!RowTypes /\ MachineTable!TableInv
  BY MachineTable!TableInvParts
  DEF MachineInv, ImportsInv, Machine!ImportBegins, Machine!ImportAnswered, Machine!requestVars,
      Machine!machinePageVars, tableVars, listVars
<1>2. /\ UNCHANGED MachineTable!slotVars /\ tUsed' = tUsed /\ tRows' = tRows
  BY <1>1 DEF tableVars, MachineTable!slotVars
<1>3. MachineTable!TableInv'
  <2>1. MachineTable!RowTypes' /\ tUsed \subseteq tUsed'
    BY <1>1, <1>2 DEF MachineTable!RowTypes
  <2>2. QED
    BY <1>1, <1>2, <2>1, MachineTable!Behind
<1>4. ListInv'
  BY <1>1, <1>2, TableChanges DEF MachineInv
<1>5. CASE Machine!ImportBegins(m)
  <2>1. PICK k \in 1..FileRows : import' = [import EXCEPT ![m].rows = k, ![m].left = k]
    BY <1>5 DEF Machine!ImportBegins
  <2>2. import[m].rows = 0 /\ inserted' = inserted
    BY <1>5 DEF Machine!ImportBegins
  <2> DEFINE c == [import[m] EXCEPT !.rows = k, !.left = k]
  <2>3. import' = [import EXCEPT ![m] = c] /\ inserted' = [inserted EXCEPT ![m] = inserted[m]]
    BY <1>1, <2>1, <2>2 DEF ImportsInv
  <2>4. import[m] \in Counts /\ import[m].imported + import[m].errors = 0
    <3>1. import[m] \in Counts /\ import[m].imported + import[m].errors + import[m].left = 0
      BY <1>1, <2>2 DEF ImportInv
    <3>2. QED
      BY <3>1, CountsRange, ServicesAssumption
  <2>5. c \in Counts /\ c.imported + c.errors + c.left = c.rows /\ c.imported = 0
    <3>1. k \in 0..FileRows
      BY <2>1, ServicesAssumption
    <3>2. /\ c \in Counts /\ c.rows = k /\ c.left = k
          /\ c.imported = import[m].imported /\ c.errors = import[m].errors
          /\ import[m].imported \in 0..FileRows /\ import[m].errors \in 0..FileRows
      BY <2>4, <3>1, CountsBegin, CountsRange
    <3> HIDE DEF c
    <3>3. QED
      BY <2>4, <3>1, <3>2, ServicesAssumption
  <2> HIDE DEF c
  <2>6. /\ inserted[m] \subseteq tUsed' /\ IsFiniteSet(inserted[m])
        /\ c.imported <= Cardinality(inserted[m])
    BY <1>1, <1>2, <2>5, FS_CardinalityType DEF ImportInv
  <2>7. ImportsInv'
    BY <1>1, <1>2, <2>3, <2>5, <2>6, ImportStep
  <2>8. QED
    BY <1>3, <1>4, <2>7 DEF MachineInv
<1>6. CASE Machine!ImportAnswered(m)
  <2>1. import' = [import EXCEPT ![m] = Machine!NoImport] /\ inserted' = [inserted EXCEPT ![m] = {}]
    BY <1>6 DEF Machine!ImportAnswered
  <2>2. IsFiniteSet({}) /\ Cardinality({}) = 0
    BY FS_EmptySet
  <2>3. /\ Machine!NoImport \in Counts
        /\ Machine!NoImport.imported + Machine!NoImport.errors + Machine!NoImport.left = Machine!NoImport.rows
        /\ Machine!NoImport.imported <= Cardinality({})
    BY <2>2, ServicesAssumption DEF Machine!NoImport, Counts
  <2>4. ImportsInv'
    BY <1>1, <1>2, <2>1, <2>2, <2>3, ImportStep
  <2>5. QED
    BY <1>3, <1>4, <2>4 DEF MachineInv
<1>7. QED
  BY <1>5, <1>6

LEMMA MachineRequestStep ==
  ASSUME MachineInv, NEW s \in MachineSlots,
         Machine!MachineRequest(s) \/ Machine!MachineSaveStep(s)
  PROVE  MachineInv'
<1>1. /\ MachineTable!TableInv /\ MachineTable!Sound /\ ListInv /\ ImportsInv
      /\ Machine!Page!Elsewhere /\ UNCHANGED <<import, inserted>>
  BY MachinesAreSound DEF MachineInv, Machine!MachineRequest, Machine!MachineSaveStep, Machine!importVars
<1>2. MachineTable!TableInv' /\ tUsed \subseteq tUsed'
  <2>1. CASE Machine!MachineRequest(s)
    <3>1. PICK j \in Machine!MachineJobs :
            MachineTable!Finds(s, j) \/ MachineTable!Looks(s, j) \/ MachineTable!Deletes(s, j)
      BY <2>1, MachineTableIsTable DEF Machine!MachineRequest
    <3>2. QED
      BY <1>1, <3>1, MachineTable!RequestStep
  <2>2. CASE Machine!MachineSaveStep(s)
    <3>1. MachineTable!Inserts(s) \/ MachineTable!SaveLoads(s) \/ MachineTable!SaveWrites(s)
            \/ MachineTable!Fails(s)
      BY <2>2, MachineTableIsTable DEF Machine!MachineSaveStep
    <3>2. QED
      BY <1>1, <3>1, MachineTable!SaveStep
  <2>3. QED
    BY <2>1, <2>2
<1>3. ListInv'
  BY <1>1, TableChanges, PagesAreAlike
<1>4. QED
  BY <1>1, <1>2, <1>3, ImportsRest DEF MachineInv

LEMMA MachineAnswers ==
  ASSUME MachineInv, NEW s \in MachineSlots, Machine!MachineAnswered(s)
  PROVE  MachineInv'
<1>1. /\ MachineTable!Delivered(s) /\ MachineTable!TableInv /\ ListInv /\ ImportsInv
      /\ Carrier!Page!HearsDeleted(tJob[s].id, tOutcome[s] = "ok") /\ UNCHANGED <<import, inserted>>
  BY MachineTableIsTable, PagesAreAlike DEF Machine!MachineAnswered, Machine!importVars, MachineInv
<1>2. MachineTable!TableInv' /\ UNCHANGED <<tRows, tUsed>>
  BY <1>1, MachineTable!Delivering
<1>3. tJob[s].id \in TableIds
  <2>1. tPc[s] = "answered" /\ MachineTable!SlotInv(s)
    BY <1>1, MachineTable!TableInvParts DEF MachineTable!Delivered
  <2>2. tJob[s] \in Machine!MachineJobs /\ tJob[s].op = "delete"
    BY <2>1 DEF MachineTable!SlotInv, Machine!PageDelete
  <2>3. QED
    BY <2>2, MachineShapes
<1>4. ListInv'
  BY <1>1, <1>2, <1>3, ListChanges
<1>5. QED
  BY <1>1, <1>2, <1>4, ImportsRest DEF MachineInv

LEMMA MachineRests ==
  ASSUME MachineInv, ListInv', UNCHANGED <<tableVars, import, inserted>>
  PROVE  MachineInv'
<1>1. UNCHANGED <<tRows, tUsed, tPc, tJob, tMem, tLoaded, tSaved, tOutcome>>
  BY DEF tableVars
<1>2. MachineTable!TableInv'
  BY <1>1 DEF MachineInv, MachineTable!TableInv, MachineTable!TypeOK, MachineTable!Holding
<1>3. QED
  BY <1>1, <1>2, ImportsRest DEF MachineInv

LEMMA Heartbeats == ASSUME MachineInv, Machine!HeartbeatUpdate PROVE MachineInv'
<1>1. MachineTable!TableInv /\ MachineTable!RowTypes /\ ListInv /\ ImportsInv
  BY MachineTable!TableInvParts DEF MachineInv
<1>2. PICK i \in TableIds : tRows[i] # Absent /\ tRows' = [tRows EXCEPT ![i].beat = TRUE]
  BY DEF Machine!HeartbeatUpdate
<1>3. UNCHANGED MachineTable!slotVars /\ UNCHANGED listVars /\ UNCHANGED <<tUsed, import, inserted>>
  BY DEF Machine!HeartbeatUpdate, Machine!requestVars, Machine!machinePageVars, Machine!importVars,
         MachineTable!slotVars, listVars
<1>4. tRows[i] \in Machine!MachineRows /\ tRows' = [tRows EXCEPT ![i] = [tRows[i] EXCEPT !.beat = TRUE]]
  BY <1>1, <1>2 DEF MachineTable!RowTypes
<1>5. [tRows[i] EXCEPT !.beat = TRUE] \in Machine!MachineRows
  BY <1>4 DEF Machine!MachineRows
<1>6. MachineTable!RowTypes' /\ \A k \in TableIds : tRows[k] = Absent => tRows'[k] = Absent
  BY <1>1, <1>2, <1>3, <1>4, <1>5 DEF MachineTable!RowTypes
<1>7. MachineTable!TableInv'
  BY <1>1, <1>3, <1>6, MachineTable!Behind
<1>8. ListInv'
  BY <1>1, <1>3, <1>6, TableChanges
<1>9. QED
  BY <1>1, <1>3, <1>7, <1>8, ImportsRest DEF MachineInv

LEMMA MachineRestarts == ASSUME MachineInv, Machine!MachineRestart PROVE MachineInv'
<1>1. /\ MachineTable!TableInv /\ ListInv /\ UNCHANGED listVars
      /\ import' = [m \in Imports |-> Machine!NoImport] /\ inserted' = [m \in Imports |-> {}]
      /\ MachineTable!Restarts \/ UNCHANGED tableVars
  BY MachineTableIsTable DEF MachineInv, Machine!MachineRestart, Machine!machinePageVars, listVars,
                             Machine!requestVars, tableVars
<1>2. MachineTable!TableInv' /\ UNCHANGED <<tRows, tUsed>>
  <2>1. CASE MachineTable!Restarts
    BY <1>1, <2>1, MachineTable!Restarting
  <2>2. CASE UNCHANGED tableVars
    <3>1. UNCHANGED <<tRows, tUsed, tPc, tJob, tMem, tLoaded, tSaved, tOutcome>>
      BY <2>2 DEF tableVars
    <3>2. QED
      BY <1>1, <3>1 DEF MachineTable!TableInv, MachineTable!TypeOK, MachineTable!Holding
  <2>3. QED
    BY <1>1, <2>1, <2>2
<1>3. ListInv'
  BY <1>1, <1>2, TableChanges
<1>4. ImportsInv'
  BY <1>1, NothingImported
<1>5. QED
  BY <1>2, <1>3, <1>4 DEF MachineInv

LEMMA MachineInitInv == ASSUME Machine!MachineInit PROVE MachineInv
<1>1. /\ Machine!Table!Init /\ Machine!Page!ListInit
      /\ import = [m \in Imports |-> Machine!NoImport] /\ inserted = [m \in Imports |-> {}]
  BY DEF Machine!MachineInit
<1>2. MachineTable!Init
  BY <1>1, MachineTableIsTable
<1>3. MachineTable!TableInv
  BY <1>2, MachinesAreSound, MachineTable!Starting
<1>4. ListInv
  BY <1>1, PagesAreAlike, ListStarts
<1>5. ImportsInv
  <2>1. IsFiniteSet({}) /\ Cardinality({}) = 0
    BY FS_EmptySet
  <2>2. ASSUME NEW m \in Imports PROVE ImportInv(m)
    <3>1. import[m] = Machine!NoImport /\ inserted[m] = {}
      BY <1>1
    <3>2. QED
      BY <2>1, <3>1, ServicesAssumption DEF ImportInv, Machine!NoImport, Counts
  <2>3. QED
    BY <1>1, <2>2 DEF ImportsInv
<1>6. QED
  BY <1>3, <1>4, <1>5 DEF MachineInv

LEMMA MachineStepInv == MachineInv /\ Machine!MachineNext => MachineInv'
<1>1. SUFFICES ASSUME MachineInv, Machine!MachineNext PROVE MachineInv'
  OBVIOUS
<1>2. CASE Machine!MachinePageStep
  <2>1. /\ UNCHANGED <<tableVars, import, inserted>>
        /\ Carrier!Page!Asks \/ Carrier!Page!ListRead \/ Carrier!Page!ListLands
    BY <1>2, PagesAreAlike DEF Machine!MachinePageStep, Machine!requestVars, Machine!importVars, tableVars
  <2>2. UNCHANGED tRows
    BY <2>1 DEF tableVars
  <2>3. ListInv'
    BY <1>1, <2>1, <2>2, ListChanges DEF MachineInv
  <2>4. QED
    BY <1>1, <2>1, <2>3, MachineRests
<1>3. QED
  BY <1>1, <1>2, Heartbeats, MachineRestarts, MachineRequestStep, MachineAnswers, ImportEnds, ImportRowStep
  DEF Machine!MachineNext

----------------------------------------------------------------------------
(* The services together. *)

ServicesInv ==
  /\ StationInv /\ EditorTypes /\ UserInv /\ AlarmInv
  /\ part = "carriers" => CarrierInv
  /\ part = "shifts" => ShiftInv
  /\ part = "machines" => MachineInv

LEMMA ServicesInitInv == Init => ServicesInv
<1>1. SUFFICES ASSUME Init PROVE ServicesInv
  OBVIOUS
<1>2. EditorInit /\ UserInit /\ AlarmInit
  BY <1>1 DEF Init
<1>3. StationInv /\ EditorTypes /\ UserInv /\ AlarmInv
  BY <1>2, EditorInitInv, UserInitInv, AlarmInitInv
<1>4. /\ part = "carriers" => Carrier!CarrierInit
      /\ part = "shifts" => Shift!ShiftInit
      /\ part = "machines" => Machine!MachineInit
  BY <1>1 DEF Init
<1>5. QED
  BY <1>3, <1>4, CarrierInitInv, ShiftInitInv, MachineInitInv DEF ServicesInv

\* Stations, accounts and alarms take their own steps or none.
LEMMA ServiceSteps ==
  ASSUME [Next]_vars
  PROVE  /\ [EditorNext]_<<stationVars, editorVars>> /\ [UserNext]_userVars /\ [AlarmNext]_alarmVars
         /\ part' = part
  BY DEF Next, vars, OnlyStations, OnlyUsers, OnlyAlarms, OnlyTable

LEMMA TableSteps ==
  ASSUME [Next]_vars
  PROVE  /\ part = "carriers" => Carrier!CarrierNext \/ UNCHANGED <<allTableVars>>
         /\ part = "shifts" => Shift!ShiftNext \/ UNCHANGED <<allTableVars>>
         /\ part = "machines" => Machine!MachineNext \/ UNCHANGED <<allTableVars>>
  BY DEF Next, vars

LEMMA ServicesStepInv == ServicesInv /\ [Next]_vars => ServicesInv'
<1>1. SUFFICES ASSUME ServicesInv, [Next]_vars PROVE ServicesInv'
  OBVIOUS
<1>2. (StationInv /\ EditorTypes /\ UserInv /\ AlarmInv)'
  BY <1>1, ServiceSteps, EditorStepInv, UserStepInv, AlarmStepInv DEF ServicesInv
<1>3. part' = part
  BY <1>1, ServiceSteps
<1>4. CASE UNCHANGED allTableVars
  <2>1. UNCHANGED <<tableVars, listVars, excused, marked, raced, import, inserted>>
    BY <1>4 DEF allTableVars
  <2>2. ListInv => ListInv'
    <3>1. UNCHANGED tRows
      BY <2>1 DEF tableVars
    <3>2. QED
      BY <2>1, <3>1, TableChanges
  <2>3. CarrierInv => CarrierInv'
    BY <2>1, <2>2, CarrierRests DEF CarrierInv
  <2>4. ShiftInv => ShiftInv'
    BY <2>1, ShiftRests
  <2>5. MachineInv => MachineInv'
    BY <2>1, <2>2, MachineRests DEF MachineInv
  <2>6. QED
    BY <1>1, <1>2, <1>3, <2>3, <2>4, <2>5 DEF ServicesInv
<1>5. /\ part = "carriers" => Carrier!CarrierNext \/ UNCHANGED allTableVars
      /\ part = "shifts" => Shift!ShiftNext \/ UNCHANGED allTableVars
      /\ part = "machines" => Machine!MachineNext \/ UNCHANGED allTableVars
  BY <1>1, TableSteps
<1>6. CASE ~UNCHANGED allTableVars
  <2>1. part = "carriers" => CarrierInv'
    BY <1>1, <1>5, <1>6, CarrierStepInv DEF ServicesInv
  <2>2. part = "shifts" => ShiftInv'
    BY <1>1, <1>5, <1>6, ShiftStepInv DEF ServicesInv
  <2>3. part = "machines" => MachineInv'
    BY <1>1, <1>5, <1>6, MachineStepInv DEF ServicesInv
  <2>4. QED
    BY <1>2, <1>3, <2>1, <2>2, <2>3 DEF ServicesInv
<1>7. QED
  BY <1>4, <1>6

LEMMA ServicesAlways == Spec => []ServicesInv
  BY ServicesInitInv, ServicesStepInv, PTL DEF Spec

LEMMA ServicesTyped == ServicesInv => ServicesTypeOK
<1>1. SUFFICES ASSUME ServicesInv PROVE ServicesTypeOK
  OBVIOUS
<1>2. EditorTypeOK /\ UserTypeOK /\ AlarmTypeOK
  BY <1>1, EditorTyped DEF ServicesInv, UserInv, AlarmInv
<1>3. part = "carriers" => Carrier!CarrierTypeOK
  BY <1>1, CarrierTableIsTable
  DEF ServicesInv, CarrierInv, CarrierTable!TableInv, ListInv, Carrier!CarrierTypeOK
<1>4. part = "shifts" => Shift!ShiftTypeOK
  BY <1>1, ShiftTableIsTable DEF ServicesInv, ShiftInv, ShiftTable!TableInv, Shift!ShiftTypeOK
<1>5. part = "machines" => Machine!MachineTypeOK
  <2>1. SUFFICES ASSUME MachineInv PROVE Machine!MachineTypeOK
    BY <1>1 DEF ServicesInv
  <2>2. Machine!Table!TypeOK /\ Machine!Page!ListTypeOK /\ ImportsInv
    BY <2>1, MachineTableIsTable, PagesAreAlike DEF MachineInv, MachineTable!TableInv, ListInv
  <2>3. import \in [Imports -> Counts] /\ inserted \in [Imports -> SUBSET tUsed]
    BY <2>2 DEF ImportsInv, ImportInv
  <2>4. QED
    BY <2>2, <2>3 DEF Machine!MachineTypeOK, Counts
<1>6. QED
  BY <1>2, <1>3, <1>4, <1>5 DEF ServicesTypeOK

\* Every variable of the backend's services keeps its type, for any number of
\* rows, requests, imports and pages: in particular, an entity that an update waits
\* to write is one the table may hold, or the handshake's flags.
THEOREM ServicesTypeCorrect == Spec => []ServicesTypeOK
  BY ServicesAlways, ServicesTyped, PTL

\* The check of create (carrier.service.ts, shift.service.ts) keeps names of carriers
\* and open shifts of a type apart but for the races it leaves open: two creates
\* between check and insert, and a save that gives a carrier the name.
THEOREM ChecksOfCreateHold == Spec => []OnlyRacesDuplicate
<1>1. ServicesInv => OnlyRacesDuplicate
  BY DEF ServicesInv, CarrierInv, ShiftInv, OnlyRacesDuplicate
<1>2. QED
  BY <1>1, ServicesAlways, PTL

\* A carrier marked faulty while no request held it stays so through every PATCH and
\* every handshake that starts later (carrier.service.ts, sps-dispatcher.service.ts).
THEOREM FaultMarksSurvive == Spec => []MarkSurvives
<1>1. ServicesInv => MarkSurvives
  BY DEF ServicesInv, CarrierInv, MarksAreKnown, MarkSurvives, Carrier!MarkSurvives
<1>2. QED
  BY <1>1, ServicesAlways, PTL

\* The cardinality Machines speaks of is that of FiniteSets.
LEMMA SameCardinality == \A S : Machine!Cardinality(S) = Cardinality(S)
  BY DEF Machine!Cardinality, Cardinality

\* importCsv counts every row once and never answers more machines than it inserted,
\* however large the file and whatever fails between its rows.
THEOREM ImportsAccount == Spec => []ImportAccounts
<1>1. ASSUME ImportsInv PROVE Machine!ImportAccounts
  <2>1. SUFFICES ASSUME NEW m \in Imports
                 PROVE  /\ import[m].imported + import[m].errors + import[m].left = import[m].rows
                        /\ import[m].imported <= Cardinality(inserted[m])
    BY SameCardinality DEF Machine!ImportAccounts
  <2>2. ImportInv(m)
    BY <1>1 DEF ImportsInv
  <2>3. QED
    BY <2>2 DEF ImportInv
<1>2. ServicesInv => ImportAccounts
  BY <1>1 DEF ServicesInv, MachineInv, ImportAccounts
<1>3. QED
  BY <1>2, ServicesAlways, PTL

\* The pages Alarms.tsx and Dashboard.tsx list no acknowledgement that was not given,
\* and Machines.tsx and Carriers.tsx no row they know to be deleted, except one that a
\* list brings back which was read before the deletion and landed after its answer.
THEOREM PagesAreTrue == Spec => []PagesShowWhatHappened
<1>1. ServicesInv => PagesShowWhatHappened
  BY DEF ServicesInv, AlarmInv, PagesKnow, ShownAckHappened, CarrierInv, MachineInv, ListInv, ListAgrees,
         PagesShowWhatHappened, Machine!OnlyOvertakenReturn, Machine!Page!OnlyOvertakenReturn,
         Carrier!OnlyOvertakenReturn, Carrier!Page!OnlyOvertakenReturn
<1>2. QED
  BY <1>1, ServicesAlways, PTL

\* Composed, the stations with their editors, the accounts and the alarms behave as
\* they do alone: what is proved of each of them holds of the whole.
THEOREM ServicesImplementEach == Spec => EditorSpec /\ UserSpec /\ AlarmSpec
<1>1. Init => EditorInit /\ UserInit /\ AlarmInit
  BY DEF Init
<1>2. [Next]_vars => [EditorNext]_<<stationVars, editorVars>> /\ [UserNext]_userVars /\ [AlarmNext]_alarmVars
  BY ServiceSteps
<1>3. QED
  BY <1>1, <1>2, PTL DEF Spec, EditorSpec, UserSpec, AlarmSpec
=============================================================================
