------------------------------ MODULE Services ------------------------------
(***************************************************************************)
(* The services of the backend that share no state, each with its pages:   *)
(* a behaviour is one of one service, which part names, and what the       *)
(* others have stays as it begins.  Carriers, shifts and machines have a   *)
(* table each; its variables are those of the service at work.             *)
(***************************************************************************)
EXTENDS StationEditor, Users, Alarms

CONSTANTS
  TableIds,      \* the uuids of carriers, shifts and machines
  CarrierNames,
  ShiftTypes,
  MachineSlots,  \* bound: requests for machines at a time
  Imports,       \* bound: imports under way
  FileRows       \* bound: rows of an imported file

VARIABLES
  part,
  tRows, tUsed, tPc, tJob, tMem, tLoaded, tSaved, tOutcome,
  listed, fetching, told, overtaken, excused, marked, raced, import, inserted

tableVars == <<tRows, tUsed, tPc, tJob, tMem, tLoaded, tSaved, tOutcome>>
listVars == <<listed, fetching, told, overtaken>>
carrierOwn == <<listVars, excused, marked>>
machineOwn == <<listVars, import, inserted>>
allTableVars == <<tableVars, listVars, excused, marked, raced, import, inserted>>
vars == <<part, stationVars, editorVars, userVars, alarmVars, allTableVars>>

Carrier == INSTANCE Carriers WITH CarrierIds <- TableIds, Names <- CarrierNames,
  rows <- tRows, used <- tUsed, pc <- tPc, job <- tJob, mem <- tMem, loaded <- tLoaded,
  saved <- tSaved, outcome <- tOutcome
Shift == INSTANCE Shifts WITH ShiftIds <- TableIds,
  rows <- tRows, used <- tUsed, pc <- tPc, job <- tJob, mem <- tMem, loaded <- tLoaded,
  saved <- tSaved, outcome <- tOutcome
Machine == INSTANCE Machines WITH MachineIds <- TableIds, Slots <- MachineSlots,
  rows <- tRows, used <- tUsed, pc <- tPc, job <- tJob, mem <- tMem, loaded <- tLoaded,
  saved <- tSaved, outcome <- tOutcome

ASSUME ServicesAssumption ==
  /\ FileRows \in Nat
  /\ Absent \notin Carrier!CarrierRows \cup Shift!ShiftRows \cup Machine!MachineRows

NoTable ==
  /\ tRows = Absent /\ tUsed = Absent /\ tPc = Absent /\ tJob = Absent
  /\ tMem = Absent /\ tLoaded = Absent /\ tSaved = Absent /\ tOutcome = Absent
NoList == listed = Absent /\ fetching = Absent /\ told = Absent /\ overtaken = Absent
NoCarriers == excused = Absent /\ marked = Absent
NoShifts == raced = Absent
NoMachines == import = Absent /\ inserted = Absent

Init ==
  /\ EditorInit /\ UserInit /\ AlarmInit
  /\ \/ /\ part \in {"stations", "users", "alarms"}
        /\ NoTable /\ NoList /\ NoCarriers /\ NoShifts /\ NoMachines
     \/ part = "carriers" /\ Carrier!CarrierInit /\ NoShifts /\ NoMachines
     \/ part = "shifts" /\ Shift!ShiftInit /\ NoList /\ NoCarriers /\ NoMachines
     \/ part = "machines" /\ Machine!MachineInit /\ NoCarriers /\ NoShifts
  /\ part # "stations" => deployed = None /\ file = None
  /\ part # "alarms" => page = "alarms"

\* Every part but the one named stays as it is.
OnlyStations == UNCHANGED <<part, userVars, alarmVars, allTableVars>>
OnlyUsers == UNCHANGED <<part, stationVars, editorVars, alarmVars, allTableVars>>
OnlyAlarms == UNCHANGED <<part, stationVars, editorVars, userVars, allTableVars>>
OnlyTable == UNCHANGED <<part, stationVars, editorVars, userVars, alarmVars>>

Next ==
  \/ part = "stations" /\ EditorNext /\ OnlyStations
  \/ part = "users" /\ UserNext /\ OnlyUsers
  \/ part = "alarms" /\ AlarmNext /\ OnlyAlarms
  \/ part = "carriers" /\ Carrier!CarrierNext /\ OnlyTable /\ UNCHANGED <<raced, import, inserted>>
  \/ part = "shifts" /\ Shift!ShiftNext /\ OnlyTable /\ UNCHANGED <<carrierOwn, machineOwn>>
  \/ part = "machines" /\ Machine!MachineNext /\ OnlyTable /\ UNCHANGED <<excused, marked, raced>>

Spec == Init /\ [][Next]_vars

-----------------------------------------------------------------------------
\* The variables of every service have their types.
ServicesTypeOK ==
  /\ EditorTypeOK /\ UserTypeOK /\ AlarmTypeOK
  /\ part = "carriers" => Carrier!CarrierTypeOK
  /\ part = "shifts" => Shift!ShiftTypeOK
  /\ part = "machines" => Machine!MachineTypeOK

\* Carriers of one name and open shifts of one type appear only by the races that
\* the checks of create leave open (see Carriers and Shifts).
OnlyRacesDuplicate ==
  /\ part = "carriers" => Carrier!NamesRepeatOnlyByRace
  /\ part = "shifts" => Shift!OpenTwiceOnlyByRace

\* Carriers: fault marks survive the saves of handshakes and PATCHes (see Carriers).
MarkSurvives == part = "carriers" => Carrier!MarkSurvives

\* Machines: what an import answers (see Machines).
ImportAccounts == part = "machines" => Machine!ImportAccounts

\* The pages show an acknowledgement only if it was given (see Alarms), and a row they
\* know to be deleted only by a list that its deletion has overtaken (see ListPage).
PagesShowWhatHappened ==
  /\ ShownAckHappened
  /\ part = "machines" => Machine!OnlyOvertakenReturn
  /\ part = "carriers" => Carrier!OnlyOvertakenReturn
=============================================================================
