------------------------------ MODULE Stations ------------------------------
(***************************************************************************)
(* The OPC UA sessions of the backend: the stored list of connections, and *)
(* initStations and connectStation run at start-up and by every reload.    *)
(* A run connects its stations one after the other and awaits in between,  *)
(* and nothing keeps two reloads apart: the second closes what the first   *)
(* has registered so far, and both go on.  SpsDispatcher has the events    *)
(* and writes of one session; here they are left out.                      *)
(***************************************************************************)
EXTENDS Naturals

CONSTANTS
  StationIds,
  Sessions,    \* bound: OPCUAClient objects, each with at most one session
  Reloads,     \* clients that reload the stations, each one reload at a time
  Boot,        \* the run of onModuleInit
  StoredLists, \* what opcuastations.json may hold when the system is installed
  DeployEnvs,  \* what OPC_UA_STATIONS may be in the environment of the process, or None
  Legacy,      \* the connection of OPCUA_ENDPOINT_URL, if that is set
  None

\* Of a configured connection: its id, and whether it has a nodePrefix.
Connections == [id : StationIds, prefixed : BOOLEAN]
UniqueLists == {l \in SUBSET Connections : \A c, d \in l : c.id = d.id => c = d}

\* An entry of the map: a client, or None when it failed, and the node ids built for it.
Nodes == {"none", "prefix", "block"}
Entries == [client : Sessions \cup {None}, nodes : Nodes]

ASSUME StationsAssumption ==
  /\ StationIds \subseteq Nat
  /\ None \notin Sessions \cup Connections \cup Entries /\ \A l \in UniqueLists : l # None
  /\ Boot \notin Reloads
  /\ StoredLists \subseteq UniqueLists /\ DeployEnvs \subseteq UniqueLists \cup {None}
  /\ Legacy \in UniqueLists

VARIABLES
  deployed,    \* OPC_UA_STATIONS in the environment the process starts with
  file,        \* opcuastations.json
  env,         \* process.env.OPC_UA_STATIONS
  stations,    \* the map: no entry, or a client (None: failed) and its node ids
  run,         \* the runs of initStations
  link,        \* link[k]: what the PLC has of client object k
  lastSaved,   \* history: the list saved last since the process started
  applied,     \* history: the connections the last run should make
  unreached,   \* history: those of them before which that run was broken off
  overlapped,  \* history: since the start, a reload began while another ran
  leftover     \* history: clients of attempts that failed after the dialling

configVars == <<deployed, file, env>>
sessionVars == <<stations, run, link>>
pastVars == <<lastSaved, applied, unreached, overlapped, leftover>>
stationVars == <<configVars, sessionVars, pastVars>>

Runs == Reloads \cup {Boot}
Idle == [todo |-> {}, at |-> None, client |-> None]
Running(r) == run[r] # Idle
Failed == [client |-> None, nodes |-> "none"]
Connected(s) == stations[s] # None /\ stations[s] # Failed

\* initStations: the configured stations, or the legacy endpoint when there is none.
Wanted(e) == IF e = None \/ e = {} THEN Legacy ELSE e
Started(e) == [Idle EXCEPT !.todo = Wanted(e)]

\* loadStationsConfig: the environment first, then the file.
Loaded == IF env # None THEN env ELSE IF file # None THEN file ELSE {}

StationInit ==
  /\ deployed \in DeployEnvs /\ file \in StoredLists \cup {None} /\ env = deployed
  /\ stations = [s \in StationIds |-> None]
  /\ run = [r \in Runs |-> IF r = Boot THEN Started(deployed) ELSE Idle]
  /\ link = [k \in Sessions |-> "none"]
  /\ lastSaved = None /\ applied = Wanted(deployed) /\ unreached = {}
  /\ overlapped = FALSE /\ leftover = {}

-----------------------------------------------------------------------------
(* The routes; they are open once onModuleInit has returned. *)

Serving == ~Running(Boot)

\* A bug: the file is written and the environment left alone.
SavesConfig_FileOnly(c) ==
  /\ Serving
  /\ file' = c /\ lastSaved' = c
  /\ UNCHANGED <<deployed, env, sessionVars, applied, unreached, overlapped, leftover>>
\* updateOpcUaConfig, by PUT or PATCH.
SavesConfig(c) ==
  /\ Serving
  /\ file' = c /\ env' = c /\ lastSaved' = c
  /\ UNCHANGED <<deployed, sessionVars, applied, unreached, overlapped, leftover>>

\* getOpcUaConfig; reading the file stores it in the environment.
ReadsConfig ==
  /\ Serving
  /\ env' = IF env = None /\ file # None THEN file ELSE env
  /\ UNCHANGED <<deployed, file, sessionVars, pastVars>>

\* What a reload owes: what was saved last in this process, or else what it found.
Owed == Wanted(IF lastSaved # None THEN lastSaved ELSE Loaded)

\* A bug: the sessions are closed and the map keeps their entries.
ReloadBegins_KeepsMap(r) ==
  /\ Serving /\ ~Running(r)
  /\ env' = Loaded
  /\ link' = [k \in Sessions |->
                IF \E s \in StationIds : stations[s] # None /\ stations[s].client = k
                THEN "none" ELSE link[k]]
  /\ run' = [run EXCEPT ![r] = Started(Loaded)]
  /\ applied' = Owed /\ unreached' = {}
  /\ overlapped' = (overlapped \/ \E q \in Runs : Running(q))
  /\ UNCHANGED <<deployed, file, stations, lastSaved, leftover>>
\* reloadOpcUaConfig and reloadStations up to the first await.  The closes are
\* not awaited; that they succeed is assumed.
ReloadBegins(r) ==
  /\ Serving /\ ~Running(r)
  /\ env' = Loaded
  /\ link' = [k \in Sessions |->
                IF \E s \in StationIds : stations[s] # None /\ stations[s].client = k
                THEN "none" ELSE link[k]]
  /\ stations' = [s \in StationIds |-> None]
  /\ run' = [run EXCEPT ![r] = Started(Loaded)]
  /\ applied' = Owed /\ unreached' = {}
  /\ overlapped' = (overlapped \/ \E q \in Runs : Running(q))
  /\ UNCHANGED <<deployed, file, lastSaved, leftover>>

-----------------------------------------------------------------------------
(* connectStation *)

\* Run r is done with connection c, whose entry becomes e.
Settles(r, c, e) ==
  /\ stations' = [stations EXCEPT ![c.id] = e]
  /\ run' = [run EXCEPT ![r] = [Idle EXCEPT !.todo = run[r].todo \ {c}]]

\* The endpoint is found and the client connected ...
Dials(r) ==
  /\ run[r].at = None
  /\ \E c \in run[r].todo : \E k \in Sessions :
       /\ link[k] = "none" /\ \A q \in Runs : run[q].client # k
       /\ run' = [run EXCEPT ![r].at = c, ![r].client = k]
       /\ link' = [link EXCEPT ![k] = "client"]
  /\ UNCHANGED <<configVars, stations, pastVars>>

\* ... or not: the failed station is stored and nobody tries it again.
DialFails(r) ==
  /\ run[r].at = None
  /\ \E c \in run[r].todo : Settles(r, c, Failed)
  /\ UNCHANGED <<configVars, link, pastVars>>

\* Building the client object throws, which connectStation does not catch: the run
\* ends, start-up goes on and a reload is answered with the error.
RunBreaksOff(r) ==
  /\ run[r].at = None /\ run[r].todo # {}
  /\ run' = [run EXCEPT ![r] = Idle]
  /\ unreached' = IF overlapped THEN {} ELSE run[r].todo
  /\ UNCHANGED <<configVars, stations, link, lastSaved, applied, overlapped, leftover>>

OpensSession(r) ==
  /\ run[r].at # None /\ link[run[r].client] = "client"
  /\ link' = [link EXCEPT ![run[r].client] = "session"]
  /\ UNCHANGED <<configVars, stations, run, pastVars>>

\* discoverSiemensNodes: reads of candidate nodes and browses, over several awaits.
\* Every call may fail, and is caught; whatever was found, discovery goes on to
\* buildNodeIds.
Discovers(r) ==
  /\ run[r].at # None /\ link[run[r].client] = "session"
  /\ link' = [link EXCEPT ![run[r].client] = "browsed"]
  /\ UNCHANGED <<configVars, stations, run, pastVars>>

\* buildNodeIds: of its candidates the first is taken, the prefix with the name of
\* the field, or else the name of the block with it; no member and no alias decides.
NodeIds(c) == IF c.prefixed THEN "prefix" ELSE "block"

\* The subscription is set up and the entry stored.
Registers(r) ==
  /\ run[r].at # None /\ link[run[r].client] = "browsed"
  /\ Settles(r, run[r].at, [client |-> run[r].client, nodes |-> NodeIds(run[r].at)])
  /\ UNCHANGED <<configVars, link, pastVars>>

\* The session or the subscription fails: the station is stored as failed,
\* without the client, which stays connected with what it has.
AttemptFails(r) ==
  /\ run[r].at # None /\ link[run[r].client] \in {"client", "browsed"}
  /\ Settles(r, run[r].at, Failed)
  /\ leftover' = leftover \cup {run[r].client}
  /\ UNCHANGED <<configVars, link, lastSaved, applied, unreached, overlapped>>

ConnectStep(r) ==
  \/ Dials(r) \/ DialFails(r) \/ RunBreaksOff(r)
  \/ OpensSession(r) \/ Discovers(r) \/ Registers(r) \/ AttemptFails(r)

\* The process restarts: its connections drop, the environment is the deployed
\* one, and the saved file is not read.
StationsRestart ==
  /\ env' = deployed
  /\ stations' = [s \in StationIds |-> None]
  /\ run' = [r \in Runs |-> IF r = Boot THEN Started(deployed) ELSE Idle]
  /\ link' = [k \in Sessions |-> "none"]
  /\ lastSaved' = None /\ applied' = Wanted(deployed) /\ unreached' = {}
  /\ overlapped' = FALSE /\ leftover' = {}
  /\ UNCHANGED <<deployed, file>>

StationsNext ==
  \/ ReadsConfig \/ StationsRestart
  \/ \E c \in UniqueLists : SavesConfig(c)
  \/ \E r \in Reloads : ReloadBegins(r)
  \/ \E r \in Runs : ConnectStep(r)

StationsSpec == StationInit /\ [][StationsNext]_stationVars

-----------------------------------------------------------------------------
StationsTypeOK ==
  /\ deployed \in UniqueLists \cup {None} /\ file \in UniqueLists \cup {None}
  /\ env \in UniqueLists \cup {None}
  /\ stations \in [StationIds -> Entries \cup {None}]
  /\ run \in [Runs -> [todo : UniqueLists, at : Connections \cup {None},
                       client : Sessions \cup {None}]]
  /\ link \in [Sessions -> {"none", "client", "session", "browsed"}]
  /\ lastSaved \in UniqueLists \cup {None}
  /\ applied \in UniqueLists /\ unreached \in UniqueLists
  /\ overlapped \in BOOLEAN /\ leftover \subseteq Sessions

\* No client stays connected that nobody knows of, unless its own attempt failed
\* or reloads overlapped: a reload that runs alone closes all its predecessors'.
OnlyOverlapLeaks ==
  overlapped \/ \A k \in Sessions : link[k] # "none" =>
    \/ k \in leftover
    \/ \E s \in StationIds : stations[s] # None /\ stations[s].client = k
    \/ \E r \in Runs : run[r].client = k

\* When the runs are over, the map has the connections saved last before the last
\* one began, each failed or with the node ids of its configuration, whatever was
\* saved, read and found in between, unless reloads overlapped.  Of a run that was
\* broken off it has those that were tried before.
ReloadTakesEffect ==
  \/ overlapped \/ \E r \in Runs : Running(r)
  \/ /\ {s \in StationIds : stations[s] # None} = {c.id : c \in applied \ unreached}
     /\ \A c \in applied \ unreached :
          stations[c.id] = Failed \/ stations[c.id].nodes = IF c.prefixed THEN "prefix" ELSE "block"

\* Even when reloads overlap, an entry that says connected has its open session
\* to itself: no reload closes the session of an entry that remains.
EntriesAreOpen ==
  \A s \in StationIds : Connected(s) =>
    /\ link[stations[s].client] = "browsed"
    /\ \A t \in StationIds \ {s} : stations[t] # None => stations[t].client # stations[s].client
    /\ \A r \in Runs : run[r].client # stations[s].client
=============================================================================
