--------------------------- MODULE StationsProofs ---------------------------
(***************************************************************************)
(* Proofs about Stations, and about StationEditor, which implements it, for *)
(* any number of stations, pages and overlapping reloads.                  *)
(***************************************************************************)
EXTENDS StationEditor, TLAPS

\* An entry is failed, or has a client and the node ids of its configuration.
EntryShapes ==
  \A s \in StationIds : stations[s] \notin {None, Failed} =>
    stations[s].client \in Sessions /\ stations[s].nodes \in {"prefix", "block"}

\* A run that is at a connection has a client of its own, which no reload closes.
RunsAreSound ==
  \A r \in Runs :
    /\ run[r].at = None => run[r].client = None
    /\ run[r].at # None => /\ run[r].at \in run[r].todo /\ run[r].client \in Sessions
                           /\ link[run[r].client] # "none"
    /\ \A q \in Runs \ {r} : run[r].client # None => run[q].client # run[r].client

\* What was saved last in this process is what the next reload reads.
SavedIsRead == lastSaved # None => env = lastSaved

\* What a connection owes its entry.
Keeps(c, e) == e = Failed \/ e.nodes = IF c.prefixed THEN "prefix" ELSE "block"

\* Without overlap one run works through the list that is to be applied, to its end
\* or to the connection where it is broken off.
OneByOne ==
  /\ \A r, q \in Runs : Running(r) /\ Running(q) => r = q
  /\ \A r \in Runs : \A c \in run[r].todo : c \in applied /\ stations[c.id] = None
  /\ (\E r \in Runs : Running(r)) => unreached = {}
  /\ \A c \in applied \ unreached : (\A r \in Runs : c \notin run[r].todo) =>
       stations[c.id] # None /\ Keeps(c, stations[c.id])
  /\ \A s \in StationIds : stations[s] # None => \E c \in applied \ unreached : c.id = s

StationInv ==
  /\ StationsTypeOK /\ EntryShapes /\ RunsAreSound /\ SavedIsRead
  /\ EntriesAreOpen /\ OnlyOverlapLeaks /\ (overlapped \/ OneByOne)

----------------------------------------------------------------------------
LEMMA StationLists ==
  /\ {} \in UniqueLists
  /\ \A l \in UniqueLists : l \subseteq Connections /\ \A c, d \in l : c.id = d.id => c = d
  /\ \A l \in UniqueLists : \A c : l \ {c} \in UniqueLists
  /\ \A c \in Connections : c.id \in StationIds /\ c.prefixed \in BOOLEAN
  BY DEF UniqueLists, Connections

LEMMA Shapes ==
  /\ Failed \in Entries /\ Failed # None /\ Failed.client = None
  /\ Idle.todo = {} /\ Idle.at = None /\ Idle.client = None
  BY StationsAssumption DEF Failed, Entries, Nodes, Idle

RunTypes == [todo : UniqueLists, at : Connections \cup {None}, client : Sessions \cup {None}]

LEMMA Starting ==
  ASSUME NEW e \in UniqueLists \cup {None}
  PROVE  /\ Wanted(e) \in UniqueLists /\ Started(e) \in RunTypes
         /\ Started(e).todo = Wanted(e) /\ Started(e).at = None /\ Started(e).client = None
<1>1. Wanted(e) \in UniqueLists
  BY StationsAssumption DEF Wanted
<1>2. Started(e) = [todo |-> Wanted(e), at |-> None, client |-> None]
  BY DEF Started, Idle
<1>3. QED
  BY <1>1, <1>2 DEF RunTypes

LEMMA StationTypes ==
  ASSUME StationInv
  PROVE  /\ deployed \in UniqueLists \cup {None} /\ file \in UniqueLists \cup {None}
         /\ env \in UniqueLists \cup {None} /\ Loaded \in UniqueLists
         /\ stations \in [StationIds -> Entries \cup {None}]
         /\ run \in [Runs -> RunTypes]
         /\ link \in [Sessions -> {"none", "client", "session", "browsed"}]
         /\ lastSaved \in UniqueLists \cup {None}
         /\ applied \in UniqueLists /\ unreached \in UniqueLists
         /\ overlapped \in BOOLEAN /\ leftover \subseteq Sessions
  BY StationLists DEF StationInv, StationsTypeOK, RunTypes, Loaded

\* The routes that only touch the configuration.
LEMMA ConfigStep ==
  ASSUME StationInv, UNCHANGED <<sessionVars, applied, unreached, overlapped, leftover>>,
         deployed' \in UniqueLists \cup {None}, file' \in UniqueLists \cup {None},
         env' \in UniqueLists \cup {None}, lastSaved' \in UniqueLists \cup {None}, SavedIsRead'
  PROVE  StationInv'
<1>1. StationsTypeOK' /\ EntryShapes' /\ RunsAreSound'
  BY DEF StationInv, StationsTypeOK, EntryShapes, RunsAreSound, sessionVars
<1>2. EntriesAreOpen' /\ OnlyOverlapLeaks'
  BY DEF StationInv, EntriesAreOpen, OnlyOverlapLeaks, Connected, sessionVars
<1>3. (overlapped \/ OneByOne)'
  BY DEF StationInv, OneByOne, Running, Keeps, sessionVars
<1>4. QED
  BY <1>1, <1>2, <1>3 DEF StationInv

LEMMA Beginning ==
  ASSUME StationInv, NEW r \in Reloads, ReloadBegins(r)
  PROVE  StationInv'
<1>1. /\ run[r] = Idle /\ env' = Loaded /\ stations' = [s \in StationIds |-> None]
      /\ link' = [k \in Sessions |->
                    IF \E s \in StationIds : stations[s] # None /\ stations[s].client = k
                    THEN "none" ELSE link[k]]
      /\ run' = [run EXCEPT ![r] = Started(Loaded)]
      /\ applied' = Owed /\ unreached' = {}
      /\ overlapped' = (overlapped \/ \E q \in Runs : Running(q))
      /\ UNCHANGED <<deployed, file, lastSaved, leftover>> /\ r \in Runs
  BY DEF ReloadBegins, Running, Runs
<1>2. Owed = Wanted(Loaded) /\ SavedIsRead'
  BY <1>1 DEF StationInv, SavedIsRead, Owed, Loaded
<1>3. /\ Wanted(Loaded) \in UniqueLists /\ Started(Loaded) \in RunTypes
      /\ Started(Loaded).todo = Wanted(Loaded) /\ Started(Loaded).at = None
      /\ Started(Loaded).client = None
  BY StationTypes, Starting
<1>4. overlapped' \in BOOLEAN
  BY <1>1, StationTypes
<1>5. StationsTypeOK'
  BY <1>1, <1>2, <1>3, <1>4, StationTypes, StationLists DEF StationsTypeOK, RunTypes
<1>6. \A q \in Runs \ {r} : run'[q] = run[q]
  BY <1>1, StationTypes
<1>7. run'[r].todo = Wanted(Loaded) /\ run'[r].at = None /\ run'[r].client = None
  BY <1>1, <1>3, StationTypes
<1>8. ASSUME NEW q \in Runs, run[q].at # None
      PROVE  run[q].client \in Sessions /\ link'[run[q].client] = link[run[q].client]
  <2>1. run[q].client \in Sessions
    BY <1>8 DEF StationInv, RunsAreSound
  <2>2. ASSUME NEW s \in StationIds, stations[s] # None PROVE stations[s].client # run[q].client
    BY <2>1, <2>2, Shapes, StationsAssumption DEF StationInv, EntriesAreOpen, Connected
  <2>3. QED
    BY <1>1, <2>1, <2>2
<1>9. RunsAreSound'
  <2>1. ASSUME NEW q \in Runs
        PROVE  /\ run'[q].at = None => run'[q].client = None
               /\ run'[q].at # None => /\ run'[q].at \in run'[q].todo /\ run'[q].client \in Sessions
                                       /\ link'[run'[q].client] # "none"
               /\ \A p \in Runs \ {q} : run'[q].client # None => run'[p].client # run'[q].client
    <3>1. CASE q = r
      BY <1>7, <3>1
    <3>2. CASE q # r
      BY <1>6, <1>7, <1>8, <3>2 DEF StationInv, RunsAreSound
    <3>3. QED
      BY <3>1, <3>2
  <2>2. QED
    BY <2>1 DEF RunsAreSound
<1>10. EntryShapes' /\ EntriesAreOpen'
  BY <1>1 DEF EntryShapes, EntriesAreOpen, Connected
<1>11. OnlyOverlapLeaks'
  <2>1. SUFFICES ASSUME ~overlapped, \A q \in Runs : ~Running(q),
                        NEW k \in Sessions, link'[k] # "none"
                 PROVE  k \in leftover
    BY <1>1 DEF OnlyOverlapLeaks
  <2>2. \A q \in Runs : run[q].client = None
    BY <2>1, Shapes DEF Running
  <2>3. link[k] # "none" /\ ~\E s \in StationIds : stations[s] # None /\ stations[s].client = k
    BY <1>1, <2>1
  <2>4. QED
    BY <2>1, <2>2, <2>3, StationsAssumption DEF StationInv, OnlyOverlapLeaks
<1>12. (overlapped \/ OneByOne)'
  <2>1. SUFFICES ASSUME \A q \in Runs : ~Running(q) PROVE OneByOne'
    BY <1>1
  <2>2. \A q \in Runs \ {r} : run'[q] = Idle
    BY <1>6, <2>1 DEF Running
  <2>3. \A q, p \in Runs : run'[q] # Idle /\ run'[p] # Idle => q = p
    BY <2>2
  <2>4. \A q \in Runs : \A c \in run'[q].todo : c \in applied' /\ c.id \in StationIds
    BY <1>1, <1>2, <1>3, <1>7, <2>2, Shapes, StationLists
  <2>5. \A c \in applied' : c \in run'[r].todo
    BY <1>1, <1>2, <1>7
  <2>6. \A s \in StationIds : stations'[s] = None
    BY <1>1
  <2>7. Idle' = Idle
    BY DEF Idle
  <2>8. QED
    BY <1>1, <2>3, <2>4, <2>5, <2>6, <2>7 DEF OneByOne, Running
<1>13. QED
  BY <1>2, <1>5, <1>9, <1>10, <1>11, <1>12 DEF StationInv

----------------------------------------------------------------------------
(* connectStation *)

\* Run r is done with connection c: either way the entry keeps what c owes it.
LEMMA Settling ==
  ASSUME StationInv, NEW r \in Runs, NEW c \in run[r].todo, NEW e \in Entries, Settles(r, c, e),
         UNCHANGED <<configVars, link, lastSaved, applied, unreached, overlapped>>,
         leftover \subseteq leftover', leftover' \subseteq Sessions,
         run[r].at # None => e.client = run[r].client \/ run[r].client \in leftover',
         Keeps(c, e),
         e # Failed => /\ e.client = run[r].client /\ run[r].at # None
                       /\ link[run[r].client] = "browsed" /\ e.nodes \in {"prefix", "block"}
  PROVE  StationInv'
<1>1. /\ run[r] \in RunTypes /\ c \in Connections /\ c.id \in StationIds
      /\ run[r].todo \ {c} \in UniqueLists /\ e # None
  BY StationTypes, StationLists, StationsAssumption DEF RunTypes
<1> DEFINE d == [todo |-> run[r].todo \ {c}, at |-> None, client |-> None]
<1>2. /\ stations' = [stations EXCEPT ![c.id] = e] /\ run' = [run EXCEPT ![r] = d]
  <2>1. [Idle EXCEPT !.todo = run[r].todo \ {c}] = d
    BY DEF Idle
  <2>2. QED
    BY <2>1, Zenon DEF Settles
<1>3. d \in RunTypes /\ d.todo = run[r].todo \ {c} /\ d.at = None /\ d.client = None
  BY <1>1 DEF RunTypes
<1> HIDE DEF d
<1>4. /\ run'[r] = d /\ \A q \in Runs \ {r} : run'[q] = run[q]
  BY <1>2, StationTypes
<1>5. /\ stations'[c.id] = e /\ \A s \in StationIds \ {c.id} : stations'[s] = stations[s]
  BY <1>1, <1>2, StationTypes
<1>6. StationsTypeOK'
  BY <1>1, <1>2, <1>3, StationTypes DEF StationsTypeOK, RunTypes, configVars
<1>7. e # Failed => e.client \in Sessions
  BY DEF StationInv, RunsAreSound
<1>8. EntryShapes'
  BY <1>5, <1>7 DEF StationInv, EntryShapes, Failed
<1>9. RunsAreSound'
  BY <1>3, <1>4 DEF StationInv, RunsAreSound
<1>10. SavedIsRead'
  BY DEF StationInv, SavedIsRead, configVars
<1>11. EntriesAreOpen'
  <2>1. ASSUME NEW s \in StationIds, stations'[s] # None, stations'[s] # Failed
        PROVE  /\ link[stations'[s].client] = "browsed"
               /\ \A t \in StationIds \ {s} :
                    stations'[t] # None => stations'[t].client # stations'[s].client
               /\ \A q \in Runs : run'[q].client # stations'[s].client
    <3>1. CASE s = c.id
      <4>1. /\ stations'[s] = e /\ e # Failed /\ e.client = run[r].client /\ e.client \in Sessions
            /\ run[r].at # None
        BY <1>5, <1>7, <2>1, <3>1
      <4>2. \A t \in StationIds \ {s} : stations[t] # None => stations[t].client # run[r].client
        BY <4>1, Shapes, StationsAssumption DEF StationInv, EntriesAreOpen, Connected
      <4>3. \A q \in Runs : run'[q].client # e.client
        BY <1>3, <1>4, <4>1, StationsAssumption DEF StationInv, RunsAreSound
      <4>4. QED
        BY <1>5, <3>1, <4>1, <4>2, <4>3
    <3>2. CASE s # c.id
      <4>1. stations'[s] = stations[s] /\ Connected(s)
        BY <1>5, <2>1, <3>2 DEF Connected
      <4>2. /\ link[stations[s].client] = "browsed" /\ stations[s].client \in Sessions
            /\ \A t \in StationIds \ {s} : stations[t] # None => stations[t].client # stations[s].client
            /\ \A q \in Runs : run[q].client # stations[s].client
        BY <4>1 DEF StationInv, EntriesAreOpen, EntryShapes, Connected
      <4>3. e.client # stations[s].client
        BY <4>2, Shapes, StationsAssumption
      <4>4. \A q \in Runs : run'[q].client # stations[s].client
        BY <1>3, <1>4, <4>2, StationsAssumption
      <4>5. QED
        BY <1>5, <4>1, <4>2, <4>3, <4>4
    <3>3. QED
      BY <3>1, <3>2
  <2>2. QED
    BY <2>1 DEF EntriesAreOpen, Connected, Failed
<1>12. ASSUME ~overlapped PROVE OneByOne'
  <2>1. OneByOne
    BY <1>12 DEF StationInv
  <2>2. \A b \in run[r].todo \ {c} : b \in Connections /\ b.id # c.id
    BY <1>1, StationLists DEF RunTypes
  <2>3. c \in applied /\ unreached = {} /\ applied \subseteq Connections
        /\ \A b \in applied : b # c => b.id # c.id
    <3>1. Running(r)
      BY Shapes DEF Running
    <3>2. QED
      BY <2>1, <3>1, StationTypes, StationLists DEF OneByOne
  <2>4. \A q, p \in Runs : run'[q] # Idle /\ run'[p] # Idle => q = p
    <3>1. run[r] # Idle
      BY Shapes
    <3>2. QED
      BY <1>4, <2>1, <3>1 DEF OneByOne, Running
  <2>5. \A q \in Runs : \A b \in run'[q].todo : b \in applied /\ stations'[b.id] = None
    <3>1. SUFFICES ASSUME NEW q \in Runs, NEW b \in run'[q].todo
                   PROVE  b \in applied /\ stations'[b.id] = None
      OBVIOUS
    <3>2. q = r
      <4>1. SUFFICES ASSUME q # r PROVE FALSE
        OBVIOUS
      <4>2. b \in run[q].todo /\ c \in run[r].todo
        BY <1>4, <4>1
      <4>3. QED
        BY <2>1, <4>1, <4>2, Shapes DEF OneByOne, Running
    <3>3. b \in run[r].todo \ {c}
      BY <1>3, <1>4, <3>2
    <3>4. b.id \in StationIds /\ b.id # c.id
      BY <2>2, <3>3, StationLists
    <3>5. QED
      BY <1>5, <2>1, <3>3, <3>4 DEF OneByOne
  <2>6. ASSUME NEW b \in applied, \A q \in Runs : b \notin run'[q].todo
        PROVE  stations'[b.id] # None /\ Keeps(b, stations'[b.id])
    <3>1. CASE b = c
      BY <1>1, <1>5, <3>1
    <3>2. CASE b # c
      <4>1. \A q \in Runs : b \notin run[q].todo
        BY <1>3, <1>4, <2>6, <3>2
      <4>2. b.id \in StationIds /\ b.id # c.id
        BY <2>3, <3>2, StationLists
      <4>3. QED
        BY <1>5, <2>1, <2>3, <4>1, <4>2 DEF OneByOne
    <3>3. QED
      BY <3>1, <3>2
  <2>7. \A s \in StationIds : stations'[s] # None => \E b \in applied : b.id = s
    BY <1>5, <2>1, <2>3 DEF OneByOne
  <2>8. Idle' = Idle /\ applied' = applied /\ unreached' = {} /\ \A b \in Connections : \A x : Keeps(b, x)' = Keeps(b, x)
    BY <2>3 DEF Idle, Keeps, Failed
  <2>9. QED
    BY <2>3, <2>4, <2>5, <2>6, <2>7, <2>8 DEF OneByOne, Running, Keeps, Failed
<1>13. OnlyOverlapLeaks'
  <2>1. SUFFICES ASSUME ~overlapped, NEW k \in Sessions, link[k] # "none"
                 PROVE  \/ k \in leftover'
                        \/ \E s \in StationIds : stations'[s] # None /\ stations'[s].client = k
                        \/ \E q \in Runs : run'[q].client = k
    BY DEF OnlyOverlapLeaks
  <2>2. \/ k \in leftover
        \/ \E s \in StationIds : stations[s] # None /\ stations[s].client = k
        \/ \E q \in Runs : run[q].client = k
    BY <2>1 DEF StationInv, OnlyOverlapLeaks
  <2>3. stations[c.id] = None
    BY <2>1 DEF StationInv, OneByOne
  <2>4. ASSUME NEW q \in Runs, run[q].client = k
        PROVE  \/ k \in leftover'
               \/ \E s \in StationIds : stations'[s] # None /\ stations'[s].client = k
               \/ \E p \in Runs : run'[p].client = k
    <3>1. CASE q = r
      <4>1. run[r].at # None
        BY <2>4, <3>1, StationsAssumption DEF StationInv, RunsAreSound
      <4>2. QED
        BY <1>1, <1>5, <2>4, <3>1, <4>1
    <3>2. CASE q # r
      BY <1>4, <2>4, <3>2
    <3>3. QED
      BY <3>1, <3>2
  <2>5. QED
    BY <1>5, <2>2, <2>3, <2>4
<1>14. QED
  BY <1>6, <1>8, <1>9, <1>10, <1>11, <1>12, <1>13 DEF StationInv

\* The steps that move only the client of run r: dialling, the session, discovery.
Moves(r, d, k, x) ==
  /\ run' = [run EXCEPT ![r] = d] /\ link' = [link EXCEPT ![k] = x]
  /\ UNCHANGED <<configVars, stations, pastVars>>

LEMMA Moving ==
  ASSUME StationInv, NEW r \in Runs, NEW k \in Sessions, NEW d \in RunTypes,
         NEW x \in {"client", "session", "browsed"}, Moves(r, d, k, x),
         d.todo = run[r].todo, d.at \in d.todo, d.client = k,
         \A s \in StationIds : Connected(s) => stations[s].client # k,
         \A q \in Runs \ {r} : run[q].client # k,
         run[r].client \in {None, k}
  PROVE  StationInv'
<1>1. /\ run'[r] = d /\ \A q \in Runs \ {r} : run'[q] = run[q]
      /\ link'[k] = x /\ \A m \in Sessions \ {k} : link'[m] = link[m]
  BY StationTypes DEF Moves
<1>2. StationsTypeOK'
  BY StationTypes DEF Moves, StationsTypeOK, RunTypes, configVars, pastVars
<1>3. EntryShapes' /\ SavedIsRead'
  BY DEF Moves, StationInv, EntryShapes, Failed, SavedIsRead, configVars, pastVars
<1>4. d.at # None
  BY StationTypes, StationLists, StationsAssumption DEF RunTypes
<1>5. RunsAreSound'
  BY <1>1, <1>4 DEF StationInv, RunsAreSound
<1>6. EntriesAreOpen'
  <2>1. ASSUME NEW s \in StationIds, Connected(s)
        PROVE  /\ link'[stations[s].client] = "browsed"
               /\ \A t \in StationIds \ {s} : stations[t] # None => stations[t].client # stations[s].client
               /\ \A q \in Runs : run'[q].client # stations[s].client
    <3>1. stations[s].client \in Sessions /\ stations[s].client # k
      BY <2>1 DEF StationInv, EntryShapes, Connected
    <3>2. QED
      BY <1>1, <2>1, <3>1 DEF StationInv, EntriesAreOpen
  <2>2. QED
    BY <2>1 DEF Moves, EntriesAreOpen, Connected, Failed
<1>7. OnlyOverlapLeaks'
  BY <1>1, StationsAssumption DEF Moves, StationInv, OnlyOverlapLeaks, pastVars
<1>8. ASSUME OneByOne PROVE OneByOne'
  <2>1. \A q \in Runs : run'[q].todo = run[q].todo
    BY <1>1
  <2>2. \A q \in Runs : run'[q] # Idle => run[q] # Idle
    BY <1>1, Shapes
  <2>3. Idle' = Idle /\ applied' = applied /\ unreached' = unreached /\ stations' = stations
    BY DEF Moves, Idle, pastVars
  <2>4. QED
    BY <1>8, <2>1, <2>2, <2>3 DEF OneByOne, Running, Keeps, Failed
<1>9. QED
  BY <1>2, <1>3, <1>5, <1>6, <1>7, <1>8 DEF Moves, StationInv, pastVars

\* An exception outside connectStation's try ends a run where it is.
LEMMA BreakingOff ==
  ASSUME StationInv, NEW r \in Runs, RunBreaksOff(r)
  PROVE  StationInv'
<1>1. /\ run[r].at = None /\ run[r].todo # {} /\ run[r].todo \in UniqueLists
      /\ run' = [run EXCEPT ![r] = Idle] /\ unreached' = IF overlapped THEN {} ELSE run[r].todo
      /\ UNCHANGED <<configVars, stations, link, lastSaved, applied, overlapped, leftover>>
  BY StationTypes DEF RunBreaksOff, RunTypes
<1>2. Idle \in RunTypes
  BY StationLists DEF Idle, RunTypes
<1>3. run'[r] = Idle /\ \A q \in Runs \ {r} : run'[q] = run[q]
  BY <1>1, StationTypes
<1>4. run[r].client = None
  BY <1>1 DEF StationInv, RunsAreSound
<1>5. StationsTypeOK'
  BY <1>1, <1>2, StationTypes, StationLists DEF StationsTypeOK, RunTypes, configVars
<1>6. EntryShapes' /\ SavedIsRead'
  BY <1>1 DEF StationInv, EntryShapes, Failed, SavedIsRead, configVars
<1>7. RunsAreSound'
  BY <1>1, <1>3, Shapes DEF StationInv, RunsAreSound
<1>8. EntriesAreOpen'
  <2>1. ASSUME NEW s \in StationIds, Connected(s), NEW q \in Runs
        PROVE  run'[q].client # stations[s].client
    <3>1. run[q].client # stations[s].client /\ stations[s].client \in Sessions
      BY <2>1 DEF StationInv, EntriesAreOpen, EntryShapes, Connected
    <3>2. QED
      BY <1>3, <3>1, Shapes, StationsAssumption
  <2>2. QED
    BY <1>1, <2>1 DEF StationInv, EntriesAreOpen, Connected, Failed
<1>9. OnlyOverlapLeaks'
  BY <1>1, <1>3, <1>4, StationsAssumption DEF StationInv, OnlyOverlapLeaks
<1>10. ASSUME ~overlapped PROVE OneByOne'
  <2>1. OneByOne /\ Running(r)
    BY <1>1, <1>10, Shapes DEF StationInv, Running
  <2>2. unreached = {} /\ unreached' = run[r].todo
    BY <1>1, <1>10, <2>1 DEF OneByOne
  <2>3. \A q \in Runs : run'[q] = Idle
    BY <1>3, <2>1 DEF OneByOne, Running
  <2>4. \A q \in Runs \ {r} : run[q].todo = {}
    BY <2>1, Shapes DEF OneByOne, Running
  <2>5. \A c \in applied \ unreached' : stations[c.id] # None /\ Keeps(c, stations[c.id])
    BY <2>1, <2>2, <2>4 DEF OneByOne
  <2>6. \A s \in StationIds : stations[s] # None => \E c \in applied \ unreached' : c.id = s
    BY <2>1, <2>2 DEF OneByOne
  <2>7. Idle' = Idle /\ applied' = applied /\ stations' = stations
    BY <1>1 DEF Idle
  <2>8. QED
    BY <2>3, <2>5, <2>6, <2>7, Shapes DEF OneByOne, Running, Keeps, Failed
<1>11. QED
  BY <1>1, <1>5, <1>6, <1>7, <1>8, <1>9, <1>10 DEF StationInv

LEMMA Connecting ==
  ASSUME StationInv, NEW r \in Runs, ConnectStep(r)
  PROVE  StationInv'
<1>1. run[r] \in RunTypes /\ run[r].todo \in UniqueLists
  BY StationTypes DEF RunTypes
<1>2. CASE Dials(r)
  <2>1. PICK c \in run[r].todo, k \in Sessions :
          /\ link[k] = "none" /\ \A q \in Runs : run[q].client # k
          /\ run' = [run EXCEPT ![r].at = c, ![r].client = k]
          /\ link' = [link EXCEPT ![k] = "client"]
    BY <1>2 DEF Dials
  <2>2. c \in Connections /\ run[r].at = None /\ run[r].client = None
        /\ UNCHANGED <<configVars, stations, pastVars>>
    BY <1>1, <1>2, StationLists DEF StationInv, RunsAreSound, Dials
  <2> DEFINE d == [todo |-> run[r].todo, at |-> c, client |-> k]
  <2>3. run' = [run EXCEPT ![r] = d]
    <3> DEFINE h == [todo |-> run[r].todo, at |-> c, client |-> run[r].client]
    <3>1. [run[r] EXCEPT !.at = c] = h
      BY <1>1 DEF RunTypes
    <3>2. [h EXCEPT !.client = k] = d
      OBVIOUS
    <3>3. [run[r] EXCEPT !.at = c, !.client = k] = d
      BY <3>1, <3>2, Zenon
    <3>4. \A e \in Connections, m \in Sessions :
             [run EXCEPT ![r].at = e, ![r].client = m]
             = [run EXCEPT ![r] = [run[r] EXCEPT !.at = e, !.client = m]]
      BY StationTypes
    <3>5. QED
      BY <2>1, <2>2, <3>3, <3>4, Zenon
  <2>4. d \in RunTypes /\ d.todo = run[r].todo /\ d.at = c /\ d.client = k
    BY <1>1, <2>2 DEF RunTypes
  <2> HIDE DEF d
  <2>5. \A s \in StationIds : Connected(s) => stations[s].client # k
    BY <2>1 DEF StationInv, EntriesAreOpen
  <2>6. d.at \in d.todo /\ run[r].client \in {None, k} /\ \A q \in Runs \ {r} : run[q].client # k
    BY <2>1, <2>2, <2>4
  <2>7. Moves(r, d, k, "client")
    BY <2>1, <2>2, <2>3 DEF Moves
  <2>8. QED
    BY <2>4, <2>5, <2>6, <2>7, Moving
<1>3. CASE DialFails(r)
  <2>1. PICK c \in run[r].todo : Settles(r, c, Failed)
    BY <1>3 DEF DialFails
  <2>2. run[r].at = None /\ UNCHANGED <<configVars, link, pastVars>>
    BY <1>3 DEF DialFails
  <2>3. QED
    BY <2>1, <2>2, Shapes, StationTypes, Settling DEF Keeps, pastVars
<1>4. ASSUME run[r].at # None, NEW x \in {"session", "browsed"},
             link' = [link EXCEPT ![run[r].client] = x],
             UNCHANGED <<configVars, stations, run, pastVars>>
      PROVE  StationInv'
  <2> DEFINE k == run[r].client
             d == run[r]
  <2>1. k \in Sessions /\ run[r].at \in run[r].todo /\ run[r].at \in Connections
        /\ \A q \in Runs \ {r} : run[q].client # k
    BY <1>1, <1>4, StationLists, StationsAssumption DEF StationInv, RunsAreSound
  <2>2. d \in RunTypes /\ d.todo = run[r].todo /\ d.at = run[r].at /\ d.client = k
    BY <1>1
  <2>3. run' = [run EXCEPT ![r] = d]
    BY <1>4, StationTypes
  <2>4. \A s \in StationIds : Connected(s) => stations[s].client # k
    BY DEF StationInv, EntriesAreOpen
  <2> HIDE DEF d
  <2>5. d.at \in d.todo /\ Moves(r, d, k, x) /\ x \in {"client", "session", "browsed"}
    BY <1>4, <2>1, <2>2, <2>3 DEF Moves
  <2>6. QED
    BY <2>1, <2>2, <2>4, <2>5, Moving
<1>5. CASE OpensSession(r)
  BY <1>4, <1>5 DEF OpensSession
<1>6. CASE Discovers(r)
  BY <1>4, <1>6 DEF Discovers
<1>7. CASE Registers(r)
  <2> DEFINE c == run[r].at
             e == [client |-> run[r].client, nodes |-> NodeIds(c)]
  <2>1. c # None /\ link[run[r].client] = "browsed" /\ Settles(r, c, e)
        /\ UNCHANGED <<configVars, link, pastVars>>
    BY <1>7 DEF Registers
  <2>2. c \in run[r].todo /\ run[r].client \in Sessions
    BY <2>1 DEF StationInv, RunsAreSound
  <2>3. e \in Entries /\ e.client = run[r].client /\ e.nodes \in {"prefix", "block"} /\ Keeps(c, e)
    BY <2>2 DEF Entries, Nodes, NodeIds, Keeps
  <2> HIDE DEF e
  <2>4. QED
    BY <2>1, <2>2, <2>3, StationTypes, Settling DEF pastVars
<1>8. CASE AttemptFails(r)
  <2>1. run[r].at # None /\ Settles(r, run[r].at, Failed)
        /\ leftover' = leftover \cup {run[r].client}
        /\ UNCHANGED <<configVars, link, lastSaved, applied, unreached, overlapped>>
    BY <1>8 DEF AttemptFails
  <2>2. run[r].at \in run[r].todo /\ run[r].client \in Sessions
    BY <2>1 DEF StationInv, RunsAreSound
  <2>3. QED
    BY <2>1, <2>2, Shapes, StationTypes, Settling DEF Keeps
<1>9. QED
  BY <1>2, <1>3, <1>5, <1>6, <1>7, <1>8, BreakingOff DEF ConnectStep

----------------------------------------------------------------------------
\* The system starts, and starts again, with one run and nothing connected.
LEMMA Fresh ==
  ASSUME NEW e \in UniqueLists \cup {None}
  PROVE  [q \in Runs |-> IF q = Boot THEN Started(e) ELSE Idle] \in [Runs -> RunTypes]
<1>1. Idle \in RunTypes
  BY StationLists DEF Idle, RunTypes
<1>2. QED
  BY <1>1, Starting

LEMMA StationInitInv == StationInit => StationInv
<1>1. SUFFICES ASSUME StationInit PROVE StationInv
  OBVIOUS
<1>2. /\ deployed \in UniqueLists \cup {None} /\ file \in UniqueLists \cup {None} /\ env = deployed
      /\ stations = [s \in StationIds |-> None]
      /\ run = [r \in Runs |-> IF r = Boot THEN Started(deployed) ELSE Idle]
      /\ link = [k \in Sessions |-> "none"]
      /\ lastSaved = None /\ applied = Wanted(deployed) /\ unreached = {} /\ overlapped = FALSE /\ leftover = {}
  BY <1>1, StationsAssumption DEF StationInit
<1>3. /\ Wanted(deployed) \in UniqueLists /\ Started(deployed).todo = Wanted(deployed)
      /\ Started(deployed).at = None /\ Started(deployed).client = None
      /\ run \in [Runs -> RunTypes]
  BY <1>2, Starting, Fresh
<1>4. StationsTypeOK
  BY <1>2, <1>3, StationLists DEF StationsTypeOK, RunTypes
<1>5. \A r \in Runs : /\ run[r].at = None /\ run[r].client = None
                      /\ run[r].todo = IF r = Boot THEN applied ELSE {}
                      /\ r # Boot => run[r] = Idle
  BY <1>2, <1>3, Shapes
<1>6. EntryShapes /\ RunsAreSound /\ SavedIsRead /\ EntriesAreOpen /\ OnlyOverlapLeaks
  BY <1>2, <1>5 DEF EntryShapes, RunsAreSound, SavedIsRead, EntriesAreOpen, Connected, OnlyOverlapLeaks
<1>7. OneByOne
  <2>1. Boot \in Runs /\ \A c \in applied : c.id \in StationIds
    BY <1>2, <1>3, StationLists DEF Runs
  <2>2. QED
    BY <1>2, <1>5, <2>1 DEF OneByOne, Running
<1>8. QED
  BY <1>4, <1>6, <1>7 DEF StationInv

LEMMA RestartInv == StationInv /\ StationsRestart => StationInv'
<1>1. SUFFICES ASSUME StationInv, StationsRestart PROVE StationInv'
  OBVIOUS
<1>2. /\ deployed' \in UniqueLists \cup {None} /\ file' \in UniqueLists \cup {None} /\ env' = deployed
      /\ stations' = [s \in StationIds |-> None]
      /\ run' = [r \in Runs |-> IF r = Boot THEN Started(deployed) ELSE Idle]
      /\ link' = [k \in Sessions |-> "none"]
      /\ lastSaved' = None /\ applied' = Wanted(deployed) /\ unreached' = {} /\ overlapped' = FALSE /\ leftover' = {}
      /\ env' \in UniqueLists \cup {None} /\ deployed \in UniqueLists \cup {None}
  BY <1>1, StationTypes DEF StationsRestart
<1>3. /\ Wanted(deployed) \in UniqueLists /\ Started(deployed).todo = Wanted(deployed)
      /\ Started(deployed).at = None /\ Started(deployed).client = None
      /\ run' \in [Runs -> RunTypes]
  BY <1>2, Starting, Fresh
<1>4. StationsTypeOK'
  BY <1>2, <1>3, StationLists DEF StationsTypeOK, RunTypes
<1>5. \A r \in Runs : /\ run'[r].at = None /\ run'[r].client = None
                      /\ run'[r].todo = IF r = Boot THEN applied' ELSE {}
                      /\ r # Boot => run'[r] = Idle
  BY <1>2, <1>3, Shapes
<1>6. EntryShapes' /\ RunsAreSound' /\ SavedIsRead' /\ EntriesAreOpen' /\ OnlyOverlapLeaks'
  BY <1>2, <1>5 DEF EntryShapes, RunsAreSound, SavedIsRead, EntriesAreOpen, Connected, OnlyOverlapLeaks
<1>7. OneByOne'
  <2>1. Boot \in Runs /\ \A c \in applied' : c.id \in StationIds
    BY <1>2, <1>3, StationLists DEF Runs
  <2>2. Idle' = Idle
    BY DEF Idle
  <2>3. QED
    BY <1>2, <1>5, <2>1, <2>2 DEF OneByOne, Running
<1>8. QED
  BY <1>4, <1>6, <1>7 DEF StationInv

LEMMA StationStepInv == StationInv /\ [StationsNext]_stationVars => StationInv'
<1>1. SUFFICES ASSUME StationInv, [StationsNext]_stationVars PROVE StationInv'
  OBVIOUS
<1>2. CASE ReadsConfig
  BY <1>1, <1>2, StationTypes, ConfigStep DEF ReadsConfig, pastVars, StationInv, SavedIsRead
<1>3. ASSUME NEW c \in UniqueLists, SavesConfig(c) PROVE StationInv'
  BY <1>1, <1>3, StationTypes, ConfigStep DEF SavesConfig, SavedIsRead
<1>4. CASE UNCHANGED stationVars
  BY <1>1, <1>4, StationTypes, ConfigStep DEF stationVars, configVars, pastVars, StationInv, SavedIsRead
<1>5. QED
  BY <1>1, <1>2, <1>3, <1>4, RestartInv, Beginning, Connecting DEF StationsNext

\* With one run at a time the map is what the list asks for once the run is over.
LEMMA AppliedWhenDone == StationInv => ReloadTakesEffect
<1>1. SUFFICES ASSUME StationInv, ~overlapped, \A r \in Runs : ~Running(r)
               PROVE  /\ {s \in StationIds : stations[s] # None} = {c.id : c \in applied \ unreached}
                      /\ \A c \in applied \ unreached :
                           \/ stations[c.id] = Failed
                           \/ stations[c.id].nodes = IF c.prefixed THEN "prefix" ELSE "block"
  BY DEF ReloadTakesEffect
<1>2. \A r \in Runs : run[r].todo = {}
  BY <1>1, Shapes DEF Running
<1>3. /\ \A c \in applied \ unreached : stations[c.id] # None /\ Keeps(c, stations[c.id])
      /\ \A s \in StationIds : stations[s] # None => \E c \in applied \ unreached : c.id = s
  BY <1>1, <1>2 DEF StationInv, OneByOne
<1>4. \A c \in applied : c.id \in StationIds
  BY <1>1, StationTypes, StationLists
<1>5. QED
  BY <1>3, <1>4 DEF Keeps

----------------------------------------------------------------------------
(* The editor. *)

EditorTypes ==
  /\ editing \in [Pages -> UniqueLists] /\ opening \in [Pages -> UniqueLists \cup {None}]
  /\ posting \in [Pages -> UniqueLists \cup {None}]
  /\ reloading \in [Pages -> {"no", "sent", "served"}] /\ clicks \in 0..MaxClicks

\* What the editor makes of a list has one connection of an id again.
LEMMA EditorEdits ==
  ASSUME NEW l \in UniqueLists
  PROVE  /\ \A n \in StationIds : IsNewId(n, l) => l \cup {[id |-> n, prefixed |-> FALSE]} \in UniqueLists
         /\ \A i : {c \in l : c.id # i} \in UniqueLists
         /\ \A i : {IF c.id = i THEN [c EXCEPT !.prefixed = ~@] ELSE c : c \in l} \in UniqueLists
<1>1. \A c \in l : c \in Connections /\ c.id \in StationIds /\ c.id \in Nat
  BY StationLists, StationsAssumption
<1>2. \A c, d \in l : c.id = d.id => c = d
  BY StationLists
<1>3. ASSUME NEW n \in StationIds, IsNewId(n, l)
      PROVE  l \cup {[id |-> n, prefixed |-> FALSE]} \in UniqueLists
  <2> DEFINE new == [id |-> n, prefixed |-> FALSE]
  <2>1. new \in Connections /\ new.id = n
    BY DEF Connections
  <2>2. \A c \in l : c.id # n
    BY <1>1, <1>3, StationsAssumption DEF IsNewId
  <2> HIDE DEF new
  <2>3. \A c, d \in l \cup {new} : c.id = d.id => c = d
    BY <1>2, <2>1, <2>2
  <2>4. l \cup {new} \in SUBSET Connections
    BY <1>1, <2>1
  <2>5. QED
    BY <2>3, <2>4 DEF UniqueLists, new
<1>4. \A i : {c \in l : c.id # i} \in UniqueLists
  BY <1>1, <1>2 DEF UniqueLists
<1>5. ASSUME NEW i
      PROVE  {IF c.id = i THEN [c EXCEPT !.prefixed = ~@] ELSE c : c \in l} \in UniqueLists
  <2> DEFINE T(c) == IF c.id = i THEN [c EXCEPT !.prefixed = ~@] ELSE c
  <2>1. \A c \in l : T(c) \in Connections /\ T(c).id = c.id
    BY <1>1 DEF Connections
  <2> HIDE DEF T
  <2>2. \A c, d \in {T(b) : b \in l} : c.id = d.id => c = d
    BY <1>2, <2>1
  <2>3. {T(b) : b \in l} \in UniqueLists
    BY <2>1, <2>2 DEF UniqueLists
  <2>4. QED
    BY <2>3 DEF T
<1>6. QED
  BY <1>3, <1>4, <1>5

LEMMA EditorStep ==
  ASSUME StationInv, EditorTypes, [EditorNext]_<<stationVars, editorVars>>
  PROVE  EditorTypes' /\ [StationsNext]_stationVars
<1>1. /\ editing \in [Pages -> UniqueLists] /\ opening \in [Pages -> UniqueLists \cup {None}]
      /\ posting \in [Pages -> UniqueLists \cup {None}]
      /\ reloading \in [Pages -> {"no", "sent", "served"}] /\ clicks \in 0..MaxClicks
      /\ Loaded \in UniqueLists
  BY StationTypes DEF EditorTypes
<1>2. Clicked => clicks' \in 0..MaxClicks
  BY <1>1, EditorAssumption DEF Clicked
<1>3. CASE EditorRestart
  <2>1. StationsRestart /\ UNCHANGED <<editing, opening, posting>> /\ Clicked
        /\ reloading' = [t \in Pages |-> IF reloading[t] = "served" THEN "no" ELSE reloading[t]]
    BY <1>3 DEF EditorRestart
  <2>2. reloading' \in [Pages -> {"no", "sent", "served"}]
    BY <1>1, <2>1
  <2>3. QED
    BY <1>1, <1>2, <2>1, <2>2 DEF EditorTypes, StationsNext
<1>4. ASSUME NEW r \in Runs, ConnectStep(r) /\ UNCHANGED editorVars
      PROVE  EditorTypes' /\ [StationsNext]_stationVars
  BY <1>1, <1>4 DEF EditorTypes, StationsNext, editorVars
<1>5. ASSUME NEW t \in Pages,
             PageOpens(t) \/ FetchEnds(t)
      PROVE  EditorTypes' /\ [StationsNext]_stationVars
  <2>1. CASE PageOpens(t)
    BY <1>1, <1>2, <2>1, StationLists DEF PageOpens, EditorTypes, StationsNext
  <2>2. CASE FetchEnds(t)
    <3>1. opening[t] \in UniqueLists
      BY <1>1, <2>2 DEF FetchEnds
    <3>2. editing' \in [Pages -> UniqueLists] /\ opening' \in [Pages -> UniqueLists \cup {None}]
      BY <1>1, <2>2, <3>1 DEF FetchEnds
    <3>3. QED
      BY <1>1, <2>2, <3>2 DEF FetchEnds, EditorTypes
  <2>3. QED
    BY <1>5, <2>1, <2>2
<1>6. ASSUME NEW t \in Pages, NEW l \in UniqueLists, Edit(t, l)
      PROVE  EditorTypes' /\ [StationsNext]_stationVars
  BY <1>1, <1>2, <1>6 DEF Edit, EditorTypes
<1>7. ASSUME NEW t \in Pages, AddConnection(t) \/ RemoveConnection(t) \/ ToggleNodePrefix(t)
      PROVE  EditorTypes' /\ [StationsNext]_stationVars
  <2>1. editing[t] \in UniqueLists
    BY <1>1
  <2>2. PICK l \in UniqueLists : Edit(t, l)
    BY <1>7, <2>1, EditorEdits DEF AddConnection, RemoveConnection, ToggleNodePrefix
  <2>3. QED
    BY <1>6, <2>2
<1>8. ASSUME NEW t \in Pages, SaveClicked(t) \/ SaveArrives(t) \/ SaveLost(t)
      PROVE  EditorTypes' /\ [StationsNext]_stationVars
  <2>1. CASE SaveClicked(t)
    BY <1>1, <1>2, <2>1 DEF SaveClicked, EditorTypes
  <2>2. CASE SaveArrives(t)
    <3>1. posting[t] \in UniqueLists /\ SavesConfig(posting[t])
      BY <1>1, <2>2 DEF SaveArrives
    <3>2. QED
      BY <1>1, <2>2, <3>1 DEF SaveArrives, EditorTypes, StationsNext
  <2>3. CASE SaveLost(t)
    BY <1>1, <2>3 DEF SaveLost, EditorTypes
  <2>4. QED
    BY <1>8, <2>1, <2>2, <2>3
<1>9. ASSUME NEW t \in Pages,
             ReloadClicked(t) \/ ReloadArrives(t) \/ ReloadLost(t) \/ ReloadAnswered(t)
      PROVE  EditorTypes' /\ [StationsNext]_stationVars
  <2>1. /\ reloading' \in [Pages -> {"no", "sent", "served"}] /\ UNCHANGED <<editing, opening, posting>>
        /\ clicks' \in 0..MaxClicks
    BY <1>1, <1>2, <1>9 DEF ReloadClicked, ReloadArrives, ReloadLost, ReloadAnswered, ReloadMoves
  <2>2. UNCHANGED stationVars \/ ReloadBegins(t)
    BY <1>9 DEF ReloadClicked, ReloadArrives, ReloadLost, ReloadAnswered
  <2>3. QED
    BY <1>1, <2>1, <2>2 DEF EditorTypes, StationsNext, Pages
<1>10. CASE UNCHANGED <<stationVars, editorVars>>
  BY <1>1, <1>10 DEF EditorTypes, editorVars
<1>11. QED
  BY <1>3, <1>4, <1>5, <1>7, <1>8, <1>9, <1>10 DEF EditorNext

LEMMA EditorInitInv == EditorInit => StationInv /\ EditorTypes
  BY StationInitInv, StationLists, EditorAssumption DEF EditorInit, EditorTypes

LEMMA EditorStepInv ==
  StationInv /\ EditorTypes /\ [EditorNext]_<<stationVars, editorVars>> => (StationInv /\ EditorTypes)'
  BY EditorStep, StationStepInv

LEMMA EditorInv == EditorSpec => [](StationInv /\ EditorTypes)
  BY EditorInitInv, EditorStepInv, PTL DEF EditorSpec

LEMMA EditorTyped == StationInv /\ EditorTypes => EditorTypeOK
  BY DEF StationInv, EditorTypes, EditorTypeOK

\* Every variable of the stations and their editors keeps its type.
THEOREM StationsTypeCorrect == EditorSpec => []EditorTypeOK
  BY EditorTyped, EditorInv, PTL

\* Whatever the editors send, and in whatever order their saves and reloads arrive,
\* the backend does what Stations says: no page sends a list with an id twice.
THEOREM EditorImplementsStations == EditorSpec => StationsSpec
<1>1. EditorInit => StationInit
  BY DEF EditorInit
<1>2. StationInv /\ EditorTypes /\ [EditorNext]_<<stationVars, editorVars>> => [StationsNext]_stationVars
  BY EditorStep
<1>3. QED
  BY <1>1, <1>2, EditorInv, PTL DEF EditorSpec, StationsSpec

\* An entry of the map that says connected has an open session of its own, also
\* when any number of reloads run into each other (reloadStations, connectStation).
THEOREM ConnectedIsOpen == EditorSpec => []EntriesAreOpen
<1>1. StationInv => EntriesAreOpen
  BY DEF StationInv
<1>2. QED
  BY <1>1, EditorInv, PTL

\* A client that stays connected unknown to the map is one of a failed attempt, or
\* reloads have overlapped: reloadStations leaks nothing when it runs alone.
THEOREM LeaksNeedOverlap == EditorSpec => []OnlyOverlapLeaks
<1>1. StationInv => OnlyOverlapLeaks
  BY DEF StationInv
<1>2. QED
  BY <1>1, EditorInv, PTL

\* When no run is under way and none has overlapped another, the map has exactly the
\* connections saved last before the last reload, whatever was edited meanwhile, or
\* those of them that were tried before an exception broke the run off.
THEOREM ReloadsApply == EditorSpec => []ReloadTakesEffect
<1>1. StationInv => ReloadTakesEffect
  BY AppliedWhenDone
<1>2. QED
  BY <1>1, EditorInv, PTL
=============================================================================
