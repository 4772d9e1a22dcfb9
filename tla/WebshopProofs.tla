--------------------------- MODULE WebshopProofs ---------------------------
(***************************************************************************)
(* The gateway and the pages of the web shop, for any number of client     *)
(* objects, brokers, pages, messages and requests: the connection is what  *)
(* the operator asked for and what the gateway shows, and the switches of  *)
(* gateway and pages agree once a page is settled.                         *)
(***************************************************************************)
EXTENDS WebshopOrders, SequenceTheorems, FiniteSetTheorems, WellFoundedInduction, TLAPS

----------------------------------------------------------------------------
\* The connection of the gateway.

\* A disconnect that is to hold has left no timer behind.
NoTimerLeft == wish = "disconnected" => ~reconnectTimer /\ ~bootTimer

Inv ==
  /\ GatewayTypeOK
  /\ OneLiveClient
  /\ ConnectedIsReal
  /\ DisconnectHolds
  /\ NoTimerLeft
  /\ OperatorsBroker
  /\ FileIsCurrent

\* What a step that replaces or ends the client owes to Inv.
LinkType == /\ client \in Clients \cup {None}
            /\ link \in [Clients -> {"free", "connecting", "open", "ending"}]
            /\ broker \in [Clients -> Urls]

----------------------------------------------------------------------------
\* A broker is always dialled at a URL.
LEMMA DialledUrl ==
  ASSUME NEW u \in Urls \cup {None}
  PROVE  Dialled(u) \in Urls
  BY GatewayAssumption DEF Dialled

\* What the service saves is a file, and what it boots from one a status.
LEMMA SavedType ==
  ASSUME NEW s \in StatusType
  PROVE  Saved(s) \in FileType
  BY DEF Saved, StatusType, FileType

LEMMA BootedType ==
  ASSUME NEW f \in FileType
  PROVE  /\ Booted(f) \in StatusType
         /\ BootUrl(f) \in Urls
  BY GatewayAssumption DEF Booted, BootUrl, StatusType, FileType

LEMMA GivenType ==
  ASSUME NEW S, NEW new \in S, NEW old \in S
  PROVE  Given(new, old) \in S
  BY DEF Given

\* Ending this.client leaves no client alive.
LEMMA EndedIsQuiet ==
  ASSUME LinkType, OneLiveClient
  PROVE  /\ Ended \in [Clients -> {"free", "connecting", "open", "ending"}]
         /\ \A c \in Clients : Ended[c] \notin Alive
  BY DEF LinkType, OneLiveClient, Ended, Alive

\* Among quiet clients a new one is the only one alive.
LEMMA NewClientIsAlone ==
  ASSUME NEW u \in Urls,
         NEW l \in [Clients -> {"free", "connecting", "open", "ending"}],
         LinkType, \A c \in Clients : l[c] \notin Alive,
         NewClient(u, l)
  PROVE  /\ LinkType'
         /\ OneLiveClient'
         /\ client' # None
         /\ broker'[client'] = u
         /\ client' \in Clients
<1>1. PICK c \in Clients :
        /\ client' = c
        /\ link' = [l EXCEPT ![c] = "connecting"]
        /\ broker' = [broker EXCEPT ![c] = u]
  BY DEF NewClient
<1>2. LinkType'
  BY <1>1 DEF LinkType
<1>3. OneLiveClient'
  BY <1>1 DEF LinkType, OneLiveClient, Alive
<1>4. client' # None /\ broker'[client'] = u /\ client' \in Clients
  BY <1>1, GatewayAssumption DEF LinkType
<1> QED BY <1>2, <1>3, <1>4

\* connectToBroker keeps the connection state whole, with a status s and a
\* file that agree when it starts.
LEMMA ConnectToKeeps ==
  ASSUME NEW u \in Urls \cup {None}, NEW p \in Users \cup {None},
         NEW s \in StatusType, LinkType, OneLiveClient,
         ConnectTo(u, p, s, Saved(s))
  PROVE  /\ LinkType' /\ OneLiveClient' /\ ConnectedIsReal'
         /\ OperatorsBroker' /\ FileIsCurrent'
         /\ status' \in StatusType
         /\ wish' \in {"none", "connected"}
<1>1. CASE u \in BadUrls
  <2>1. /\ client' = None /\ link' = Ended /\ broker' = broker
        /\ status' = [s EXCEPT !.connected = FALSE]
        /\ file' = Saved(s) /\ wish' = "none"
    BY <1>1 DEF ConnectTo
  <2>2. LinkType'
    BY <2>1, EndedIsQuiet DEF LinkType
  <2>3. OneLiveClient'
    BY <2>1, EndedIsQuiet, GatewayAssumption DEF OneLiveClient
  <2>4. status' \in StatusType /\ ConnectedIsReal'
    BY <2>1 DEF StatusType, ConnectedIsReal
  <2>5. OperatorsBroker' /\ wish' \in {"none", "connected"}
    BY <2>1 DEF OperatorsBroker
  <2>6. FileIsCurrent'
    BY <2>1 DEF FileIsCurrent, Saved, StatusType
  <2> QED BY <2>2, <2>3, <2>4, <2>5, <2>6
<1>2. CASE u \notin BadUrls
  <2>1. /\ NewClient(Dialled(u), Ended)
        /\ status' = [s EXCEPT !.url = u, !.user = Given(p, @), !.connected = FALSE]
        /\ file' = Saved(status') /\ wish' = "connected"
    BY <1>2 DEF ConnectTo
  <2>2. LinkType' /\ OneLiveClient' /\ client' # None /\ broker'[client'] = Dialled(u)
    BY <2>1, DialledUrl, EndedIsQuiet, NewClientIsAlone
  <2>3. status' \in StatusType /\ status'.url = u /\ ~status'.connected
    BY <2>1 DEF StatusType, Given
  <2>4. ConnectedIsReal' /\ OperatorsBroker'
    BY <2>2, <2>3 DEF ConnectedIsReal, OperatorsBroker
  <2>5. FileIsCurrent'
    BY <2>1 DEF FileIsCurrent
  <2> QED BY <2>1, <2>2, <2>3, <2>4, <2>5
<1> QED BY <1>1, <1>2

----------------------------------------------------------------------------
LEMMA InitInv == GatewayInit => Inv
<1> SUFFICES ASSUME GatewayInit PROVE Inv
  OBVIOUS
<1>1. /\ file = Saved(status) /\ status \in StatusType /\ file \in FileType
      /\ ~status.connected
  <2>1. NoFile \in FileType
    BY DEF NoFile, FileType
  <2>2. Booted(NoFile) \in StatusType /\ ~Booted(NoFile).connected
    BY <2>1, BootedType DEF Booted
  <2> QED BY <2>2, SavedType DEF GatewayInit
<1>2. GatewayTypeOK
  <2>1. link \in [Clients -> {"free", "connecting", "open", "ending"}]
    BY DEF GatewayInit
  <2>2. broker \in [Clients -> Urls] /\ bootUrl \in Urls
    BY GatewayAssumption DEF GatewayInit
  <2>3. ops \in 0..MaxOps
    BY GatewayAssumption DEF GatewayInit
  <2> QED BY <1>1, <2>1, <2>2, <2>3 DEF GatewayInit, GatewayTypeOK
<1>3. OneLiveClient
  BY GatewayAssumption DEF GatewayInit, OneLiveClient, Alive
<1> QED BY <1>1, <1>2, <1>3
  DEF Inv, GatewayInit, ConnectedIsReal, DisconnectHolds, NoTimerLeft,
      OperatorsBroker, FileIsCurrent

LEMMA RestartInv == Inv /\ GatewayRestart => Inv'
<1> SUFFICES ASSUME Inv, GatewayRestart PROVE Inv'
  OBVIOUS
<1>1. LinkType /\ file \in FileType /\ ops' \in 0..MaxOps
  BY GatewayAssumption DEF Inv, GatewayTypeOK, LinkType, GatewayRestart, Bounded
<1>2. /\ status' = Booted(file) /\ file' = Saved(status')
      /\ status' \in StatusType /\ file' \in FileType /\ ~status'.connected
  BY <1>1, BootedType, SavedType DEF GatewayRestart, Boot, Booted
<1>3. bootUrl' \in Urls /\ reconnectTimer' = FALSE /\ wish' = "none"
      /\ running' \in BOOLEAN /\ bootTimer' \in BOOLEAN
  BY <1>1, BootedType DEF GatewayRestart, Boot
<1>4. LinkType' /\ OneLiveClient'
  <2>1. CASE BootUrl(file) \in BadUrls
    BY <1>1, <2>1, GatewayAssumption
    DEF GatewayRestart, Boot, LinkType, OneLiveClient, Alive
  <2>2. CASE BootUrl(file) \notin BadUrls
    <3>1. PICK c \in Clients :
            /\ client' = c
            /\ link' = [d \in Clients |-> IF d = c THEN "connecting" ELSE "free"]
            /\ broker' = [broker EXCEPT ![c] = BootUrl(file)]
      BY <2>2 DEF GatewayRestart, Boot
    <3>2. BootUrl(file) \in Urls
      BY <1>1, BootedType
    <3> QED BY <1>1, <3>1, <3>2 DEF LinkType, OneLiveClient, Alive
  <2> QED BY <2>1, <2>2
<1>5. GatewayTypeOK'
  BY <1>1, <1>2, <1>3, <1>4 DEF GatewayTypeOK, LinkType
<1> QED BY <1>2, <1>3, <1>4, <1>5
  DEF Inv, ConnectedIsReal, DisconnectHolds, NoTimerLeft, OperatorsBroker, FileIsCurrent

LEMMA ConnectInv ==
  ASSUME Inv, NEW u \in Urls, NEW p \in Users \cup {None}, Connect(u, p)
  PROVE  Inv'
<1>1. LinkType /\ OneLiveClient /\ status \in StatusType /\ file = Saved(status)
  BY DEF Inv, GatewayTypeOK, LinkType, FileIsCurrent
<1>2. ConnectTo(u, p, status, Saved(status))
  BY <1>1 DEF Connect
<1>3. /\ LinkType' /\ OneLiveClient' /\ ConnectedIsReal'
      /\ OperatorsBroker' /\ FileIsCurrent'
      /\ status' \in StatusType
      /\ wish' \in {"none", "connected"}
  BY <1>1, <1>2, ConnectToKeeps
<1>4. file' \in FileType
  BY <1>3, SavedType DEF FileIsCurrent
<1>5. GatewayTypeOK'
  BY <1>3, <1>4, GatewayAssumption
  DEF GatewayTypeOK, LinkType, Inv, Connect, Bounded, timerVars
<1> QED BY <1>3, <1>5 DEF Inv, DisconnectHolds, NoTimerLeft

LEMMA SetConfigInv ==
  ASSUME Inv, NEW u \in Urls \cup {None}, NEW p \in Users \cup {None}, SetConfig(u, p)
  PROVE  Inv'
<1> DEFINE s == [status EXCEPT !.url = Given(u, @), !.user = Given(p, @)]
           changed == /\ u # None \/ p # None
                      /\ u # status.url \/ p # status.user
<1>1. LinkType /\ OneLiveClient /\ status \in StatusType
  BY DEF Inv, GatewayTypeOK, LinkType
<1>2. s \in StatusType
  BY <1>1 DEF StatusType, Given
<1>3. ops' \in 0..MaxOps /\ running' \in BOOLEAN /\ bootTimer' \in BOOLEAN
      /\ bootUrl' \in Urls
  BY GatewayAssumption DEF SetConfig, Bounded, Inv, GatewayTypeOK
<1>4. CASE changed
  <2>1. ConnectTo(u, p, s, Saved(s)) /\ reconnectTimer' = FALSE
    BY <1>4 DEF SetConfig
  <2> HIDE DEF s, changed
  <2>2. /\ LinkType' /\ OneLiveClient' /\ ConnectedIsReal'
        /\ OperatorsBroker' /\ FileIsCurrent'
        /\ status' \in StatusType
        /\ wish' \in {"none", "connected"}
    BY <1>1, <1>2, <2>1, ConnectToKeeps
  <2>3. file' \in FileType
    BY <2>2, SavedType DEF FileIsCurrent
  <2>4. GatewayTypeOK'
    BY <1>3, <2>1, <2>2, <2>3 DEF GatewayTypeOK, LinkType
  <2> QED BY <2>2, <2>4 DEF Inv, DisconnectHolds, NoTimerLeft
<1>5. CASE ~changed
  <2>1. status' = s /\ file' = Saved(s)
        /\ UNCHANGED <<linkVars, reconnectTimer, wish, bootTimer>>
    BY <1>5 DEF SetConfig
  <2>2. s = status
    BY <1>1, <1>5, GatewayAssumption DEF StatusType, Given
  <2>3. file' = file
    BY <2>1, <2>2 DEF Inv, FileIsCurrent
  <2> QED BY <1>3, <2>1, <2>2, <2>3
    DEF Inv, GatewayTypeOK, OneLiveClient, ConnectedIsReal, DisconnectHolds, NoTimerLeft,
        OperatorsBroker, FileIsCurrent, linkVars
<1> QED BY <1>4, <1>5

LEMMA DisconnectInv == Inv /\ Disconnect => Inv'
<1> SUFFICES ASSUME Inv, Disconnect PROVE Inv'
  OBVIOUS
<1>1. LinkType /\ OneLiveClient /\ status \in StatusType
  BY DEF Inv, GatewayTypeOK, LinkType
<1>2. status' \in StatusType /\ Saved(status') = Saved(status) /\ ~status'.connected
  BY <1>1 DEF Disconnect, StatusType, Saved, Inv, ConnectedIsReal
<1>3. LinkType' /\ OneLiveClient' /\ client' = None
  BY <1>1, EndedIsQuiet, GatewayAssumption DEF Disconnect, LinkType, OneLiveClient
<1>4. GatewayTypeOK'
  <2>1. ops' \in 0..MaxOps
    BY GatewayAssumption DEF Disconnect, Bounded, Inv, GatewayTypeOK
  <2>2. wish' \in {"none", "disconnected"}
    BY DEF Disconnect, Unasked
  <2> QED BY <1>2, <1>3, <2>1, <2>2 DEF Inv, GatewayTypeOK, LinkType, Disconnect
<1> QED BY <1>2, <1>3, <1>4
  DEF Inv, Disconnect, Unasked, ConnectedIsReal, DisconnectHolds, NoTimerLeft,
      OperatorsBroker, FileIsCurrent

LEMMA SetAutoCreateInv ==
  ASSUME Inv, NEW b \in BOOLEAN, SetAutoCreate(b)
  PROVE  Inv'
<1>1. status' \in StatusType /\ status'.url = status.url /\ status'.connected = status.connected
  BY DEF Inv, GatewayTypeOK, SetAutoCreate, StatusType
<1>2. file' \in FileType
  BY <1>1, SavedType DEF SetAutoCreate
<1> QED BY <1>1, <1>2
  DEF Inv, GatewayTypeOK, SetAutoCreate, OneLiveClient, ConnectedIsReal, DisconnectHolds,
      NoTimerLeft, OperatorsBroker, FileIsCurrent, linkVars, timerVars

\* The timers only ever replace a missing client, and none is missing while a
\* connect of the operator is to hold.
LEMMA AttemptKeeps ==
  ASSUME Inv, AttemptConnect(bootUrl), UNCHANGED <<status, wish>>, wish # "disconnected"
  PROVE  LinkType' /\ OneLiveClient' /\ ConnectedIsReal' /\ OperatorsBroker'
<1>1. LinkType /\ OneLiveClient
  BY DEF Inv, GatewayTypeOK, LinkType
<1>2. CASE client # None
  BY <1>2 DEF Inv, AttemptConnect, linkVars, GatewayTypeOK, LinkType, OneLiveClient,
              ConnectedIsReal, OperatorsBroker
<1>3. CASE client = None
  <2>1. NewClient(bootUrl, link)
    BY <1>3 DEF AttemptConnect
  <2>2. \A c \in Clients : link[c] \notin Alive
    BY <1>3, GatewayAssumption DEF Inv, OneLiveClient
  <2>3. LinkType' /\ OneLiveClient'
    BY <1>1, <2>1, <2>2, NewClientIsAlone DEF Inv, GatewayTypeOK, LinkType
  <2> QED BY <1>3, <2>3 DEF Inv, ConnectedIsReal, OperatorsBroker
<1> QED BY <1>2, <1>3

LEMMA TimersInv == Inv /\ (BootTimerFires \/ Tick) => Inv'
<1> SUFFICES ASSUME Inv, BootTimerFires \/ Tick PROVE Inv'
  OBVIOUS
<1>1. wish # "disconnected" /\ UNCHANGED <<running, status, file, bootUrl, wish, ops>>
  BY DEF Inv, NoTimerLeft, BootTimerFires, Tick, timerVars
<1>2. bootTimer' \in BOOLEAN /\ reconnectTimer' \in BOOLEAN
  BY DEF Inv, GatewayTypeOK, BootTimerFires, Tick, timerVars
<1>3. AttemptConnect(bootUrl) \/ UNCHANGED linkVars
  BY DEF BootTimerFires, Tick
<1>4. LinkType' /\ OneLiveClient' /\ ConnectedIsReal' /\ OperatorsBroker'
  <2>1. CASE AttemptConnect(bootUrl)
    BY <1>1, <2>1, AttemptKeeps
  <2>2. CASE UNCHANGED linkVars
    BY <1>1, <2>2 DEF Inv, linkVars, GatewayTypeOK, LinkType, OneLiveClient,
                      ConnectedIsReal, OperatorsBroker
  <2> QED BY <1>3, <2>1, <2>2
<1>5. GatewayTypeOK'
  BY <1>1, <1>2, <1>4 DEF Inv, GatewayTypeOK, LinkType
<1> QED BY <1>1, <1>4, <1>5 DEF Inv, DisconnectHolds, NoTimerLeft, FileIsCurrent

\* Events of a client, an ended one included, leave this.client as it is.
LEMMA EventsInv ==
  ASSUME Inv, NEW c \in Clients, Connects(c) \/ Drops(c) \/ Closes(c)
  PROVE  Inv'
<1>1. PICK l \in {"free", "connecting", "open"}, b \in BOOLEAN :
        /\ link' = [link EXCEPT ![c] = l]
        /\ status' = [status EXCEPT !.connected = b]
        /\ l = "free" <=> link[c] = "ending"
        /\ link[c] \in Alive \cup {"ending"}
        /\ b => l = "open"
  BY DEF Connects, Drops, Closes, Alive
<1>2. /\ UNCHANGED <<running, client, broker, file, bootUrl, bootTimer, wish, ops>>
      /\ reconnectTimer' \in {FALSE, reconnectTimer}
  BY DEF Connects, Drops, Closes, timerVars
<1>3. /\ status' \in StatusType /\ Saved(status') = Saved(status)
      /\ status'.url = status.url /\ status'.connected = b
  BY <1>1 DEF Inv, GatewayTypeOK, StatusType, Saved
<1>4. GatewayTypeOK'
  BY <1>1, <1>2, <1>3 DEF Inv, GatewayTypeOK
<1>5. OneLiveClient'
  BY <1>1, <1>2 DEF Inv, GatewayTypeOK, OneLiveClient, Alive
<1>6. ConnectedIsReal'
  <2>1. CASE b
    <3>1. link[c] \in Alive
      BY <1>1, <2>1 DEF Alive
    <3>2. c = client
      BY <3>1 DEF Inv, OneLiveClient
    <3>3. link'[c] = "open"
      BY <1>1, <2>1 DEF Inv, GatewayTypeOK
    <3> QED BY <1>2, <3>2, <3>3, GatewayAssumption DEF ConnectedIsReal
  <2>2. CASE ~b
    BY <1>3, <2>2 DEF ConnectedIsReal
  <2> QED BY <2>1, <2>2
<1>7. NoTimerLeft'
  BY <1>2 DEF Inv, NoTimerLeft
<1>8. OperatorsBroker' /\ DisconnectHolds'
  BY <1>2, <1>3 DEF Inv, OperatorsBroker, DisconnectHolds
<1>9. FileIsCurrent'
  BY <1>2, <1>3 DEF Inv, FileIsCurrent
<1> QED BY <1>4, <1>5, <1>6, <1>7, <1>8, <1>9 DEF Inv

----------------------------------------------------------------------------
\* Inv is inductive: one lemma for each way the connection state changes.
LEMMA NextInv == Inv /\ [GatewayNext]_gatewayVars => Inv'
<1> SUFFICES ASSUME Inv, [GatewayNext]_gatewayVars PROVE Inv'
  OBVIOUS
<1>1. CASE \E u \in Urls \cup {None}, p \in Users \cup {None} : SetConfig(u, p)
  BY <1>1, SetConfigInv
<1>2. CASE \E u \in Urls, p \in Users \cup {None} : Connect(u, p)
  BY <1>2, ConnectInv
<1>3. CASE Disconnect
  BY <1>3, DisconnectInv
<1>4. CASE BootTimerFires \/ Tick
  BY <1>4, TimersInv
<1>5. CASE \E c \in Clients : Connects(c) \/ Drops(c) \/ Closes(c)
  BY <1>5, EventsInv
<1>6. CASE \E b \in BOOLEAN : SetAutoCreate(b)
  BY <1>6, SetAutoCreateInv
<1>7. CASE GatewayRestart
  BY <1>7, RestartInv
<1>8. CASE UNCHANGED gatewayVars
  BY <1>8 DEF Inv, gatewayVars, linkVars, timerVars, GatewayTypeOK, OneLiveClient,
              ConnectedIsReal, DisconnectHolds, NoTimerLeft, OperatorsBroker, FileIsCurrent
<1> QED BY <1>1, <1>2, <1>3, <1>4, <1>5, <1>6, <1>7, <1>8 DEF GatewayNext, GatewayStep

\* The invariant of the connection state, from which the theorems follow.
THEOREM Invariance == GatewaySpec => []Inv
  BY InitInv, NextInv, PTL DEF GatewaySpec

\* Every variable of the gateway keeps its type.
THEOREM TypeCorrect == GatewaySpec => []GatewayTypeOK
<1>1. Inv => GatewayTypeOK
  BY DEF Inv
<1> QED BY <1>1, Invariance, PTL

\* No forgotten client stays connected, however connects, disconnects, timers
\* and restarts follow each other.
THEOREM NoForgottenClient == GatewaySpec => []OneLiveClient
<1>1. Inv => OneLiveClient
  BY DEF Inv
<1> QED BY <1>1, Invariance, PTL

\* The status never shows a connection that is not there.
THEOREM StatusIsHonest == GatewaySpec => []ConnectedIsReal
<1>1. Inv => ConnectedIsReal
  BY DEF Inv
<1> QED BY <1>1, Invariance, PTL

\* Timers and late events do not undo a disconnect of the operator.
THEOREM OperatorDecides == GatewaySpec => []DisconnectHolds
<1>1. Inv => DisconnectHolds
  BY DEF Inv
<1> QED BY <1>1, Invariance, PTL

\* After a connect of the operator the client is one for the broker the status
\* names, whatever timers fire and whatever a replaced client still reports.
THEOREM OperatorChoosesBroker == GatewaySpec => []OperatorsBroker
<1>1. Inv => OperatorsBroker
  BY DEF Inv
<1> QED BY <1>1, Invariance, PTL

\* A restart finds the configuration the gateway had.
THEOREM NothingUnsaved == GatewaySpec => []FileIsCurrent
<1>1. Inv => FileIsCurrent
  BY DEF Inv
<1> QED BY <1>1, Invariance, PTL

----------------------------------------------------------------------------
\* The switches of the gateway and the pages.

\* The part of the types that the switches need.
PageTypes ==
  /\ ws \in [Tabs -> {"none", "connecting", "live", "deaf"}]
  /\ ref \in [Tabs -> BOOLEAN]
  /\ box \in [Tabs -> BOOLEAN]
  /\ trust \in [Tabs -> {"fresh", "synced", "failed"}]
  /\ wire \in [Tabs -> Seq(EventType)]
  /\ toggles \subseteq [tab : Tabs, on : BOOLEAN, n : Nat, done : BOOLEAN]

NoNews(w) == \A i \in 1..Len(w) : w[i].kind # "auto"

\* The last news of the switch in w says b.
LastNews(w, b) ==
  \A i \in 1..Len(w) :
    w[i].kind = "auto" /\ (\A j \in 1..Len(w) : j > i => w[j].kind # "auto") => w[i].on = b

\* A page that is not connected hears nothing and, before it is, trusts nothing.
Unheard ==
  \A t \in Tabs :
    /\ ws[t] # "live" => wire[t] = <<>>
    /\ ws[t] \in {"none", "connecting"} => trust[t] # "synced"

\* The page that has heard all knows the switch, or its own change is coming.
Confirmed ==
  \A t \in Tabs :
    ws[t] = "live" /\ trust[t] = "synced" /\ NoNews(wire[t])
      => ref[t] = status.auto \/ \E r \in toggles : r.tab = t /\ ~r.done /\ r.on = ref[t]

SwitchInv ==
  /\ Inv
  /\ PageTypes
  /\ Unheard
  /\ \A t \in Tabs : LastNews(wire[t], status.auto)
  /\ Confirmed

----------------------------------------------------------------------------
\* What an event at the end of a wire, or taken from its head, does to news.
LEMMA OrderAtEnd ==
  ASSUME NEW w \in Seq(EventType), NEW m \in Messages, NEW b
  PROVE  /\ w \o <<OrderEvent(m)>> \in Seq(EventType)
         /\ LastNews(w, b) => LastNews(w \o <<OrderEvent(m)>>, b)
         /\ NoNews(w \o <<OrderEvent(m)>>) => NoNews(w)
<1> DEFINE e == OrderEvent(m)
           v == w \o <<e>>
<1>1. e \in EventType /\ e.kind = "order"
  BY DEF OrderEvent, EventType
<1> HIDE DEF e
<1>2. /\ v \in Seq(EventType) /\ Len(v) = Len(w) + 1
      /\ \A i \in 1..Len(w) : v[i] = w[i]
      /\ v[Len(w) + 1] = e
  BY <1>1
<1> HIDE DEF v
<1>3. LastNews(w, b) => LastNews(v, b)
  BY <1>1, <1>2 DEF LastNews
<1>4. NoNews(v) => NoNews(w)
  BY <1>2 DEF NoNews
<1> QED BY <1>2, <1>3, <1>4 DEF v, e

LEMMA AutoAtEnd ==
  ASSUME NEW w \in Seq(EventType), NEW b \in BOOLEAN
  PROVE  /\ w \o <<AutoEvent(b)>> \in Seq(EventType)
         /\ LastNews(w \o <<AutoEvent(b)>>, b)
         /\ ~NoNews(w \o <<AutoEvent(b)>>)
<1> DEFINE e == AutoEvent(b)
           v == w \o <<e>>
<1>1. e \in EventType /\ e.kind = "auto" /\ e.on = b
  BY DEF AutoEvent, EventType
<1> HIDE DEF e
<1>2. /\ v \in Seq(EventType) /\ Len(v) = Len(w) + 1
      /\ \A i \in 1..Len(w) : v[i] = w[i]
      /\ v[Len(w) + 1] = e
  BY <1>1
<1> HIDE DEF v
<1>3. LastNews(v, b)
  BY <1>1, <1>2 DEF LastNews
<1>4. ~NoNews(v)
  BY <1>1, <1>2 DEF NoNews
<1> QED BY <1>2, <1>3, <1>4 DEF v, e

LEMMA HeadTaken ==
  ASSUME NEW w \in Seq(EventType), w # <<>>, NEW b, LastNews(w, b)
  PROVE  /\ Tail(w) \in Seq(EventType)
         /\ LastNews(Tail(w), b)
         /\ NoNews(Tail(w)) /\ Head(w).kind = "auto" => Head(w).on = b
         /\ NoNews(Tail(w)) /\ Head(w).kind # "auto" => NoNews(w)
<1> DEFINE v == Tail(w)
<1>1. /\ v \in Seq(EventType) /\ Len(w) = Len(v) + 1 /\ Len(v) \in Nat
      /\ \A i \in 1..Len(v) : v[i] = w[i + 1]
      /\ Head(w) = w[1]
  BY HeadTailProperties
<1> HIDE DEF v
<1>2. LastNews(v, b)
  <2> SUFFICES ASSUME NEW i \in 1..Len(v), v[i].kind = "auto",
                      \A j \in 1..Len(v) : j > i => v[j].kind # "auto"
               PROVE  v[i].on = b
    BY DEF LastNews
  <2>1. \A j \in 1..Len(w) : j > i + 1 => w[j].kind # "auto"
    <3> TAKE j \in 1..Len(w)
    <3> HAVE j > i + 1
    <3>1. j - 1 \in 1..Len(v) /\ j - 1 > i /\ v[j - 1] = w[j]
      BY <1>1
    <3> QED BY <3>1
  <2>2. i + 1 \in 1..Len(w) /\ w[i + 1] = v[i]
    BY <1>1
  <2> QED BY <2>1, <2>2 DEF LastNews
<1>3. \A j \in 1..Len(w) : j > 1 => j - 1 \in 1..Len(v) /\ w[j] = v[j - 1]
  BY <1>1
<1>4. NoNews(v) => \A j \in 1..Len(w) : j > 1 => w[j].kind # "auto"
  BY <1>3 DEF NoNews
<1>5. 1 \in 1..Len(w)
  BY <1>1
<1>6. NoNews(v) /\ w[1].kind = "auto" => w[1].on = b
  BY <1>4, <1>5 DEF LastNews
<1>7. NoNews(v) /\ w[1].kind # "auto" => NoNews(w)
  BY <1>4, <1>5 DEF NoNews
<1> QED BY <1>1, <1>2, <1>6, <1>7 DEF v

LEMMA EmptyWire == NoNews(<<>>) /\ \A b : LastNews(<<>>, b)
  BY DEF NoNews, LastNews

----------------------------------------------------------------------------
LEMMA InitSwitch == Init => SwitchInv
<1> SUFFICES ASSUME Init PROVE SwitchInv
  OBVIOUS
<1>1. Inv
  BY InitInv DEF Init
<1>2. PageTypes
  BY DEF Init, PageTypes
<1> QED BY <1>1, <1>2, EmptyWire DEF Init, SwitchInv, Unheard, Confirmed

\* The gateway moves its switch for nobody but toggleAutoCreate.
LEMMA GatewayStepKeepsSwitch ==
  ASSUME Inv, GatewayStep
  PROVE  Inv' /\ status'.auto = status.auto
<1>1. Inv'
  BY NextInv DEF GatewayNext
<1>2. status \in StatusType
  BY DEF Inv, GatewayTypeOK
<1>3. ASSUME NEW u, NEW p, NEW s \in StatusType, NEW f, ConnectTo(u, p, s, f)
      PROVE  status'.auto = s.auto
  BY <1>3 DEF ConnectTo, StatusType
<1>4. ASSUME NEW u \in Urls \cup {None}, NEW p \in Users \cup {None}, SetConfig(u, p)
      PROVE  status'.auto = status.auto
  <2> DEFINE s == [status EXCEPT !.url = Given(u, @), !.user = Given(p, @)]
  <2>1. s \in StatusType /\ s.auto = status.auto
    BY <1>2 DEF StatusType, Given
  <2>2. ConnectTo(u, p, s, Saved(s)) \/ status' = s
    BY <1>4 DEF SetConfig
  <2> HIDE DEF s
  <2> QED BY <1>3, <2>1, <2>2
<1>5. ASSUME NEW u \in Urls, NEW p \in Users \cup {None}, Connect(u, p)
      PROVE  status'.auto = status.auto
  BY <1>2, <1>3, <1>5 DEF Connect
<1>6. Disconnect => status'.auto = status.auto
  BY <1>2 DEF Disconnect, StatusType
<1>7. BootTimerFires \/ Tick => status'.auto = status.auto
  BY DEF BootTimerFires, Tick
<1>8. ASSUME NEW c \in Clients, Connects(c) \/ Drops(c) \/ Closes(c)
      PROVE  status'.auto = status.auto
  BY <1>2, <1>8 DEF Connects, Drops, Closes, StatusType
<1> QED BY <1>1, <1>4, <1>5, <1>6, <1>7, <1>8 DEF GatewayStep

\* Steps that leave the pages and the undelivered POSTs of switches alone.
LEMMA QuietSteps ==
  ASSUME SwitchInv, Inv', status'.auto = status.auto,
         UNCHANGED <<ws, ref, trust, wire>>, box' \in [Tabs -> BOOLEAN],
         toggles' \subseteq toggles,
         \A r \in toggles : ~r.done => r \in toggles'
  PROVE  SwitchInv'
<1>1. PageTypes'
  BY DEF SwitchInv, PageTypes
<1>2. Unheard' /\ \A t \in Tabs : LastNews(wire'[t], status'.auto)
  BY DEF SwitchInv, Unheard
<1>3. Confirmed'
  BY DEF SwitchInv, Confirmed
<1> QED BY <1>1, <1>2, <1>3 DEF SwitchInv

\* There is one open client at most, so every page is told once.
LEMMA PublishedOnce ==
  ASSUME SwitchInv, NEW m \in Messages, Publish(m)
  PROVE  /\ \E c \in Clients : Openers = {c}
         /\ \A t \in Tabs : wire'[t] = IF ws[t] = "live" THEN wire[t] \o <<OrderEvent(m)>>
                                                         ELSE wire[t]
<1>1. PICK c \in Clients : Openers = {c}
  BY DEF Publish, Openers, SwitchInv, Inv, OneLiveClient, Alive
<1>2. Cardinality(Openers) = 1
  BY <1>1, FS_Singleton
<1>3. [i \in 1..Cardinality(Openers) |-> OrderEvent(m)] = <<OrderEvent(m)>>
  BY <1>2
<1> QED BY <1>1, <1>3 DEF Publish, Broadcast, Live

LEMMA PublishSwitch ==
  ASSUME SwitchInv, NEW m \in Messages, Publish(m)
  PROVE  SwitchInv'
<1>1. Inv' /\ status' = status /\ UNCHANGED <<ws, ref, box, trust, toggles>>
  <2>1. UNCHANGED gatewayVars
    BY DEF Publish
  <2>2. Inv'
    BY <2>1, NextInv DEF SwitchInv
  <2> QED BY <2>1, <2>2 DEF Publish, gatewayVars, requestVars
<1>3. \A t \in Tabs : wire'[t] = IF ws[t] = "live" THEN wire[t] \o <<OrderEvent(m)>>
                                                 ELSE wire[t]
  BY PublishedOnce
<1>4. \A t \in Tabs : /\ wire'[t] \in Seq(EventType)
                      /\ LastNews(wire'[t], status.auto)
                      /\ NoNews(wire'[t]) => NoNews(wire[t])
  BY <1>3, OrderAtEnd DEF SwitchInv, PageTypes
<1>5. wire' \in [Tabs -> Seq(EventType)]
  BY <1>4 DEF Publish, Broadcast
<1>6. PageTypes'
  BY <1>1, <1>5 DEF SwitchInv, PageTypes
<1>7. Unheard'
  BY <1>1, <1>3 DEF SwitchInv, Unheard
<1>8. Confirmed'
  BY <1>1, <1>4 DEF SwitchInv, Confirmed
<1> QED BY <1>1, <1>4, <1>6, <1>7, <1>8 DEF SwitchInv

\* A POST that arrives is news for every page or changes nothing; then the
\* page it came from has the gateway's value, or another of its own coming.
LEMMA ToggleArrivesSwitch == SwitchInv /\ ToggleArrives => SwitchInv'
<1> SUFFICES ASSUME SwitchInv, ToggleArrives PROVE SwitchInv'
  OBVIOUS
<1>1. PICK r \in toggles :
        /\ ~r.done
        /\ SwitchTold(r.on)
        /\ toggles' = (toggles \ {r}) \cup {[r EXCEPT !.done = TRUE]}
        /\ trust' = [trust EXCEPT ![r.tab] =
                       IF ws[r.tab] = "live" /\ r.on = ref[r.tab] THEN "synced" ELSE @]
        /\ UNCHANGED <<ws, ref, box>>
  BY DEF ToggleArrives
<1>2. r \in [tab : Tabs, on : BOOLEAN, n : Nat, done : BOOLEAN]
  BY DEF SwitchInv, PageTypes
<1>3. Inv' /\ status'.auto = r.on
  <2>1. SetAutoCreate(r.on)
    BY <1>1 DEF SwitchTold
  <2>2. Inv'
    BY <1>2, <2>1, NextInv DEF SwitchInv, GatewayNext
  <2> QED BY <2>1, <2>2 DEF SetAutoCreate, SwitchInv, Inv, GatewayTypeOK, StatusType
<1>4. toggles' \subseteq [tab : Tabs, on : BOOLEAN, n : Nat, done : BOOLEAN]
  BY <1>1, <1>2 DEF SwitchInv, PageTypes
<1>5. trust' \in [Tabs -> {"fresh", "synced", "failed"}]
  BY <1>1, <1>2 DEF SwitchInv, PageTypes
<1>6. \A t \in Tabs : trust'[t] = IF t = r.tab /\ ws[t] = "live" /\ r.on = ref[t]
                                  THEN "synced" ELSE trust[t]
  BY <1>1 DEF SwitchInv, PageTypes
<1>7. CASE r.on # status.auto
  <2>1. \A t \in Tabs : wire'[t] = IF ws[t] = "live" THEN wire[t] \o <<AutoEvent(r.on)>>
                                                   ELSE wire[t]
    BY <1>1, <1>7 DEF SwitchTold, Broadcast, Live
  <2>2. \A t \in Tabs : ws[t] # "live" => wire'[t] = <<>>
    BY <2>1 DEF SwitchInv, Unheard
  <2>3. \A t \in Tabs : /\ wire'[t] \in Seq(EventType)
                        /\ LastNews(wire'[t], status'.auto)
                        /\ ws[t] = "live" => ~NoNews(wire'[t])
    <3> TAKE t \in Tabs
    <3>1. CASE ws[t] = "live"
      <4>1. wire[t] \in Seq(EventType) /\ r.on \in BOOLEAN
        BY <1>2 DEF SwitchInv, PageTypes
      <4> QED BY <1>3, <2>1, <3>1, <4>1, AutoAtEnd
    <3>2. CASE ws[t] # "live"
      <4>1. wire'[t] = <<>>
        BY <2>2, <3>2
      <4> QED BY <3>2, <4>1, EmptyWire
    <3> QED BY <3>1, <3>2
  <2>4. PageTypes'
    <3>1. wire' \in [Tabs -> Seq(EventType)]
      BY <1>1, <1>7, <2>3 DEF SwitchTold, Broadcast
    <3> QED BY <1>1, <1>4, <1>5, <3>1 DEF SwitchInv, PageTypes
  <2>5. Unheard'
    BY <1>1, <1>6, <2>2 DEF SwitchInv, Unheard
  <2>6. Confirmed'
    BY <1>1, <2>3 DEF Confirmed
  <2> QED BY <1>3, <2>3, <2>4, <2>5, <2>6 DEF SwitchInv
<1>8. CASE r.on = status.auto
  <2>1. wire' = wire
    BY <1>1, <1>8 DEF SwitchTold
  <2>2. PageTypes' /\ \A t \in Tabs : LastNews(wire'[t], status'.auto)
    BY <1>1, <1>3, <1>4, <1>5, <1>8, <2>1 DEF SwitchInv, PageTypes
  <2>3. Unheard'
    BY <1>1, <1>6, <2>1 DEF SwitchInv, Unheard
  <2>4. Confirmed'
    <3> SUFFICES ASSUME NEW t \in Tabs, ws[t] = "live", trust'[t] = "synced", NoNews(wire[t]),
                        ref[t] # status.auto
                 PROVE  \E q \in toggles' : q.tab = t /\ ~q.done /\ q.on = ref[t]
      BY <1>1, <1>3, <1>8, <2>1 DEF Confirmed
    <3>1. trust[t] = "synced"
      BY <1>6, <1>8
    <3>2. PICK q \in toggles : q.tab = t /\ ~q.done /\ q.on = ref[t]
      BY <3>1 DEF SwitchInv, Confirmed
    <3>3. q # r
      BY <1>8, <3>2
    <3> QED BY <1>1, <3>2, <3>3
  <2> QED BY <1>3, <2>2, <2>3, <2>4 DEF SwitchInv
<1> QED BY <1>7, <1>8

\* A page whose POST is lost is not trusted until it hears from the gateway.
LEMMA ToggleFailsSwitch == SwitchInv /\ ToggleFails => SwitchInv'
<1> SUFFICES ASSUME SwitchInv, ToggleFails PROVE SwitchInv'
  OBVIOUS
<1>1. PICK r \in toggles :
        /\ toggles' = toggles \ {r}
        /\ trust' = [trust EXCEPT ![r.tab] = "failed"]
        /\ UNCHANGED <<gatewayVars, ws, ref, box, wire>>
  BY DEF ToggleFails
<1>2. Inv' /\ status' = status
  BY <1>1, NextInv DEF SwitchInv, gatewayVars
<1>3. PageTypes' /\ Unheard' /\ \A t \in Tabs : LastNews(wire'[t], status'.auto)
  BY <1>1, <1>2 DEF SwitchInv, PageTypes, Unheard
<1>4. Confirmed'
  <2> SUFFICES ASSUME NEW t \in Tabs, ws[t] = "live", trust'[t] = "synced", NoNews(wire[t])
               PROVE  \/ ref[t] = status.auto
                      \/ \E q \in toggles' : q.tab = t /\ ~q.done /\ q.on = ref[t]
    BY <1>1, <1>2 DEF Confirmed
  <2>1. t # r.tab /\ trust[t] = "synced"
    BY <1>1 DEF SwitchInv, PageTypes
  <2> QED BY <1>1, <2>1 DEF SwitchInv, Confirmed
<1> QED BY <1>2, <1>3, <1>4 DEF SwitchInv

\* Pages that open and close, and those that change their mind.
LEMMA SocketSwitch ==
  ASSUME SwitchInv, NEW t \in Tabs, PageOpens(t) \/ SocketOpens(t) \/ SocketLost(t)
  PROVE  SwitchInv'
<1>1. /\ UNCHANGED <<gatewayVars, ref, box, trust, toggles>>
      /\ ws' = [ws EXCEPT ![t] = ws'[t]]
      /\ ws'[t] \in {"connecting", "live", "deaf"}
      /\ wire' \in {wire, [wire EXCEPT ![t] = <<>>]}
  BY DEF PageOpens, SocketOpens, SocketLost, requestVars, SwitchInv, PageTypes
<1>2. Inv' /\ status' = status
  BY <1>1, NextInv DEF SwitchInv, gatewayVars
<1>3. \A s \in Tabs \ {t} : ws'[s] = ws[s] /\ wire'[s] = wire[s]
  BY <1>1 DEF SwitchInv, PageTypes
<1>4. wire' \in [Tabs -> Seq(EventType)] /\ wire'[t] = <<>>
  <2>1. wire' \in [Tabs -> Seq(EventType)]
    <3>1. <<>> \in Seq(EventType) /\ wire \in [Tabs -> Seq(EventType)]
      BY DEF SwitchInv, PageTypes
    <3>2. [wire EXCEPT ![t] = <<>>] \in [Tabs -> Seq(EventType)]
      BY <3>1
    <3> QED BY <1>1, <3>1, <3>2
  <2>2. PageOpens(t) \/ SocketOpens(t) => wire' = wire /\ ws[t] # "live"
    BY DEF PageOpens, SocketOpens
  <2>3. SocketLost(t) => wire' = [wire EXCEPT ![t] = <<>>]
    BY DEF SocketLost
  <2>4. CASE SocketLost(t)
    BY <2>1, <2>3, <2>4 DEF SwitchInv, PageTypes
  <2>5. CASE PageOpens(t) \/ SocketOpens(t)
    BY <2>1, <2>2, <2>5 DEF SwitchInv, Unheard
  <2> QED BY <2>4, <2>5
<1>5. PageTypes'
  BY <1>1, <1>4 DEF SwitchInv, PageTypes
<1>6. ws'[t] # "deaf" => trust[t] # "synced"
  BY DEF SwitchInv, Unheard, PageTypes, PageOpens, SocketOpens, SocketLost
<1>7. Unheard'
  BY <1>1, <1>3, <1>4, <1>6 DEF SwitchInv, Unheard
<1>8. \A s \in Tabs : LastNews(wire'[s], status'.auto)
  BY <1>2, <1>3, <1>4, EmptyWire DEF SwitchInv
<1>9. Confirmed'
  BY <1>1, <1>2, <1>3, <1>6 DEF SwitchInv, Confirmed
<1> QED BY <1>2, <1>5, <1>7, <1>8, <1>9 DEF SwitchInv

LEMMA ToggleSwitch ==
  ASSUME SwitchInv, NEW t \in Tabs, Toggle(t)
  PROVE  SwitchInv'
<1>1. PICK n \in 0..MaxUses :
        /\ ref' = [ref EXCEPT ![t] = ~box[t]]
        /\ toggles' = toggles \cup {[tab |-> t, on |-> ~box[t], n |-> n, done |-> FALSE]}
        /\ UNCHANGED <<gatewayVars, ws, box, trust, wire>>
  BY DEF Toggle
<1>2. Inv' /\ status' = status
  BY <1>1, NextInv DEF SwitchInv, gatewayVars
<1>3. PageTypes'
  <2>0. n \in Nat
    BY WebshopAssumption
  <2>1. (~box[t]) \in BOOLEAN
    BY Zenon
  <2>2. [tab |-> t, on |-> ~box[t], n |-> n, done |-> FALSE]
          \in [tab : Tabs, on : BOOLEAN, n : Nat, done : BOOLEAN]
    BY <2>0, <2>1
  <2> QED BY <1>1, <2>1, <2>2 DEF SwitchInv, PageTypes
<1>4. Unheard' /\ \A s \in Tabs : LastNews(wire'[s], status'.auto)
  BY <1>1, <1>2 DEF SwitchInv, Unheard
<1>5. Confirmed'
  <2>1. ASSUME NEW s \in Tabs \ {t}, ws[s] = "live", trust[s] = "synced", NoNews(wire[s])
        PROVE  \/ ref'[s] = status.auto
               \/ \E q \in toggles' : q.tab = s /\ ~q.done /\ q.on = ref'[s]
    <3>1. ref'[s] = ref[s] /\ toggles \subseteq toggles'
      BY <1>1 DEF SwitchInv, PageTypes
    <3> QED BY <2>1, <3>1 DEF SwitchInv, Confirmed
  <2>2. \E q \in toggles' : q.tab = t /\ ~q.done /\ q.on = ref'[t]
    <3> DEFINE q == [tab |-> t, on |-> ~box[t], n |-> n, done |-> FALSE]
    <3>1. ref'[t] = ~box[t]
      BY <1>1 DEF SwitchInv, PageTypes
    <3>2. q \in toggles' /\ q.tab = t /\ ~q.done /\ q.on = ~box[t]
      BY <1>1
    <3> QED BY <3>1, <3>2
  <2> QED BY <1>1, <1>2, <2>1, <2>2 DEF Confirmed
<1> QED BY <1>2, <1>3, <1>4, <1>5 DEF SwitchInv

\* The last news a page hears is the gateway's switch.
LEMMA HearsSwitch ==
  ASSUME SwitchInv, NEW t \in Tabs, HearsAuto(t) \/ HearsOrder(t)
  PROVE  SwitchInv'
<1>1. /\ wire[t] # <<>>
      /\ wire' = [wire EXCEPT ![t] = Tail(@)]
      /\ UNCHANGED <<gatewayVars, ws, toggles>>
  BY DEF HearsAuto, HearsOrder, requestVars
<1>2. Inv' /\ status' = status
  BY <1>1, NextInv DEF SwitchInv, gatewayVars
<1>3. wire[t] \in Seq(EventType) /\ LastNews(wire[t], status.auto)
      /\ ws[t] = "live"
  BY <1>1 DEF SwitchInv, PageTypes, Unheard
<1>4. /\ Tail(wire[t]) \in Seq(EventType)
      /\ LastNews(Tail(wire[t]), status.auto)
      /\ NoNews(Tail(wire[t])) /\ Head(wire[t]).kind = "auto" => Head(wire[t]).on = status.auto
      /\ NoNews(Tail(wire[t])) /\ Head(wire[t]).kind # "auto" => NoNews(wire[t])
  BY <1>1, <1>3, HeadTaken
<1>5. /\ wire' \in [Tabs -> Seq(EventType)]
      /\ wire'[t] = Tail(wire[t])
      /\ \A s \in Tabs \ {t} : wire'[s] = wire[s]
  BY <1>1, <1>4 DEF SwitchInv, PageTypes
<1>6. \A s \in Tabs : LastNews(wire'[s], status'.auto)
  BY <1>2, <1>4, <1>5 DEF SwitchInv
<1>7. CASE HearsAuto(t)
  <2>1. /\ Head(wire[t]).kind = "auto"
        /\ ref' = [ref EXCEPT ![t] = Head(wire[t]).on]
        /\ box' = [box EXCEPT ![t] = Head(wire[t]).on]
        /\ trust' = [trust EXCEPT ![t] = "synced"]
    BY <1>7 DEF HearsAuto
  <2>2. Head(wire[t]).on \in BOOLEAN
    <3>1. Head(wire[t]) \in EventType
      BY <1>1, <1>3, HeadTailProperties
    <3> QED BY <2>1, <3>1 DEF EventType
  <2>3. PageTypes'
    BY <1>1, <1>5, <2>1, <2>2 DEF SwitchInv, PageTypes
  <2>4. Unheard'
    BY <1>1, <1>3, <1>5, <2>1 DEF SwitchInv, Unheard, PageTypes
  <2>5. \A s \in Tabs \ {t} : ref'[s] = ref[s] /\ trust'[s] = trust[s]
    BY <2>1 DEF SwitchInv, PageTypes
  <2>6. NoNews(wire'[t]) => ref'[t] = status.auto
    BY <1>4, <1>5, <2>1 DEF SwitchInv, PageTypes
  <2>7. Confirmed'
    BY <1>1, <1>2, <1>5, <2>5, <2>6 DEF SwitchInv, Confirmed
  <2> QED BY <1>2, <1>6, <2>3, <2>4, <2>7 DEF SwitchInv
<1>8. CASE HearsOrder(t)
  <2>1. Head(wire[t]).kind = "order" /\ UNCHANGED <<ref, box, trust>>
    BY <1>8 DEF HearsOrder
  <2>2. PageTypes'
    BY <1>1, <1>5, <2>1 DEF SwitchInv, PageTypes
  <2>3. Unheard'
    BY <1>1, <1>3, <1>5, <2>1 DEF SwitchInv, Unheard
  <2>4. NoNews(wire'[t]) => NoNews(wire[t])
    BY <1>4, <1>5, <2>1
  <2>5. Confirmed'
    BY <1>1, <1>2, <1>5, <2>1, <2>4 DEF SwitchInv, Confirmed
  <2> QED BY <1>2, <1>6, <2>2, <2>3, <2>5 DEF SwitchInv
<1> QED BY <1>7, <1>8

\* After a restart no page is connected to the gateway any more.
LEMMA RestartSwitch == SwitchInv /\ Restart => SwitchInv'
<1> SUFFICES ASSUME SwitchInv, Restart PROVE SwitchInv'
  OBVIOUS
<1>1. Inv'
  BY NextInv DEF Restart, SwitchInv, GatewayNext
<1>2. /\ ws' = [t \in Tabs |-> IF ws[t] = "none" THEN "none" ELSE "deaf"]
      /\ wire' = [t \in Tabs |-> <<>>]
      /\ toggles' \subseteq toggles
      /\ trust' = [t \in Tabs |->
           IF \E r \in toggles : r.tab = t /\ ~r.done THEN "failed" ELSE trust[t]]
      /\ UNCHANGED <<ref, box>>
  BY DEF Restart
<1>3. PageTypes'
  <2>1. ws' \in [Tabs -> {"none", "connecting", "live", "deaf"}]
    BY <1>2
  <2>2. trust' \in [Tabs -> {"fresh", "synced", "failed"}]
    BY <1>2 DEF SwitchInv, PageTypes
  <2>3. wire' \in [Tabs -> Seq(EventType)]
    BY <1>2
  <2> QED BY <1>2, <2>1, <2>2, <2>3 DEF SwitchInv, PageTypes
<1>4. Unheard'
  BY <1>2 DEF SwitchInv, Unheard
<1>5. \A t \in Tabs : LastNews(wire'[t], status'.auto)
  BY <1>2, EmptyWire
<1>6. Confirmed'
  BY <1>2 DEF Confirmed
<1> QED BY <1>1, <1>3, <1>4, <1>5, <1>6 DEF SwitchInv

----------------------------------------------------------------------------
LEMMA NextSwitch == SwitchInv /\ [Next]_vars => SwitchInv'
<1> SUFFICES ASSUME SwitchInv, [Next]_vars PROVE SwitchInv'
  OBVIOUS
<1>1. CASE GatewayStep /\ UNCHANGED <<messageVars, pageVars, requestVars>>
  <2>1. Inv' /\ status'.auto = status.auto
    BY <1>1, GatewayStepKeepsSwitch DEF SwitchInv
  <2> QED BY <1>1, <2>1, QuietSteps DEF pageVars, requestVars, SwitchInv, PageTypes
<1>2. CASE Restart
  BY <1>2, RestartSwitch
<1>3. CASE \E m \in Messages : Publish(m)
  BY <1>3, PublishSwitch
<1>4. CASE ToggleArrives \/ ToggleFails
  BY <1>4, ToggleArrivesSwitch, ToggleFailsSwitch
<1>5. CASE \/ CreateOrder \/ ToggleAnswered
           \/ ImportArrives \/ ImportFails \/ ImportAnswered
           \/ \E t \in Tabs : \E i \in 1..Len(pending[t]) : Click(t, i)
           \/ UNCHANGED vars
  <2>1. UNCHANGED gatewayVars /\ UNCHANGED <<ws, ref, trust, wire>>
    BY <1>5 DEF CreateOrder, ToggleAnswered, ImportArrives, ImportFails, ImportAnswered, Click,
                vars, pageVars
  <2>2. Inv' /\ status' = status
    BY <2>1, NextInv DEF SwitchInv, gatewayVars
  <2>3. CASE ToggleAnswered
    <3>1. PICK r \in toggles : /\ r.done
                              /\ toggles' = toggles \ {r}
                              /\ box' \in {box, [box EXCEPT ![r.tab] = r.on]}
      BY <2>3 DEF ToggleAnswered
    <3>2. box' \in [Tabs -> BOOLEAN]
      BY <3>1 DEF SwitchInv, PageTypes
    <3> QED BY <2>1, <2>2, <3>1, <3>2, QuietSteps
  <2>4. CASE ~ToggleAnswered
    <3>1. toggles' = toggles /\ box' = box
      BY <1>5, <2>4 DEF CreateOrder, ImportArrives, ImportFails, ImportAnswered, Click,
                        vars, pageVars, requestVars
    <3> QED BY <2>1, <2>2, <3>1, QuietSteps DEF SwitchInv, PageTypes
  <2> QED BY <2>3, <2>4
<1>6. CASE \E t \in Tabs : PageOpens(t) \/ SocketOpens(t) \/ SocketLost(t)
  BY <1>6, SocketSwitch
<1>7. CASE \E t \in Tabs : HearsAuto(t) \/ HearsOrder(t)
  BY <1>7, HearsSwitch
<1>8. CASE \E t \in Tabs : Toggle(t)
  BY <1>8, ToggleSwitch
<1> QED BY <1>1, <1>2, <1>3, <1>4, <1>5, <1>6, <1>7, <1>8 DEF Next

\* A page that has heard all news and has no change of its own under way
\* imports exactly if the gateway creates orders, whatever number of pages
\* switch at once and in whatever order requests and news arrive.
THEOREM SwitchesAgree == Spec => []SyncedTabsAgree
<1>1. SwitchInv => SyncedTabsAgree
  <2> SUFFICES ASSUME SwitchInv, NEW t \in Tabs, Settled(t) PROVE ref[t] = status.auto
    BY DEF SyncedTabsAgree
  <2>1. DOMAIN wire[t] = 1..Len(wire[t])
    BY DEF SwitchInv, PageTypes
  <2>2. ws[t] = "live" /\ trust[t] = "synced" /\ NoNews(wire[t])
    BY <2>1 DEF Settled, NoNews
  <2> QED BY <2>2 DEF SwitchInv, Confirmed, Settled
<1> QED BY <1>1, InitSwitch, NextSwitch, PTL DEF Spec

\* Pages do not disturb the connection: what is proved of the gateway alone
\* holds with pages and messages around it.
THEOREM OneImporter == Spec => []OneLiveClient
<1>1. SwitchInv => OneLiveClient
  BY DEF SwitchInv, Inv
<1> QED BY <1>1, InitSwitch, NextSwitch, PTL DEF Spec

----------------------------------------------------------------------------
\* Lists and requests of the pages.

\* A set of numbers that is not empty has a least one.
LEMMA LeastNumber ==
  ASSUME NEW T, T \subseteq Nat, T # {}
  PROVE  \E n \in T : \A k \in T : n <= k
<1> DEFINE R == {ss \in Nat \X Nat : ss[1] < ss[2]}
<1>1. IsWellFoundedOn(R, Nat)
  BY NatLessThanWellFounded, Zenon DEF OpToRel
<1>2. PICK n \in T : \A k \in T : ~(<<k, n>> \in R)
  <2> HIDE DEF R
  <2> QED BY <1>1, WFMin
<1>3. \A k \in T : <<k, n>> \in R <=> k < n
  OBVIOUS
<1>4. \A k \in T : ~(k < n) => n <= k
  OBVIOUS
<1> HIDE DEF R
<1> QED BY <1>2, <1>3, <1>4

\* f[i] is what the filter of the page keeps of the first i lines of l, as the
\* recursive function in Without defines it.
Keeps(f, l, m, n) ==
  f = [i \in 0..n |->
         IF i = 0 THEN <<>>
         ELSE IF l[i] = m THEN f[i - 1] ELSE Append(f[i - 1], l[i])]

\* The definition makes sense: a list that could not be filtered would have a
\* shortest one.
LEMMA KeepsExists ==
  ASSUME NEW l, NEW m, NEW n \in Nat
  PROVE  \E f : Keeps(f, l, m, n)
<1> DEFINE Bad == {k \in Nat : ~\E f : Keeps(f, l, m, k)}
<1>1. SUFFICES ASSUME Bad # {} PROVE FALSE
  OBVIOUS
<1>2. PICK k \in Bad : \A j \in Bad : k <= j
  <2> HIDE DEF Bad
  <2>1. Bad \subseteq Nat BY DEF Bad
  <2> QED BY <1>1, <2>1, LeastNumber
<1>3. CASE k = 0
  <2>1. Keeps([i \in 0..0 |-> <<>>], l, m, 0)
    BY DEF Keeps
  <2> QED BY <1>3, <2>1
<1>4. CASE k # 0
  <2>1. k - 1 \in Nat /\ k - 1 \notin Bad
    BY <1>2, <1>4
  <2>2. PICK f : Keeps(f, l, m, k - 1)
    BY <2>1
  <2> DEFINE e == IF l[k] = m THEN f[k - 1] ELSE Append(f[k - 1], l[k])
             g == [i \in 0..k |-> IF i = k THEN e ELSE f[i]]
  <2>3. Keeps(g, l, m, k)
    <3>1. \A i \in 0..(k - 1) :
            f[i] = IF i = 0 THEN <<>>
                   ELSE IF l[i] = m THEN f[i - 1] ELSE Append(f[i - 1], l[i])
      BY <2>1, <2>2 DEF Keeps
    <3> HIDE DEF e
    <3>2. /\ g[k] = e
          /\ \A i \in 0..(k - 1) : g[i] = f[i]
          /\ \A i \in 1..k : g[i - 1] = f[i - 1]
      BY <2>1
    <3>3. ASSUME NEW i \in 0..k
          PROVE  g[i] = IF i = 0 THEN <<>>
                   ELSE IF l[i] = m THEN g[i - 1] ELSE Append(g[i - 1], l[i])
      <4>1. CASE i = k
        BY <1>4, <2>1, <3>2, <4>1 DEF e
      <4>2. CASE i # k
        <5>1. i \in 0..(k - 1) /\ (i # 0 => i \in 1..k)
          BY <2>1, <4>2
        <5> HIDE DEF g
        <5> QED BY <3>1, <3>2, <5>1
      <4> QED BY <4>1, <4>2
    <3>4. g = [i \in 0..k |-> g[i]]
      OBVIOUS
    <3> HIDE DEF g
    <3> QED BY <3>3, <3>4 DEF Keeps
  <2> QED BY <1>2, <2>1, <2>3
<1> QED BY <1>3, <1>4

\* Filtering a list leaves a list, by the same argument.
LEMMA WithoutType ==
  ASSUME NEW S, NEW l \in Seq(S), NEW m
  PROVE  Without(l, m) \in Seq(S)
<1> DEFINE n == Len(l)
           f == CHOOSE g : Keeps(g, l, m, n)
<1>1. n \in Nat
  OBVIOUS
<1>2. Keeps(f, l, m, n)
  <2> HIDE DEF n
  <2> QED BY <1>1, KeepsExists
<1>3. Without(l, m) = f[n]
  BY DEF Without, Keeps
<1> HIDE DEF f
<1> DEFINE Bad == {i \in 0..n : f[i] \notin Seq(S)}
<1>4. SUFFICES ASSUME Bad # {} PROVE FALSE
  BY <1>1, <1>3
<1>5. PICK i \in Bad : \A j \in Bad : i <= j
  <2>1. Bad \subseteq Nat
    BY <1>1
  <2> HIDE DEF Bad
  <2> QED BY <1>4, <2>1, LeastNumber
<1>6. f[i] = IF i = 0 THEN <<>>
             ELSE IF l[i] = m THEN f[i - 1] ELSE Append(f[i - 1], l[i])
  BY <1>2 DEF Keeps
<1>7. CASE i = 0
  <2>1. f[i] = <<>>
    BY <1>6, <1>7
  <2>2. <<>> \in Seq(S)
    OBVIOUS
  <2> QED BY <1>5, <2>1, <2>2
<1>8. CASE i # 0
  <2>1. i - 1 \in 0..n /\ i \in 1..n /\ ~(i <= i - 1)
    BY <1>1, <1>8
  <2>2. f[i - 1] \in Seq(S)
    BY <1>5, <2>1
  <2>3. l[i] \in S
    BY <2>1
  <2>4. Append(f[i - 1], l[i]) \in Seq(S)
    BY <2>2, <2>3
  <2> QED BY <1>6, <1>8, <2>2, <2>4
<1> QED BY <1>7, <1>8

\* Taking a line out leaves a list, whatever request it is taken out for.
LEMMA DroppedType ==
  ASSUME NEW l \in Seq(Messages), NEW r, r.at \in Nat
  PROVE  Dropped(l, r) \in Seq(Messages)
<1>1. CASE r.at = 0
  BY <1>1, WithoutType DEF Dropped
<1>2. CASE r.at # 0 /\ r.at \in DOMAIN l
  <2>1. r.at \in 1..Len(l)
    BY <1>2
  <2>2. SubSeq(l, 1, r.at - 1) \in Seq(Messages)
    BY <2>1
  <2>3. SubSeq(l, r.at + 1, Len(l)) \in Seq(Messages)
    BY <2>1
  <2>4. SubSeq(l, 1, r.at - 1) \o SubSeq(l, r.at + 1, Len(l)) \in Seq(Messages)
    BY <2>2, <2>3
  <2> QED BY <1>2, <2>4 DEF Dropped
<1>3. CASE r.at # 0 /\ r.at \notin DOMAIN l
  BY <1>3 DEF Dropped
<1> QED BY <1>1, <1>2, <1>3

\* What TypeOK says beyond PageTypes.
RequestTypes ==
  /\ decision \in [Messages -> {"none", "skipped", "taken", "waiting"}]
  /\ creating \subseteq Clients \X Messages
  /\ orders \in [Messages -> Nat]
  /\ pending \in [Tabs -> Seq(Messages)]
  /\ imports \subseteq [tab : Tabs, msg : Messages, at : Nat, n : Nat, done : BOOLEAN]
  /\ clicked \in [Messages -> Nat]
  /\ uses \in 0..MaxUses

LEMMA TypesSplit == TypeOK <=> PageTypes /\ RequestTypes
  BY DEF TypeOK, PageTypes, RequestTypes

LEMMA InitRequestTypes == Init => RequestTypes
  BY WebshopAssumption DEF Init, RequestTypes

LEMMA MessageTypes ==
  ASSUME RequestTypes, (\E m \in Messages : Publish(m)) \/ CreateOrder
  PROVE  RequestTypes'
<1>1. ASSUME NEW m \in Messages, Publish(m) PROVE RequestTypes'
  <2>1. Decided(m) \in {"skipped", "taken", "waiting"}
    BY DEF Decided
  <2>2. creating' \subseteq Clients \X Messages
    BY <1>1 DEF Publish, RequestTypes, Openers
  <2> QED BY <1>1, <2>1, <2>2 DEF Publish, RequestTypes, requestVars
<1>2. ASSUME CreateOrder PROVE RequestTypes'
  <2>1. PICK h \in creating :
          /\ creating' = creating \ {h}
          /\ Created(h[2]) \/ UNCHANGED orders
          /\ UNCHANGED <<gatewayVars, decision, pageVars, requestVars>>
    BY <1>2 DEF CreateOrder
  <2> DEFINE m == h[2]
  <2>2. m \in Messages
    BY DEF RequestTypes
  <2>3. Created(m) \/ UNCHANGED orders
    BY <2>1
  <2> HIDE DEF m
  <2>4. orders' \in [Messages -> Nat]
    BY <2>2, <2>3 DEF Created, RequestTypes
  <2> QED BY <2>1, <2>4 DEF RequestTypes, pageVars, requestVars
<1> QED BY <1>1, <1>2

LEMMA ImportTypes ==
  ASSUME RequestTypes, ImportArrives \/ ImportFails \/ ImportAnswered
  PROVE  RequestTypes'
<1>1. ASSUME ImportArrives PROVE RequestTypes'
  <2>1. PICK r \in imports :
          /\ Created(r.msg)
          /\ imports' = (imports \ {r}) \cup {[r EXCEPT !.done = TRUE]}
          /\ UNCHANGED <<gatewayVars, decision, creating, pageVars, toggles, clicked, uses>>
    BY <1>1 DEF ImportArrives
  <2>2. orders' \in [Messages -> Nat]
    BY <2>1 DEF Created, RequestTypes
  <2>3. imports' \subseteq [tab : Tabs, msg : Messages, at : Nat, n : Nat, done : BOOLEAN]
    <3>1. r \in [tab : Tabs, msg : Messages, at : Nat, n : Nat, done : BOOLEAN]
      BY DEF RequestTypes
    <3>2. [r EXCEPT !.done = TRUE] \in
            [tab : Tabs, msg : Messages, at : Nat, n : Nat, done : BOOLEAN]
      BY <3>1
    <3> QED BY <2>1, <3>2 DEF RequestTypes
  <2> QED BY <2>1, <2>2, <2>3 DEF RequestTypes, pageVars
<1>2. ASSUME ImportFails PROVE RequestTypes'
  BY <1>2 DEF ImportFails, RequestTypes, messageVars, pageVars
<1>3. ASSUME ImportAnswered PROVE RequestTypes'
  <2>1. PICK r \in imports :
          /\ imports' = imports \ {r}
          /\ pending' \in {pending, [pending EXCEPT ![r.tab] = Dropped(@, r)]}
          /\ UNCHANGED <<gatewayVars, messageVars, ws, ref, box, trust, wire,
                         toggles, clicked, uses>>
    BY <1>3 DEF ImportAnswered
  <2>2. r.tab \in Tabs /\ r.at \in Nat
    BY DEF RequestTypes
  <2>3. Dropped(pending[r.tab], r) \in Seq(Messages)
    BY <2>2, DroppedType DEF RequestTypes
  <2>4. pending' \in [Tabs -> Seq(Messages)]
    BY <2>1, <2>2, <2>3 DEF RequestTypes
  <2> QED BY <2>1, <2>4 DEF RequestTypes, messageVars
<1> QED BY <1>1, <1>2, <1>3

LEMMA ToggleTypes ==
  ASSUME RequestTypes, ToggleArrives \/ ToggleFails \/ ToggleAnswered \/ \E t \in Tabs : Toggle(t)
  PROVE  RequestTypes'
<1>1. UNCHANGED <<messageVars, pending, imports, clicked>> /\ uses' \in 0..MaxUses
  BY WebshopAssumption
  DEF ToggleArrives, ToggleFails, ToggleAnswered, Toggle, Used, RequestTypes
<1> QED BY <1>1 DEF RequestTypes, messageVars

LEMMA PageTypesStep ==
  ASSUME RequestTypes, PageTypes, NEW t \in Tabs,
         \/ PageOpens(t) \/ SocketOpens(t) \/ SocketLost(t)
         \/ HearsAuto(t) \/ HearsOrder(t)
         \/ \E i \in 1..Len(pending[t]) : Click(t, i)
  PROVE  RequestTypes'
<1>1. ASSUME PageOpens(t) \/ SocketOpens(t) \/ SocketLost(t) \/ HearsAuto(t)
      PROVE  RequestTypes'
  BY <1>1 DEF PageOpens, SocketOpens, SocketLost, HearsAuto, RequestTypes, messageVars, requestVars
<1>2. ASSUME HearsOrder(t) PROVE RequestTypes'
  <2> DEFINE m == Head(wire[t]).msg
  <2>1. m \in Messages
    <3>1. Head(wire[t]) \in EventType
      BY <1>2, HeadTailProperties DEF PageTypes, HearsOrder
    <3> QED BY <1>2, <3>1 DEF HearsOrder, EventType
  <2>2. Request(t, m, 0, 0) \in
          [tab : Tabs, msg : Messages, at : Nat, n : Nat, done : BOOLEAN]
    <3> HIDE DEF m
    <3> QED BY <2>1 DEF Request
  <2>3. imports' \subseteq imports \cup {Request(t, m, 0, 0)}
    BY <1>2 DEF HearsOrder
  <2>4. pending' = [pending EXCEPT ![t] = Append(@, m)]
        /\ UNCHANGED <<messageVars, clicked, uses>>
    BY <1>2 DEF HearsOrder
  <2> HIDE DEF m
  <2>5. pending' \in [Tabs -> Seq(Messages)]
    BY <2>1, <2>4 DEF RequestTypes
  <2> QED BY <2>2, <2>3, <2>4, <2>5 DEF RequestTypes, messageVars
<1>3. ASSUME NEW i \in 1..Len(pending[t]), Click(t, i) PROVE RequestTypes'
  <2> DEFINE m == pending[t][i]
  <2>1. PICK n \in 0..MaxUses :
          /\ Used
          /\ imports' = imports \cup {Request(t, m, i, n)}
          /\ clicked' = [clicked EXCEPT ![m] = @ + 1]
          /\ UNCHANGED <<gatewayVars, messageVars, pageVars, toggles>>
    BY <1>3 DEF Click
  <2>2. m \in Messages /\ i \in Nat /\ n \in Nat
    BY WebshopAssumption DEF RequestTypes
  <2> HIDE DEF m
  <2>3. Request(t, m, i, n) \in
          [tab : Tabs, msg : Messages, at : Nat, n : Nat, done : BOOLEAN]
    BY <2>2 DEF Request
  <2>4. clicked' \in [Messages -> Nat] /\ uses' \in 0..MaxUses
    BY <2>1, <2>2, WebshopAssumption DEF RequestTypes, Used
  <2> QED BY <2>1, <2>3, <2>4 DEF RequestTypes, messageVars, pageVars
<1> QED BY <1>1, <1>2, <1>3

LEMMA NextRequestTypes == RequestTypes /\ PageTypes /\ [Next]_vars => RequestTypes'
<1> SUFFICES ASSUME RequestTypes, PageTypes, [Next]_vars PROVE RequestTypes'
  OBVIOUS
<1>1. CASE GatewayStep /\ UNCHANGED <<messageVars, pageVars, requestVars>>
  BY <1>1 DEF RequestTypes, messageVars, pageVars, requestVars
<1>2. CASE Restart
  BY <1>2 DEF Restart, RequestTypes
<1>3. CASE (\E m \in Messages : Publish(m)) \/ CreateOrder
  BY <1>3, MessageTypes
<1>4. CASE ToggleArrives \/ ToggleFails \/ ToggleAnswered \/ \E t \in Tabs : Toggle(t)
  BY <1>4, ToggleTypes
<1>5. CASE ImportArrives \/ ImportFails \/ ImportAnswered
  BY <1>5, ImportTypes
<1>6. CASE \E t \in Tabs :
             \/ PageOpens(t) \/ SocketOpens(t) \/ SocketLost(t)
             \/ HearsAuto(t) \/ HearsOrder(t)
             \/ \E i \in 1..Len(pending[t]) : Click(t, i)
  BY <1>6, PageTypesStep
<1>7. CASE UNCHANGED vars
  BY <1>7 DEF RequestTypes, vars, messageVars, pageVars, requestVars
<1> QED BY <1>1, <1>2, <1>3, <1>4, <1>5, <1>6, <1>7 DEF Next

\* Events, lists and requests of the pages keep their types, the list after
\* any answer included.
THEOREM WebshopTypeCorrect == Spec => []TypeOK
<1>1. SwitchInv /\ RequestTypes => TypeOK
  BY TypesSplit DEF SwitchInv
<1>2. SwitchInv => PageTypes
  BY DEF SwitchInv
<1> QED BY <1>1, <1>2, InitSwitch, NextSwitch, InitRequestTypes, NextRequestTypes, PTL DEF Spec

----------------------------------------------------------------------------
\* No message is replayed.

IsOrderOf(e, m) == e.kind = "order" /\ e.msg = m

\* Message m is still on its way to the page, and no message twice.
Coming(w, m) == \E i \in 1..Len(w) : IsOrderOf(w[i], m)
OnceEach(w) ==
  \A i, j \in 1..Len(w) : w[i].kind = "order" /\ IsOrderOf(w[j], w[i].msg) => i = j

\* Page t has sent an import of its own for m that the backend has not taken.
Asks(t, m) == \E r \in imports : r.tab = t /\ r.msg = m /\ r.at = 0 /\ ~r.done

\* The orders that may still come of message m: one of the gateway, one of
\* each page of its own accord, one of each click under way.
Due(m) == IF decision[m] = "none" \/ \E h \in creating : h[2] = m THEN 1 ELSE 0
Owing(m) == {t \in Tabs : decision[m] = "none" \/ Coming(wire[t], m) \/ Asks(t, m)}
Clicks(m) == {r \in imports : r.msg = m /\ r.at # 0 /\ ~r.done}

Budget(m) ==
  orders[m] + Due(m) + Cardinality(Owing(m)) + Cardinality(Clicks(m))
    <= 1 + Cardinality(Tabs) + clicked[m]

\* One handler at most creates an order, for a message that was published.
OneHandler ==
  /\ \A h \in creating : decision[h[2]] # "none"
  /\ \A h, g \in creating : h[2] = g[2] => h = g

\* A page hears of a message once, after it was published,
OneEvent ==
  \A t \in Tabs :
    /\ OnceEach(wire[t])
    /\ \A m \in Messages : Coming(wire[t], m) => decision[m] # "none"

\* and asks for it once of its own accord, after it has heard of it.
OneImport ==
  \A r \in imports : r.at = 0 /\ ~r.done =>
    /\ r.n = 0
    /\ decision[r.msg] # "none"
    /\ ~Coming(wire[r.tab], r.msg)

ReplayInv ==
  /\ SwitchInv
  /\ RequestTypes
  /\ IsFiniteSet(imports)
  /\ OneHandler
  /\ OneEvent
  /\ OneImport
  /\ \A m \in Messages : Budget(m)

LEMMA EmptyComing == OnceEach(<<>>) /\ \A m : ~Coming(<<>>, m)
  BY DEF OnceEach, Coming

\* What taking an event off a wire, or adding one, does to what is coming.
LEMMA TailComing ==
  ASSUME NEW w \in Seq(EventType), w # <<>>, OnceEach(w)
  PROVE  /\ OnceEach(Tail(w))
         /\ \A m : Coming(Tail(w), m) => Coming(w, m)
         /\ Head(w).kind = "order" =>
              Coming(w, Head(w).msg) /\ ~Coming(Tail(w), Head(w).msg)
<1> DEFINE v == Tail(w)
<1>1. /\ Len(w) = Len(v) + 1 /\ Len(v) \in Nat
      /\ \A i \in 1..Len(v) : v[i] = w[i + 1]
      /\ Head(w) = w[1]
  BY HeadTailProperties
<1> HIDE DEF v
<1>2. \A i \in 1..Len(v) : i + 1 \in 1..Len(w) /\ i + 1 # 1 /\ v[i] = w[i + 1]
  BY <1>1
<1>3. \A i, j \in 1..Len(v) : i + 1 = j + 1 => i = j
  BY <1>1
<1>4. OnceEach(v)
  BY <1>2, <1>3 DEF OnceEach
<1>5. \A m : Coming(v, m) => Coming(w, m)
  BY <1>2 DEF Coming
<1>6. 1 \in 1..Len(w)
  BY <1>1
<1>7. ASSUME w[1].kind = "order"
      PROVE  Coming(w, w[1].msg) /\ ~Coming(v, w[1].msg)
  <2>1. Coming(w, w[1].msg)
    BY <1>6, <1>7 DEF Coming, IsOrderOf
  <2>2. ASSUME NEW i \in 1..Len(v), IsOrderOf(v[i], w[1].msg) PROVE FALSE
    BY <1>2, <1>6, <1>7, <2>2 DEF OnceEach
  <2> QED BY <2>1, <2>2 DEF Coming
<1> QED BY <1>1, <1>4, <1>5, <1>7 DEF v

LEMMA AutoComing ==
  ASSUME NEW w \in Seq(EventType), NEW b, OnceEach(w)
  PROVE  /\ OnceEach(w \o <<AutoEvent(b)>>)
         /\ \A m : Coming(w \o <<AutoEvent(b)>>, m) => Coming(w, m)
<1> DEFINE e == AutoEvent(b)
           v == w \o <<e>>
<1>1. e.kind = "auto"
  BY DEF AutoEvent
<1> HIDE DEF e
<1>2. /\ Len(v) = Len(w) + 1 /\ Len(w) \in Nat
      /\ \A i \in 1..Len(w) : v[i] = w[i]
      /\ v[Len(w) + 1] = e
  OBVIOUS
<1> HIDE DEF v
<1>3. \A i \in 1..Len(v) : v[i].kind = "order" => i \in 1..Len(w) /\ v[i] = w[i]
  BY <1>1, <1>2
<1>4. OnceEach(v) /\ \A m : Coming(v, m) => Coming(w, m)
  BY <1>3 DEF OnceEach, Coming, IsOrderOf
<1> QED BY <1>4 DEF v, e

LEMMA OrderComing ==
  ASSUME NEW w \in Seq(EventType), NEW m, OnceEach(w), ~Coming(w, m)
  PROVE  /\ OnceEach(w \o <<OrderEvent(m)>>)
         /\ \A k : Coming(w \o <<OrderEvent(m)>>, k) => Coming(w, k) \/ k = m
<1> DEFINE e == OrderEvent(m)
           v == w \o <<e>>
<1>1. e.kind = "order" /\ e.msg = m
  BY DEF OrderEvent
<1> HIDE DEF e
<1>2. /\ Len(v) = Len(w) + 1 /\ Len(w) \in Nat
      /\ \A i \in 1..Len(w) : v[i] = w[i]
      /\ v[Len(w) + 1] = e
  OBVIOUS
<1> HIDE DEF v
<1>3. \A i \in 1..Len(v) : \/ i \in 1..Len(w) /\ v[i] = w[i]
                           \/ i = Len(w) + 1 /\ v[i] = e
  BY <1>2
<1>4. \A i \in 1..Len(w) : ~IsOrderOf(w[i], m)
  BY DEF Coming
<1>5. OnceEach(v)
  BY <1>1, <1>3, <1>4 DEF OnceEach, IsOrderOf
<1>6. \A k : Coming(v, k) => Coming(w, k) \/ k = m
  BY <1>1, <1>3 DEF Coming, IsOrderOf
<1> QED BY <1>5, <1>6 DEF v, e

\* The counts of the budget are numbers.
LEMMA Counted ==
  ASSUME IsFiniteSet(imports), NEW m
  PROVE  /\ IsFiniteSet(Owing(m)) /\ Cardinality(Owing(m)) \in Nat
         /\ Cardinality(Owing(m)) <= Cardinality(Tabs)
         /\ IsFiniteSet(Clicks(m)) /\ Cardinality(Clicks(m)) \in Nat
         /\ Due(m) \in {0, 1}
         /\ Cardinality(Tabs) \in Nat
<1>1. Owing(m) \in SUBSET Tabs /\ Clicks(m) \in SUBSET imports
  BY DEF Owing, Clicks
<1>2. Due(m) \in {0, 1}
  BY DEF Due
<1> QED BY <1>1, <1>2, FS_Subset, FS_CardinalityType, WebshopAssumption

\* A smaller finite set counts less.
LEMMA FewerCounted ==
  ASSUME NEW S, NEW T, IsFiniteSet(S), T \subseteq S
  PROVE  Cardinality(T) \in Nat /\ Cardinality(S) \in Nat /\ Cardinality(T) <= Cardinality(S)
  BY FS_Subset, FS_CardinalityType

\* The budget holds on while nothing is ordered and nobody owes more.
LEMMA BudgetKept ==
  ASSUME NEW m \in Messages, RequestTypes, RequestTypes', IsFiniteSet(imports), Budget(m),
         orders'[m] = orders[m], clicked'[m] = clicked[m],
         Due(m)' <= Due(m), Due(m)' \in {0, 1},
         Owing(m)' \subseteq Owing(m), Clicks(m)' \subseteq Clicks(m)
  PROVE  Budget(m)'
<1>1. /\ Cardinality(Owing(m)') \in Nat /\ Cardinality(Owing(m)') <= Cardinality(Owing(m))
      /\ Cardinality(Owing(m)) \in Nat
  BY Counted, FewerCounted
<1>2. /\ Cardinality(Clicks(m)') \in Nat /\ Cardinality(Clicks(m)') <= Cardinality(Clicks(m))
      /\ Cardinality(Clicks(m)) \in Nat
  BY Counted, FewerCounted
<1>3. orders[m] \in Nat /\ clicked[m] \in Nat /\ Due(m) \in {0, 1} /\ Cardinality(Tabs) \in Nat
  BY Counted DEF RequestTypes
<1> DEFINE a == Cardinality(Owing(m)')
           b == Cardinality(Clicks(m)')
           c == Cardinality(Owing(m))
           d == Cardinality(Clicks(m))
<1>4. orders[m] + Due(m) + c + d <= 1 + Cardinality(Tabs) + clicked[m]
  BY DEF Budget
<1>5. orders'[m] + Due(m)' + a + b <= 1 + Cardinality(Tabs) + clicked'[m]
  <2> HIDE DEF a, b, c, d
  <2>1. a \in Nat /\ b \in Nat /\ c \in Nat /\ d \in Nat /\ a <= c /\ b <= d
    BY <1>1, <1>2 DEF a, b, c, d
  <2> QED BY <1>3, <1>4, <2>1
<1> QED BY <1>5 DEF Budget

\* Steps that create no order, publish nothing and ask for nothing.
LEMMA NothingNew ==
  ASSUME ReplayInv, SwitchInv', RequestTypes',
         UNCHANGED <<orders, decision, clicked>>,
         creating' \subseteq creating, imports' \subseteq imports,
         \A t \in Tabs : /\ OnceEach(wire'[t])
                         /\ \A m : Coming(wire'[t], m) => Coming(wire[t], m)
  PROVE  ReplayInv'
<1>1. IsFiniteSet(imports')
  BY FS_Subset DEF ReplayInv
<1>2. OneHandler' /\ OneEvent'
  BY DEF ReplayInv, OneHandler, OneEvent
<1>3. OneImport'
  <2> SUFFICES ASSUME NEW r \in imports', r.at = 0, ~r.done
               PROVE  r.n = 0 /\ decision'[r.msg] # "none" /\ ~Coming(wire'[r.tab], r.msg)
    BY DEF OneImport
  <2>1. r \in imports /\ r.tab \in Tabs
    BY DEF RequestTypes
  <2> QED BY <2>1 DEF ReplayInv, OneImport
<1>4. ASSUME NEW m \in Messages PROVE Budget(m)'
  <2>1. Due(m)' <= Due(m) /\ Due(m)' \in {0, 1}
    BY DEF Due
  <2>2. \A t : Asks(t, m)' => Asks(t, m)
    BY DEF Asks
  <2>3. Owing(m)' \subseteq Owing(m)
    BY <2>2 DEF Owing
  <2>4. Clicks(m)' \subseteq Clicks(m)
    BY DEF Clicks
  <2> QED BY <2>1, <2>3, <2>4, BudgetKept DEF ReplayInv
<1> QED BY <1>1, <1>2, <1>3, <1>4 DEF ReplayInv

\* Publishing a message is one event for every page that listens and one
\* handler at most.
LEMMA PublishReplay ==
  ASSUME ReplayInv, SwitchInv', RequestTypes', NEW k \in Messages, Publish(k)
  PROVE  ReplayInv'
<1>1. PICK c \in Clients : Openers = {c}
  BY PublishedOnce DEF ReplayInv
<1>2. \A t \in Tabs : wire'[t] = IF ws[t] = "live" THEN wire[t] \o <<OrderEvent(k)>>
                                                 ELSE wire[t]
  BY PublishedOnce DEF ReplayInv
<1>3. /\ decision[k] = "none"
      /\ decision' = [decision EXCEPT ![k] = Decided(k)]
      /\ creating' \in {creating, creating \cup {<<c, k>>}}
      /\ UNCHANGED <<orders, imports, clicked>>
  BY <1>1 DEF Publish, requestVars
<1>4. decision'[k] # "none" /\ \A m \in Messages \ {k} : decision'[m] = decision[m]
  BY <1>3 DEF ReplayInv, RequestTypes, Decided
<1>5. \A h \in creating : h[2] \in Messages \ {k}
  BY <1>3 DEF ReplayInv, RequestTypes, OneHandler
<1>6. OneHandler'
  <2>1. \A h \in creating' : h \in creating \/ h = <<c, k>>
    BY <1>3
  <2>2. <<c, k>>[2] = k
    OBVIOUS
  <2> QED BY <1>4, <1>5, <2>1, <2>2 DEF ReplayInv, OneHandler
<1>7. \A t \in Tabs : ~Coming(wire[t], k)
  BY <1>3 DEF ReplayInv, OneEvent
<1>8. \A t \in Tabs : /\ OnceEach(wire'[t])
                      /\ \A m : Coming(wire'[t], m) => Coming(wire[t], m) \/ m = k
  <2> TAKE t \in Tabs
  <2>1. wire[t] \in Seq(EventType) /\ OnceEach(wire[t]) /\ ~Coming(wire[t], k)
    BY <1>7 DEF ReplayInv, OneEvent, SwitchInv, PageTypes
  <2>2. /\ OnceEach(wire[t] \o <<OrderEvent(k)>>)
        /\ \A m : Coming(wire[t] \o <<OrderEvent(k)>>, m) => Coming(wire[t], m) \/ m = k
    BY <2>1, OrderComing
  <2>3. CASE ws[t] = "live"
    BY <1>2, <2>2, <2>3
  <2>4. CASE ws[t] # "live"
    BY <1>2, <2>1, <2>4
  <2> QED BY <2>3, <2>4
<1>9. OneEvent'
  BY <1>4, <1>8 DEF ReplayInv, OneEvent
<1>10. OneImport'
  BY <1>3, <1>4, <1>8 DEF ReplayInv, OneImport, RequestTypes
<1>11. ASSUME NEW m \in Messages PROVE Budget(m)'
  <2>1. Due(m)' <= Due(m) /\ Due(m)' \in {0, 1}
    <3>1. CASE m = k
      BY <1>3, <3>1 DEF Due
    <3>2. CASE m # k
      <4>1. (\E h \in creating' : h[2] = m) => \E h \in creating : h[2] = m
        BY <1>3, <3>2
      <4> QED BY <1>4, <3>2, <4>1 DEF Due
    <3> QED BY <3>1, <3>2
  <2>2. \A t : Asks(t, m)' <=> Asks(t, m)
    BY <1>3 DEF Asks
  <2>3. Owing(m)' \subseteq Owing(m)
    BY <1>3, <1>4, <1>8, <2>2 DEF Owing
  <2>4. Clicks(m)' \subseteq Clicks(m)
    BY <1>3 DEF Clicks
  <2> QED BY <1>3, <2>1, <2>3, <2>4, BudgetKept DEF ReplayInv
<1> QED BY <1>3, <1>6, <1>9, <1>10, <1>11 DEF ReplayInv

\* The handler that creates the order is the one that was due.
LEMMA CreateReplay ==
  ASSUME ReplayInv, SwitchInv', RequestTypes', CreateOrder
  PROVE  ReplayInv'
<1>1. PICK h \in creating :
        /\ creating' = creating \ {h}
        /\ Created(h[2]) \/ UNCHANGED orders
        /\ UNCHANGED <<decision, wire, imports, clicked>>
  BY DEF CreateOrder, pageVars, requestVars
<1>2. OneHandler' /\ OneEvent' /\ OneImport'
  BY <1>1 DEF ReplayInv, OneHandler, OneEvent, OneImport
<1>3. ASSUME NEW m \in Messages PROVE Budget(m)'
  <2>1. Due(m)' <= Due(m) /\ Due(m)' \in {0, 1}
    BY <1>1 DEF Due
  <2>2. Owing(m)' = Owing(m) /\ Clicks(m)' = Clicks(m)
    BY <1>1 DEF Owing, Asks, Clicks
  <2>3. CASE orders'[m] = orders[m]
    BY <1>1, <2>1, <2>2, <2>3, BudgetKept DEF ReplayInv
  <2>4. CASE orders'[m] # orders[m]
    <3> DEFINE k == h[2]
    <3>1. Created(k)
      BY <1>1, <2>4
    <3>2. decision[k] # "none" /\ ~\E g \in creating' : g[2] = k
      BY <1>1 DEF ReplayInv, OneHandler
    <3>3. Due(k) = 1
      BY DEF Due
    <3> HIDE DEF k
    <3>4. m = k /\ orders'[m] = orders[m] + 1
      BY <2>4, <3>1 DEF Created, ReplayInv, RequestTypes
    <3>5. Due(m)' = 0
      BY <1>1, <3>2, <3>4 DEF Due
    <3>6. /\ orders[m] \in Nat /\ Cardinality(Owing(m)) \in Nat
          /\ Cardinality(Clicks(m)) \in Nat
      BY Counted DEF ReplayInv, RequestTypes
    <3>7. orders[m] + Due(m) + Cardinality(Owing(m)) + Cardinality(Clicks(m))
            <= 1 + Cardinality(Tabs) + clicked[m]
      BY DEF ReplayInv, Budget
    <3>8. orders'[m] + Due(m)' + Cardinality(Owing(m)') + Cardinality(Clicks(m)')
            <= 1 + Cardinality(Tabs) + clicked'[m]
      BY <1>1, <2>2, <3>3, <3>4, <3>5, <3>6, <3>7
    <3> QED BY <3>8 DEF Budget
  <2> QED BY <2>3, <2>4
<1> QED BY <1>1, <1>2, <1>3 DEF ReplayInv

\* Two imports a page sends of its own accord for a message are the same one.
LEMMA SameImport ==
  ASSUME RequestTypes, OneImport, NEW r \in imports, NEW q \in imports,
         r.tab = q.tab, r.msg = q.msg, r.at = 0, q.at = 0, ~r.done, ~q.done
  PROVE  r = q
<1>1. /\ r \in [tab : Tabs, msg : Messages, at : Nat, n : Nat, done : BOOLEAN]
      /\ q \in [tab : Tabs, msg : Messages, at : Nat, n : Nat, done : BOOLEAN]
  BY DEF RequestTypes
<1>2. r.n = 0 /\ q.n = 0
  BY DEF OneImport
<1>3. r.done = FALSE /\ q.done = FALSE
  BY <1>1
<1> QED BY <1>1, <1>2, <1>3

\* An import that arrives is one the page, or the click, had coming.
LEMMA ImportReplay ==
  ASSUME ReplayInv, SwitchInv', RequestTypes', ImportArrives
  PROVE  ReplayInv'
<1>1. PICK r \in imports :
        /\ ~r.done
        /\ Created(r.msg)
        /\ imports' = (imports \ {r}) \cup {[r EXCEPT !.done = TRUE]}
        /\ UNCHANGED <<decision, creating, wire, clicked>>
  BY DEF ImportArrives, pageVars
<1>2. r \in [tab : Tabs, msg : Messages, at : Nat, n : Nat, done : BOOLEAN]
  BY DEF ReplayInv, RequestTypes
<1>3. [r EXCEPT !.done = TRUE].done
  BY <1>2
<1>4. \A q \in imports' : ~q.done => q \in imports /\ q # r
  BY <1>1, <1>3
<1>5. IsFiniteSet(imports')
  BY <1>1, FS_RemoveElement, FS_AddElement DEF ReplayInv
<1>6. OneHandler' /\ OneEvent' /\ OneImport'
  BY <1>1, <1>4 DEF ReplayInv, OneHandler, OneEvent, OneImport
<1>7. \A t, m : Asks(t, m)' => Asks(t, m)
  BY <1>4 DEF Asks
<1>8. \A m : Owing(m)' \subseteq Owing(m)
  BY <1>1, <1>7 DEF Owing
<1>9. \A m : Clicks(m)' \subseteq Clicks(m) \ {r}
  BY <1>4 DEF Clicks
<1>10. \A m : Due(m)' = Due(m)
  BY <1>1 DEF Due
<1>11. \A m \in Messages \ {r.msg} : Budget(m)'
  <2> TAKE m \in Messages \ {r.msg}
  <2>1. orders'[m] = orders[m]
    BY <1>1, <1>2 DEF Created, ReplayInv, RequestTypes
  <2>2. Due(m)' <= Due(m) /\ Due(m)' \in {0, 1}
    BY <1>10 DEF Due
  <2> QED BY <1>1, <1>8, <1>9, <2>1, <2>2, BudgetKept DEF ReplayInv
<1> DEFINE k == r.msg
<1>12. Budget(k)'
  <2>1. k \in Messages /\ orders'[k] = orders[k] + 1
    BY <1>1, <1>2 DEF Created, ReplayInv, RequestTypes
  <2>2. /\ orders[k] \in Nat /\ Due(k) \in {0, 1} /\ clicked[k] \in Nat
        /\ Cardinality(Tabs) \in Nat
    BY <2>1, Counted DEF ReplayInv, RequestTypes
  <2>3. IsFiniteSet(Owing(k)) /\ IsFiniteSet(Clicks(k))
    BY Counted DEF ReplayInv
  <2>4. /\ Cardinality(Owing(k)') \in Nat /\ Cardinality(Owing(k)) \in Nat
        /\ Cardinality(Owing(k)') <= Cardinality(Owing(k))
        /\ r.at = 0 => Cardinality(Owing(k)') <= Cardinality(Owing(k)) - 1
    <3>1. CASE r.at = 0
      <4>1. r.tab \in Owing(k)
        BY <1>1, <1>2, <3>1 DEF Owing, Asks
      <4>2. ~Asks(r.tab, k)'
        BY <1>1, <1>4, <3>1, SameImport DEF Asks, ReplayInv
      <4>3. decision[k] # "none" /\ ~Coming(wire[r.tab], k)
        BY <1>1, <3>1 DEF ReplayInv, OneImport
      <4>4. r.tab \notin Owing(k)'
        BY <1>1, <4>2, <4>3 DEF Owing
      <4>5. Owing(k)' \subseteq Owing(k) \ {r.tab}
        BY <1>8, <4>4
      <4>6. /\ IsFiniteSet(Owing(k) \ {r.tab})
            /\ Cardinality(Owing(k) \ {r.tab}) = Cardinality(Owing(k)) - 1
        BY <2>3, <4>1, FS_RemoveElement
      <4>7. Cardinality(Owing(k)') \in Nat /\ Cardinality(Owing(k)) \in Nat
            /\ Cardinality(Owing(k)') <= Cardinality(Owing(k) \ {r.tab})
        BY <2>3, <4>5, <4>6, FewerCounted, FS_CardinalityType
      <4> QED BY <4>6, <4>7
    <3>2. CASE r.at # 0
      BY <1>8, <2>3, <3>2, FewerCounted
    <3> QED BY <3>1, <3>2
  <2>5. /\ Cardinality(Clicks(k)') \in Nat /\ Cardinality(Clicks(k)) \in Nat
        /\ Cardinality(Clicks(k)') <= Cardinality(Clicks(k))
        /\ r.at # 0 => Cardinality(Clicks(k)') <= Cardinality(Clicks(k)) - 1
    <3>1. CASE r.at # 0
      <4>1. r \in Clicks(k)
        BY <1>1, <3>1 DEF Clicks
      <4>2. /\ IsFiniteSet(Clicks(k) \ {r})
            /\ Cardinality(Clicks(k) \ {r}) = Cardinality(Clicks(k)) - 1
        BY <2>3, <4>1, FS_RemoveElement
      <4>3. Cardinality(Clicks(k)') \in Nat /\ Cardinality(Clicks(k)) \in Nat
            /\ Cardinality(Clicks(k)') <= Cardinality(Clicks(k) \ {r})
        BY <1>9, <2>3, <4>2, FewerCounted, FS_CardinalityType
      <4> QED BY <4>2, <4>3
    <3>2. CASE r.at = 0
      <4>1. Clicks(k)' \subseteq Clicks(k)
        BY <1>9
      <4> QED BY <2>3, <3>2, <4>1, FewerCounted
    <3> QED BY <3>1, <3>2
  <2>6. orders[k] + Due(k) + Cardinality(Owing(k)) + Cardinality(Clicks(k))
          <= 1 + Cardinality(Tabs) + clicked[k]
    BY <2>1 DEF ReplayInv, Budget
  <2>7. Due(k)' = Due(k) /\ clicked'[k] = clicked[k]
    BY <1>1, <1>10
  <2>8. orders'[k] + Due(k)' + Cardinality(Owing(k)') + Cardinality(Clicks(k)')
          <= 1 + Cardinality(Tabs) + clicked'[k]
    <3> DEFINE a == Cardinality(Owing(k)')
               b == Cardinality(Clicks(k)')
               c == Cardinality(Owing(k))
               d == Cardinality(Clicks(k))
    <3>1. a \in Nat /\ b \in Nat /\ c \in Nat /\ d \in Nat /\ a + b <= c + d - 1
      <4>1. r.at = 0 \/ r.at # 0
        OBVIOUS
      <4> HIDE DEF k, a, b, c, d
      <4>2. a \in Nat /\ b \in Nat /\ c \in Nat /\ d \in Nat
        BY <2>4, <2>5 DEF a, b, c, d
      <4>3. a <= c /\ b <= d /\ (a <= c - 1 \/ b <= d - 1)
        BY <2>4, <2>5, <4>1 DEF a, b, c, d
      <4> QED BY <4>2, <4>3
    <3>2. orders[k] + Due(k) + c + d <= 1 + Cardinality(Tabs) + clicked[k]
      BY <2>6
    <3> HIDE DEF k, a, b, c, d
    <3>3. orders[k] + 1 + Due(k) + a + b <= 1 + Cardinality(Tabs) + clicked[k]
      BY <2>2, <3>1, <3>2
    <3> QED BY <2>1, <2>7, <3>3 DEF a, b
  <2> QED BY <2>8 DEF Budget
<1> QED BY <1>5, <1>6, <1>11, <1>12 DEF ReplayInv

\* A page that hears of a message exchanges the event for one import at most.
LEMMA HearsReplay ==
  ASSUME ReplayInv, SwitchInv', RequestTypes', NEW s \in Tabs, HearsOrder(s)
  PROVE  ReplayInv'
<1> DEFINE k == Head(wire[s]).msg
<1>1. /\ wire[s] # <<>>
      /\ Head(wire[s]).kind = "order"
      /\ imports' \in {imports, imports \cup {Request(s, k, 0, 0)}}
      /\ wire' = [wire EXCEPT ![s] = Tail(@)]
      /\ UNCHANGED <<decision, creating, orders, clicked>>
  BY DEF HearsOrder, messageVars
<1>2. wire \in [Tabs -> Seq(EventType)] /\ OnceEach(wire[s])
  BY DEF ReplayInv, OneEvent, SwitchInv, PageTypes
<1>3. /\ OnceEach(Tail(wire[s]))
      /\ \A m : Coming(Tail(wire[s]), m) => Coming(wire[s], m)
      /\ Coming(wire[s], k) /\ ~Coming(Tail(wire[s]), k)
  BY <1>1, <1>2, TailComing
<1>4. k \in Messages
  <2>1. Head(wire[s]) \in EventType
    BY <1>1, <1>2, HeadTailProperties
  <2> QED BY <1>1, <2>1 DEF EventType
<1> DEFINE q == Request(s, k, 0, 0)
<1>5. q.tab = s /\ q.msg = k /\ q.at = 0 /\ q.n = 0 /\ ~q.done
  BY DEF Request
<1>6. imports' \in {imports, imports \cup {q}}
  BY <1>1
<1> HIDE DEF k, q
<1>7. wire'[s] = Tail(wire[s]) /\ \A t \in Tabs \ {s} : wire'[t] = wire[t]
  BY <1>1, <1>2
<1>8. \A t \in Tabs : /\ OnceEach(wire'[t])
                      /\ \A m : Coming(wire'[t], m) => Coming(wire[t], m)
  BY <1>3, <1>7 DEF ReplayInv, OneEvent
<1>9. ~Coming(wire'[s], k) /\ decision[k] # "none"
  BY <1>3, <1>4, <1>7 DEF ReplayInv, OneEvent
<1>10. IsFiniteSet(imports')
  BY <1>6, FS_AddElement DEF ReplayInv
<1>11. OneHandler' /\ OneEvent'
  BY <1>1, <1>8 DEF ReplayInv, OneHandler, OneEvent
<1>12. OneImport'
  <2> SUFFICES ASSUME NEW r \in imports', r.at = 0, ~r.done
               PROVE  r.n = 0 /\ decision'[r.msg] # "none" /\ ~Coming(wire'[r.tab], r.msg)
    BY DEF OneImport
  <2>1. CASE r = q
    BY <1>1, <1>5, <1>9, <2>1
  <2>2. CASE r # q
    <3>1. r \in imports /\ r.tab \in Tabs
      BY <1>6, <2>2 DEF ReplayInv, RequestTypes
    <3> QED BY <1>1, <1>8, <3>1 DEF ReplayInv, OneImport
  <2> QED BY <2>1, <2>2
<1>13. ASSUME NEW m \in Messages PROVE Budget(m)'
  <2>1. Due(m)' <= Due(m) /\ Due(m)' \in {0, 1}
    BY <1>1 DEF Due
  <2>2. \A t \in Tabs : Asks(t, m)' => Asks(t, m) \/ (t = s /\ m = k)
    BY <1>5, <1>6 DEF Asks
  <2>3. Owing(m)' \subseteq Owing(m)
    BY <1>1, <1>3, <1>8, <2>2 DEF Owing
  <2>4. Clicks(m)' \subseteq Clicks(m)
    BY <1>5, <1>6 DEF Clicks
  <2> QED BY <1>1, <2>1, <2>3, <2>4, BudgetKept DEF ReplayInv
<1> QED BY <1>10, <1>11, <1>12, <1>13 DEF ReplayInv

\* A count that grows by one at most, against a bound that grows by one.
LEMMA OneMoreEach ==
  ASSUME NEW o \in Nat, NEW e \in Nat, NEW a \in Nat, NEW b \in Nat, NEW c \in Nat,
         NEW d \in Nat, NEW t \in Nat, NEW u \in Nat,
         a <= c, b <= d + 1, o + e + c + d <= 1 + t + u
  PROVE  o + e + a + b <= 1 + t + (u + 1)
  OBVIOUS

\* A click is counted when it is made.
LEMMA ClickReplay ==
  ASSUME ReplayInv, SwitchInv', RequestTypes', NEW s \in Tabs,
         NEW i \in 1..Len(pending[s]), Click(s, i)
  PROVE  ReplayInv'
<1>1. PICK k \in Messages : k = pending[s][i]
  BY DEF ReplayInv, RequestTypes
<1>2. PICK n \in 0..MaxUses :
        /\ imports' = imports \cup {Request(s, k, i, n)}
        /\ clicked' = [clicked EXCEPT ![k] = @ + 1]
        /\ UNCHANGED <<decision, creating, orders, wire>>
  BY <1>1 DEF Click, messageVars, pageVars
<1> DEFINE q == Request(s, k, i, n)
<1>3. q.msg = k /\ q.at # 0 /\ ~q.done
  <2>1. i # 0
    BY DEF ReplayInv, RequestTypes
  <2> QED BY <2>1 DEF Request
<1>4. imports' = imports \cup {q}
  BY <1>2
<1> HIDE DEF q
<1>5. IsFiniteSet(imports')
  BY <1>4, FS_AddElement DEF ReplayInv
<1>6. OneHandler' /\ OneEvent' /\ OneImport'
  BY <1>2, <1>3, <1>4 DEF ReplayInv, OneHandler, OneEvent, OneImport
<1>7. \A t, m : Asks(t, m)' => Asks(t, m)
  BY <1>3, <1>4 DEF Asks
<1>8. \A m : Owing(m)' \subseteq Owing(m) /\ Due(m)' = Due(m)
  BY <1>2, <1>7 DEF Owing, Due
<1>9. \A m : m # k => Clicks(m)' \subseteq Clicks(m)
  BY <1>3, <1>4 DEF Clicks
<1>10. Clicks(k)' \subseteq Clicks(k) \cup {q}
  BY <1>4 DEF Clicks
<1>11. ASSUME NEW m \in Messages, m # k PROVE Budget(m)'
  <2>1. clicked'[m] = clicked[m]
    BY <1>2, <1>11 DEF ReplayInv, RequestTypes
  <2>2. Due(m)' <= Due(m) /\ Due(m)' \in {0, 1}
    BY <1>8 DEF Due
  <2> QED BY <1>2, <1>8, <1>9, <1>11, <2>1, <2>2, BudgetKept DEF ReplayInv
<1>12. Budget(k)'
  <2>1. /\ IsFiniteSet(Owing(k)) /\ IsFiniteSet(Clicks(k)) /\ Due(k) \in {0, 1}
        /\ Cardinality(Tabs) \in Nat /\ Cardinality(Clicks(k)) \in Nat
    BY Counted DEF ReplayInv
  <2>2. orders[k] \in Nat /\ clicked[k] \in Nat /\ clicked'[k] = clicked[k] + 1
    BY <1>2, <1>1 DEF ReplayInv, RequestTypes
  <2>3. /\ Cardinality(Owing(k)') \in Nat /\ Cardinality(Owing(k)) \in Nat
        /\ Cardinality(Owing(k)') <= Cardinality(Owing(k))
    BY <1>8, <2>1, FewerCounted
  <2>4. /\ IsFiniteSet(Clicks(k) \cup {q})
        /\ Cardinality(Clicks(k) \cup {q}) \in {Cardinality(Clicks(k)), Cardinality(Clicks(k)) + 1}
    BY <2>1, FS_AddElement
  <2>5. /\ Cardinality(Clicks(k)') \in Nat
        /\ Cardinality(Clicks(k)') <= Cardinality(Clicks(k) \cup {q})
    BY <1>10, <2>4, FewerCounted
  <2>6. Cardinality(Clicks(k)') <= Cardinality(Clicks(k)) + 1
    BY <2>1, <2>4, <2>5
  <2>7. orders[k] + Due(k) + Cardinality(Owing(k)) + Cardinality(Clicks(k))
          <= 1 + Cardinality(Tabs) + clicked[k]
    BY <1>1 DEF ReplayInv, Budget
  <2>8. orders'[k] + Due(k)' + Cardinality(Owing(k)') + Cardinality(Clicks(k)')
          <= 1 + Cardinality(Tabs) + clicked'[k]
    <3> DEFINE a == Cardinality(Owing(k)')
               b == Cardinality(Clicks(k)')
               c == Cardinality(Owing(k))
               d == Cardinality(Clicks(k))
    <3>1. a \in Nat /\ b \in Nat /\ c \in Nat /\ d \in Nat /\ a <= c /\ b <= d + 1
      BY <2>1, <2>3, <2>5, <2>6
    <3>2. orders[k] + Due(k) + c + d <= 1 + Cardinality(Tabs) + clicked[k]
      BY <2>7
    <3> HIDE DEF a, b, c, d
    <3>3. orders[k] + Due(k) + a + b <= 1 + Cardinality(Tabs) + (clicked[k] + 1)
      <4>1. Due(k) \in Nat /\ Cardinality(Tabs) \in Nat
        BY <2>1
      <4>2. orders[k] \in Nat /\ clicked[k] \in Nat
        BY <2>2
      <4> QED BY <3>1, <3>2, <4>1, <4>2, OneMoreEach
    <3> QED BY <1>2, <1>8, <2>2, <3>3 DEF a, b
  <2> QED BY <2>8 DEF Budget
<1> QED BY <1>5, <1>6, <1>11, <1>12 DEF ReplayInv

\* Every other step of a page or of the gateway.
LEMMA OtherReplay ==
  ASSUME ReplayInv, SwitchInv', RequestTypes',
         \/ GatewayStep /\ UNCHANGED <<messageVars, pageVars, requestVars>>
         \/ Restart
         \/ ToggleArrives \/ ToggleFails \/ ToggleAnswered
         \/ ImportFails \/ ImportAnswered
         \/ \E t \in Tabs : \/ PageOpens(t) \/ SocketOpens(t) \/ SocketLost(t)
                            \/ HearsAuto(t) \/ Toggle(t)
         \/ UNCHANGED vars
  PROVE  ReplayInv'
<1>1. /\ UNCHANGED <<orders, decision, clicked>>
      /\ creating' \subseteq creating
      /\ imports' \subseteq imports
  BY DEF Restart, ToggleArrives, ToggleFails, ToggleAnswered, ImportFails, ImportAnswered,
         PageOpens, SocketOpens, SocketLost, HearsAuto, Toggle,
         vars, messageVars, pageVars, requestVars
<1>2. \/ wire' = wire
      \/ wire' = [t \in Tabs |-> <<>>]
      \/ \E t \in Tabs : wire' = [wire EXCEPT ![t] = <<>>]
      \/ \E t \in Tabs : wire[t] # <<>> /\ wire' = [wire EXCEPT ![t] = Tail(@)]
      \/ \E b : Broadcast(<<AutoEvent(b)>>)
  BY DEF Restart, ToggleArrives, SwitchTold, ToggleFails, ToggleAnswered, ImportFails,
         ImportAnswered, PageOpens, SocketOpens, SocketLost, HearsAuto, Toggle,
         vars, pageVars
<1>3. /\ wire \in [Tabs -> Seq(EventType)]
      /\ \A t \in Tabs : OnceEach(wire[t])
  BY DEF ReplayInv, OneEvent, SwitchInv, PageTypes
<1>4. \A s \in Tabs : \/ wire'[s] = wire[s]
                      \/ wire'[s] = <<>>
                      \/ wire[s] # <<>> /\ wire'[s] = Tail(wire[s])
                      \/ \E b : wire'[s] = wire[s] \o <<AutoEvent(b)>>
  BY <1>2, <1>3 DEF Broadcast
<1>5. \A s \in Tabs : /\ OnceEach(wire'[s])
                      /\ \A m : Coming(wire'[s], m) => Coming(wire[s], m)
  <2> TAKE s \in Tabs
  <2>1. wire[s] \in Seq(EventType) /\ OnceEach(wire[s])
    BY <1>3
  <2>2. CASE wire'[s] = wire[s] \/ wire'[s] = <<>>
    BY <2>1, <2>2, EmptyComing
  <2>3. CASE wire[s] # <<>> /\ wire'[s] = Tail(wire[s])
    BY <2>1, <2>3, TailComing
  <2>4. CASE \E b : wire'[s] = wire[s] \o <<AutoEvent(b)>>
    BY <2>1, <2>4, AutoComing
  <2> QED BY <1>4, <2>2, <2>3, <2>4
<1> QED BY <1>1, <1>5, NothingNew

LEMMA InitReplay == Init => ReplayInv
<1> SUFFICES ASSUME Init PROVE ReplayInv
  OBVIOUS
<1>1. SwitchInv /\ RequestTypes
  BY InitSwitch, InitRequestTypes
<1>2. imports = {} /\ IsFiniteSet(imports)
  BY FS_EmptySet DEF Init
<1>3. OneHandler /\ OneImport
  BY <1>2 DEF Init, OneHandler, OneImport
<1>4. OneEvent
  BY EmptyComing DEF Init, OneEvent
<1>5. ASSUME NEW m \in Messages PROVE Budget(m)
  <2>1. Owing(m) = Tabs /\ Clicks(m) = {} /\ Due(m) = 1
    BY <1>2 DEF Init, Owing, Clicks, Due
  <2>2. Cardinality({}) = 0 /\ Cardinality(Tabs) \in Nat
    BY FS_EmptySet, FS_CardinalityType, WebshopAssumption
  <2>3. orders[m] = 0 /\ clicked[m] = 0
    BY DEF Init
  <2> QED BY <2>1, <2>2, <2>3 DEF Budget
<1> QED BY <1>1, <1>2, <1>3, <1>4, <1>5 DEF ReplayInv

LEMMA NextReplay == ReplayInv /\ [Next]_vars => ReplayInv'
<1> SUFFICES ASSUME ReplayInv, [Next]_vars PROVE ReplayInv'
  OBVIOUS
<1>1. SwitchInv' /\ RequestTypes'
  BY NextSwitch, NextRequestTypes DEF ReplayInv, SwitchInv
<1>2. CASE \E m \in Messages : Publish(m)
  BY <1>1, <1>2, PublishReplay
<1>3. CASE CreateOrder
  BY <1>1, <1>3, CreateReplay
<1>4. CASE ImportArrives
  BY <1>1, <1>4, ImportReplay
<1>5. CASE \E t \in Tabs : HearsOrder(t)
  BY <1>1, <1>5, HearsReplay
<1>6. CASE \E t \in Tabs : \E i \in 1..Len(pending[t]) : Click(t, i)
  BY <1>1, <1>6, ClickReplay
<1>7. CASE \/ GatewayStep /\ UNCHANGED <<messageVars, pageVars, requestVars>>
           \/ Restart
           \/ ToggleArrives \/ ToggleFails \/ ToggleAnswered
           \/ ImportFails \/ ImportAnswered
           \/ \E t \in Tabs : \/ PageOpens(t) \/ SocketOpens(t) \/ SocketLost(t)
                              \/ HearsAuto(t) \/ Toggle(t)
           \/ UNCHANGED vars
  BY <1>1, <1>7, OtherReplay
<1> QED BY <1>2, <1>3, <1>4, <1>5, <1>6, <1>7 DEF Next

\* A message of the shop makes one order at the gateway, one of each page and
\* one per click at most, whatever is lost, restarted, switched or answered
\* late, for any number of pages.
THEOREM MessagesAreNotReplayed == Spec => []NoReplays
<1>1. ReplayInv => NoReplays
  <2> SUFFICES ASSUME ReplayInv, NEW m \in Messages
               PROVE  orders[m] <= 1 + Cardinality(Tabs) + clicked[m]
    BY DEF NoReplays
  <2>1. orders[m] \in Nat /\ clicked[m] \in Nat
    BY DEF ReplayInv, RequestTypes
  <2>2. /\ Due(m) \in Nat /\ Cardinality(Owing(m)) \in Nat /\ Cardinality(Clicks(m)) \in Nat
        /\ Cardinality(Tabs) \in Nat
    BY Counted DEF ReplayInv
  <2>3. Budget(m)
    BY DEF ReplayInv
  <2> QED BY <2>1, <2>2, <2>3 DEF Budget
<1> QED BY <1>1, InitReplay, NextReplay, PTL DEF Spec

\* A message the gateway has not seen or leaves for manual creation has a click
\* for every order made of it, and for every one still coming.
ClicksPay ==
  \A m \in Messages : decision[m] \in {"none", "waiting"} =>
    /\ \A h \in creating : h[2] # m
    /\ orders[m] + Cardinality(Clicks(m)) <= clicked[m]

NoOwnImports == \A r \in imports : r.at # 0

LEMMA NoOwnImportsStep ==
  ASSUME Lidded = {}, RequestTypes, NoOwnImports, [Next]_vars
  PROVE  NoOwnImports'
<1>1. ASSUME NEW t \in Tabs, NEW i \in 1..Len(pending[t]), Click(t, i) PROVE NoOwnImports'
  BY <1>1 DEF Click, NoOwnImports, Request, RequestTypes
<1>2. ASSUME ImportArrives PROVE NoOwnImports'
  <2>1. PICK r \in imports : imports' = (imports \ {r}) \cup {[r EXCEPT !.done = TRUE]}
    BY <1>2 DEF ImportArrives
  <2>2. [r EXCEPT !.done = TRUE].at = r.at
    BY DEF RequestTypes
  <2> QED BY <2>1, <2>2 DEF NoOwnImports
<1>3. ASSUME NEW t \in Tabs, HearsOrder(t) PROVE imports' = imports
  BY <1>3 DEF HearsOrder
<1>4. ASSUME \/ GatewayStep /\ UNCHANGED <<messageVars, pageVars, requestVars>>
             \/ Restart \/ CreateOrder
             \/ ToggleArrives \/ ToggleFails \/ ToggleAnswered
             \/ ImportFails \/ ImportAnswered
             \/ \E m \in Messages : Publish(m)
             \/ \E t \in Tabs : \/ PageOpens(t) \/ SocketOpens(t) \/ SocketLost(t)
                                \/ HearsAuto(t) \/ Toggle(t)
             \/ UNCHANGED vars
      PROVE  imports' \subseteq imports
  BY <1>4 DEF Restart, CreateOrder, ToggleArrives, ToggleFails, ToggleAnswered, ImportFails,
              ImportAnswered, Publish, PageOpens, SocketOpens, SocketLost, HearsAuto, Toggle,
              vars, requestVars
<1> QED BY <1>1, <1>2, <1>3, <1>4 DEF NoOwnImports, Next

\* What ClicksPay says of m holds on while no order comes of m, no handler is
\* added for it, and no click on it that is not counted.
LEMMA ClicksPayKept ==
  ASSUME RequestTypes, RequestTypes', IsFiniteSet(imports), NEW m \in Messages,
         orders'[m] = orders[m], clicked'[m] = clicked[m],
         Clicks(m)' \subseteq Clicks(m),
         orders[m] + Cardinality(Clicks(m)) <= clicked[m]
  PROVE  orders'[m] + Cardinality(Clicks(m)') <= clicked'[m]
<1>1. /\ Cardinality(Clicks(m)') \in Nat /\ Cardinality(Clicks(m)') <= Cardinality(Clicks(m))
      /\ Cardinality(Clicks(m)) \in Nat
  BY Counted, FewerCounted
<1>2. orders[m] \in Nat /\ clicked[m] \in Nat
  BY DEF RequestTypes
<1> DEFINE a == Cardinality(Clicks(m)')
           b == Cardinality(Clicks(m))
<1>3. a \in Nat /\ b \in Nat /\ a <= b /\ orders[m] + b <= clicked[m]
  BY <1>1
<1> HIDE DEF a, b
<1>4. orders[m] + a <= clicked[m]
  BY <1>2, <1>3
<1> QED BY <1>4 DEF a

LEMMA ClicksPayStep ==
  ASSUME ReplayInv, RequestTypes', ClicksPay, NoOwnImports, [Next]_vars
  PROVE  ClicksPay'
<1> USE DEF ReplayInv
<1>1. ASSUME NEW k \in Messages, Publish(k) PROVE ClicksPay'
  <2>1. /\ decision[k] = "none" /\ decision' = [decision EXCEPT ![k] = Decided(k)]
        /\ creating' \subseteq creating \cup (IF Decided(k) = "taken" THEN Openers \X {k} ELSE {})
        /\ UNCHANGED <<orders, imports, clicked>>
    BY <1>1 DEF Publish, requestVars
  <2> SUFFICES ASSUME NEW m \in Messages, decision'[m] \in {"none", "waiting"}
               PROVE  /\ \A h \in creating' : h[2] # m
                      /\ orders'[m] + Cardinality(Clicks(m)') <= clicked'[m]
    BY DEF ClicksPay
  <2>2. decision[m] \in {"none", "waiting"}
    BY <2>1 DEF RequestTypes
  <2>3. m = k => Decided(k) # "taken"
    BY <2>1 DEF RequestTypes
  <2>4. \A h \in creating' : h[2] # m
    BY <2>1, <2>2, <2>3 DEF ClicksPay
  <2>5. Clicks(m)' = Clicks(m)
    BY <2>1 DEF Clicks
  <2> QED BY <2>1, <2>2, <2>4, <2>5 DEF ClicksPay
<1>2. ASSUME CreateOrder PROVE ClicksPay'
  <2>1. PICK h \in creating :
          /\ creating' = creating \ {h}
          /\ Created(h[2]) \/ UNCHANGED orders
          /\ UNCHANGED <<decision, imports, clicked>>
    BY <1>2 DEF CreateOrder, requestVars
  <2>2. \A m \in Messages : m # h[2] => orders'[m] = orders[m]
    BY <2>1 DEF Created, RequestTypes
  <2>3. \A m : Clicks(m)' = Clicks(m)
    BY <2>1 DEF Clicks
  <2> QED BY <2>1, <2>2, <2>3 DEF ClicksPay
<1>3. ASSUME ImportArrives PROVE ClicksPay'
  <2>1. PICK r \in imports :
          /\ ~r.done
          /\ Created(r.msg)
          /\ imports' = (imports \ {r}) \cup {[r EXCEPT !.done = TRUE]}
          /\ UNCHANGED <<decision, creating, clicked>>
    BY <1>3 DEF ImportArrives
  <2>2. r \in [tab : Tabs, msg : Messages, at : Nat, n : Nat, done : BOOLEAN] /\ r.at # 0
    BY DEF RequestTypes, NoOwnImports
  <2>3. [r EXCEPT !.done = TRUE].done
    BY <2>2
  <2>4. \A m : Clicks(m)' \subseteq Clicks(m) \ {r}
    BY <2>1, <2>3 DEF Clicks
  <2> SUFFICES ASSUME NEW m \in Messages, decision[m] \in {"none", "waiting"}
               PROVE  orders'[m] + Cardinality(Clicks(m)') <= clicked'[m]
    BY <2>1 DEF ClicksPay
  <2>5. orders[m] + Cardinality(Clicks(m)) <= clicked[m]
    BY DEF ClicksPay
  <2>6. CASE m # r.msg
    <3>1. orders'[m] = orders[m] /\ clicked'[m] = clicked[m]
      BY <2>1, <2>2, <2>6 DEF Created, RequestTypes
    <3>2. Clicks(m)' \subseteq Clicks(m)
      BY <2>4
    <3> QED BY <2>5, <3>1, <3>2, ClicksPayKept
  <2>7. CASE m = r.msg
    <3>1. orders'[m] = orders[m] + 1 /\ clicked'[m] = clicked[m]
      BY <2>1, <2>7 DEF Created, RequestTypes
    <3>2. r \in Clicks(m)
      BY <2>1, <2>2, <2>7 DEF Clicks
    <3>3. IsFiniteSet(Clicks(m)) /\ Cardinality(Clicks(m)) \in Nat
      BY Counted
    <3>4. /\ IsFiniteSet(Clicks(m) \ {r})
          /\ Cardinality(Clicks(m) \ {r}) = Cardinality(Clicks(m)) - 1
      BY <3>2, <3>3, FS_RemoveElement
    <3>5. /\ Cardinality(Clicks(m)') \in Nat
          /\ Cardinality(Clicks(m)') <= Cardinality(Clicks(m) \ {r})
      BY <2>4, <3>4, FewerCounted
    <3>6. orders[m] \in Nat /\ clicked[m] \in Nat
      BY DEF RequestTypes
    <3> DEFINE a == Cardinality(Clicks(m)')
               b == Cardinality(Clicks(m))
    <3>7. a \in Nat /\ b \in Nat /\ a <= b - 1 /\ orders[m] + b <= clicked[m]
      BY <2>5, <3>3, <3>4, <3>5
    <3> HIDE DEF a, b
    <3>8. orders[m] + 1 + a <= clicked[m]
      BY <3>6, <3>7
    <3> QED BY <3>1, <3>8 DEF a
  <2> QED BY <2>6, <2>7
<1>4. ASSUME NEW t \in Tabs, NEW i \in 1..Len(pending[t]), Click(t, i) PROVE ClicksPay'
  <2>1. PICK k \in Messages : k = pending[t][i]
    BY DEF RequestTypes
  <2>2. PICK n \in 0..MaxUses :
          /\ imports' = imports \cup {Request(t, k, i, n)}
          /\ clicked' = [clicked EXCEPT ![k] = @ + 1]
          /\ UNCHANGED <<decision, creating, orders>>
    BY <1>4, <2>1 DEF Click, messageVars
  <2> DEFINE q == Request(t, k, i, n)
  <2>3. q.msg = k
    BY DEF Request
  <2>4. imports' = imports \cup {q}
    BY <2>2
  <2> HIDE DEF q
  <2> SUFFICES ASSUME NEW m \in Messages, decision[m] \in {"none", "waiting"}
               PROVE  orders'[m] + Cardinality(Clicks(m)') <= clicked'[m]
    BY <2>2 DEF ClicksPay
  <2>5. orders[m] + Cardinality(Clicks(m)) <= clicked[m]
    BY DEF ClicksPay
  <2>6. CASE m # k
    <3>1. orders'[m] = orders[m] /\ clicked'[m] = clicked[m]
      BY <2>2, <2>6 DEF RequestTypes
    <3>2. Clicks(m)' \subseteq Clicks(m)
      BY <2>3, <2>4, <2>6 DEF Clicks
    <3> QED BY <2>5, <3>1, <3>2, ClicksPayKept
  <2>7. CASE m = k
    <3>1. orders'[m] = orders[m] /\ clicked'[m] = clicked[m] + 1
      BY <2>2, <2>7 DEF RequestTypes
    <3>2. Clicks(m)' \subseteq Clicks(m) \cup {q}
      BY <2>4 DEF Clicks
    <3>3. IsFiniteSet(Clicks(m)) /\ Cardinality(Clicks(m)) \in Nat
      BY Counted
    <3>4. /\ IsFiniteSet(Clicks(m) \cup {q})
          /\ Cardinality(Clicks(m) \cup {q})
                \in {Cardinality(Clicks(m)), Cardinality(Clicks(m)) + 1}
      BY <3>3, FS_AddElement
    <3>5. /\ Cardinality(Clicks(m)') \in Nat /\ Cardinality(Clicks(m) \cup {q}) \in Nat
          /\ Cardinality(Clicks(m)') <= Cardinality(Clicks(m) \cup {q})
      BY <3>2, <3>4, FewerCounted
    <3>6. orders[m] \in Nat /\ clicked[m] \in Nat
      BY DEF RequestTypes
    <3> DEFINE a == Cardinality(Clicks(m)')
               b == Cardinality(Clicks(m))
    <3>7. a \in Nat /\ b \in Nat /\ a <= b + 1 /\ orders[m] + b <= clicked[m]
      BY <2>5, <3>3, <3>4, <3>5
    <3> HIDE DEF a, b
    <3>8. orders[m] + a <= clicked[m] + 1
      BY <3>6, <3>7
    <3> QED BY <3>1, <3>8 DEF a
  <2> QED BY <2>6, <2>7
<1>5. ASSUME \/ GatewayStep /\ UNCHANGED <<messageVars, pageVars, requestVars>>
             \/ Restart
             \/ ToggleArrives \/ ToggleFails \/ ToggleAnswered
             \/ ImportFails \/ ImportAnswered
             \/ \E t \in Tabs : \/ PageOpens(t) \/ SocketOpens(t) \/ SocketLost(t)
                                \/ HearsAuto(t) \/ HearsOrder(t) \/ Toggle(t)
             \/ UNCHANGED vars
      PROVE  ClicksPay'
  <2>1. /\ UNCHANGED <<orders, decision, clicked>>
        /\ creating' \subseteq creating
    BY <1>5 DEF Restart, ToggleArrives, ToggleFails, ToggleAnswered, ImportFails,
                ImportAnswered, PageOpens, SocketOpens, SocketLost, HearsAuto, HearsOrder,
                Toggle, vars, messageVars, pageVars, requestVars
  <2>2. \A r \in imports' : r \in imports \/ r.at = 0
    BY <1>5 DEF Restart, ToggleArrives, ToggleFails, ToggleAnswered, ImportFails,
                ImportAnswered, PageOpens, SocketOpens, SocketLost, HearsAuto, HearsOrder,
                Toggle, Request, vars, messageVars, pageVars, requestVars
  <2>3. \A m : Clicks(m)' \subseteq Clicks(m)
    BY <2>2 DEF Clicks
  <2> QED BY <2>1, <2>3, ClicksPayKept DEF ClicksPay
<1> QED BY <1>1, <1>2, <1>3, <1>4, <1>5 DEF Next

\* Where pages import nothing of their own accord, as for messages without a
\* lid, an order the gateway leaves for manual creation does wait for its
\* clicks, one for each order made: only imports of pages break the rule.
THEOREM WithoutOwnImportsItWaits ==
  ASSUME Lidded = {} PROVE Spec => []WaitsForClick
<1> DEFINE I == ReplayInv /\ NoOwnImports /\ ClicksPay
<1>1. Init => I
  <2> SUFFICES ASSUME Init PROVE NoOwnImports /\ ClicksPay
    BY InitReplay
  <2>1. imports = {} /\ creating = {}
    BY DEF Init
  <2>2. \A m : Clicks(m) = {}
    BY <2>1 DEF Clicks
  <2>3. \A m : Cardinality(Clicks(m)) = 0
    BY <2>2, FS_EmptySet
  <2>4. NoOwnImports
    BY <2>1 DEF NoOwnImports
  <2>5. \A m \in Messages : orders[m] = 0 /\ clicked[m] = 0
    BY DEF Init
  <2>6. ClicksPay
    BY <2>1, <2>3, <2>5 DEF ClicksPay
  <2> QED BY <2>4, <2>6
<1>2. I /\ [Next]_vars => I'
  <2> SUFFICES ASSUME ReplayInv, NoOwnImports, ClicksPay, [Next]_vars PROVE I'
    OBVIOUS
  <2>1. ReplayInv'
    BY NextReplay
  <2>2. NoOwnImports' /\ ClicksPay'
    BY <2>1, NoOwnImportsStep, ClicksPayStep DEF ReplayInv
  <2> QED BY <2>1, <2>2
<1>3. I => WaitsForClick
  <2> SUFFICES ASSUME ReplayInv, ClicksPay, NEW m \in Messages, decision[m] = "waiting"
               PROVE  orders[m] <= clicked[m]
    BY DEF WaitsForClick
  <2>1. orders[m] + Cardinality(Clicks(m)) <= clicked[m]
    BY DEF ClicksPay
  <2>2. orders[m] \in Nat /\ clicked[m] \in Nat /\ Cardinality(Clicks(m)) \in Nat
    BY Counted DEF ReplayInv, RequestTypes
  <2> QED BY <2>1, <2>2
<1> QED BY <1>1, <1>2, <1>3, PTL DEF Spec
=============================================================================
