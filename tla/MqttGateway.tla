---------------------------- MODULE MqttGateway ----------------------------
(***************************************************************************)
(* MqttGatewayService (opcua/mqtt-gateway.service.ts): the MQTT client, the *)
(* stored broker configuration and the two timers that reconnect.  The      *)
(* methods run without an await that lets other work in up to the point     *)
(* where the new client is installed; connection, loss and close are events *)
(* of the mqtt library that arrive later, those of a client that has been   *)
(* ended included.                                                          *)
(***************************************************************************)
EXTENDS Naturals

CONSTANTS
  Clients,     \* bound: client objects alive at a time
  Urls,        \* broker URLs an operator may enter
  BadUrls,     \* those mqtt.connect throws on
  Users,       \* credentials
  None,        \* undefined / null
  DefaultUrl,  \* 'mqtt://localhost:1883', also where mqtt.connect(undefined) goes
  EnvUrl,      \* process.env.MQTT_BROKER_URL or the default
  MaxOps       \* bound: requests of operators and restarts

ASSUME GatewayAssumption ==
  /\ None \notin Clients \cup Urls \cup Users
  /\ Clients # {}
  /\ BadUrls \subseteq Urls
  /\ {DefaultUrl, EnvUrl} \subseteq Urls \ BadUrls
  /\ MaxOps \in Nat

VARIABLES
  running,        \* the backend is up
  client,         \* this.client
  link,           \* link[c]: what the library does for client object c
  broker,         \* broker[c]: the URL c was made for
  status,         \* this.currentStatus
  file,           \* mqtt-broker.json
  bootUrl,        \* brokerUrl of onModuleInit, kept by its timers
  bootTimer,      \* the 8 s timer of onModuleInit is armed
  reconnectTimer, \* the 30 s interval of startAutoReconnect is armed
  wish,           \* history: the connect or disconnect that is to hold
  ops

linkVars == <<client, link, broker>>
timerVars == <<bootUrl, bootTimer, reconnectTimer>>
gatewayVars == <<running, linkVars, status, file, timerVars, wish, ops>>

Saved(s) == [url |-> s.url, user |-> s.user, auto |-> s.auto]
StatusType == [url : Urls \cup {None}, user : Users \cup {None}, auto : BOOLEAN,
               connected : BOOLEAN]
FileType == [url : Urls \cup {None}, user : Users \cup {None}, auto : BOOLEAN]
NoFile == [url |-> None, user |-> None, auto |-> TRUE]

Alive == {"connecting", "open"}

\* onModuleInit takes over what is saved, if it names a broker.
Booted(f) ==
  [url |-> IF f.url # None THEN f.url ELSE DefaultUrl,
   user |-> IF f.url # None THEN f.user ELSE None,
   auto |-> f.auto,
   connected |-> FALSE]

BootUrl(f) == IF f.url # None THEN f.url ELSE EnvUrl

\* mqtt.connect(u), and taken as if it knew no default
Dialled_Raw(u) == u
Dialled(u) == IF u = None THEN DefaultUrl ELSE u

Given(new, old) == IF new # None THEN new ELSE old

\* client.end(false): the close event comes later.
Ended == [c \in Clients |-> IF c = client THEN "ending" ELSE link[c]]

Bounded == ops < MaxOps /\ ops' = ops + 1

----------------------------------------------------------------------------
\* The process starts with file f.  A URL that cannot be parsed makes
\* onModuleInit throw twice, and the second time nothing catches it.
Boot(f) ==
  /\ file' = Saved(Booted(f))
  /\ status' = Booted(f)
  /\ bootUrl' = BootUrl(f)
  /\ reconnectTimer' = FALSE
  /\ wish' = "none"
  /\ \/ /\ BootUrl(f) \in BadUrls
        /\ running' = FALSE
        /\ bootTimer' = FALSE
        /\ client' = None
        /\ link' = [d \in Clients |-> "free"]
        /\ UNCHANGED broker
     \/ \E c \in Clients :
          /\ BootUrl(f) \notin BadUrls
          /\ running' = TRUE
          /\ bootTimer' = TRUE
          /\ client' = c
          /\ link' = [d \in Clients |-> IF d = c THEN "connecting" ELSE "free"]
          /\ broker' = [broker EXCEPT ![c] = BootUrl(f)]

GatewayInit ==
  /\ file = Saved(Booted(NoFile))
  /\ status = Booted(NoFile)
  /\ bootUrl = EnvUrl
  /\ reconnectTimer = FALSE
  /\ wish = "none"
  /\ running = TRUE
  /\ bootTimer = TRUE
  /\ client \in Clients
  /\ link = [d \in Clients |-> IF d = client THEN "connecting" ELSE "free"]
  /\ broker = [d \in Clients |-> EnvUrl]
  /\ ops = 0

\* A new client object is made for URL u, with the links as l says.
NewClient(u, l) ==
  \E c \in Clients :
    /\ l[c] = "free"
    /\ client' = c
    /\ link' = [l EXCEPT ![c] = "connecting"]
    /\ broker' = [broker EXCEPT ![c] = u]

\* The configuration is written before the new broker is in it; the old
\* client is forgotten and not ended.
ConnectTo_SavesFirst(u, p, s, f) ==
  IF u \in BadUrls
  THEN /\ client' = None
       /\ link' = Ended
       /\ status' = [s EXCEPT !.connected = FALSE]
       /\ file' = f
       /\ wish' = "none"
       /\ UNCHANGED broker
  ELSE /\ NewClient(Dialled(u), Ended)
       /\ status' = [s EXCEPT !.url = u, !.user = Given(p, @), !.connected = FALSE]
       /\ file' = Saved(s)
       /\ wish' = "connected"

ConnectTo_KeepsOld(u, p, s, f) ==
  IF u \in BadUrls
  THEN /\ client' = None
       /\ UNCHANGED <<link, broker>>
       /\ status' = [s EXCEPT !.connected = FALSE]
       /\ file' = f
       /\ wish' = "none"
  ELSE /\ NewClient(Dialled(u), link)
       /\ status' = [s EXCEPT !.url = u, !.user = Given(p, @), !.connected = FALSE]
       /\ file' = Saved(status')
       /\ wish' = "connected"

\* connectToBroker(u, p): s is the status and f the file by now.
ConnectTo(u, p, s, f) ==
  IF u \in BadUrls
  THEN /\ client' = None
       /\ link' = Ended
       /\ status' = [s EXCEPT !.connected = FALSE]
       /\ file' = f
       /\ wish' = "none"
       /\ UNCHANGED broker
  ELSE /\ NewClient(Dialled(u), Ended)
       /\ status' = [s EXCEPT !.url = u, !.user = Given(p, @), !.connected = FALSE]
       /\ file' = Saved(status')
       /\ wish' = "connected"

\* setMqttConfig with a URL and credentials, each possibly left out.
SetConfig(u, p) ==
  LET s == [status EXCEPT !.url = Given(u, @), !.user = Given(p, @)]
      changed == /\ u # None \/ p # None
                 /\ u # status.url \/ p # status.user IN
  /\ running
  /\ Bounded
  /\ \/ /\ changed
        /\ ConnectTo(u, p, s, Saved(s))
        /\ reconnectTimer' = FALSE
     \/ /\ ~changed
        /\ status' = s
        /\ file' = Saved(s)
        /\ UNCHANGED <<linkVars, reconnectTimer, wish>>
  /\ UNCHANGED <<running, bootUrl, bootTimer>>

\* POST mqtt/connect
Connect(u, p) ==
  /\ running
  /\ Bounded
  /\ ConnectTo(u, p, status, file)
  /\ UNCHANGED <<running, timerVars>>

\* A disconnect while the 8 s timer is armed is undone when it fires.
Unasked == IF bootTimer THEN "none" ELSE "disconnected"

\* The interval goes on, or the status is left as it was.
Disconnect_KeepsTimer ==
  /\ running
  /\ Bounded
  /\ client' = None
  /\ link' = Ended
  /\ status' = [status EXCEPT !.connected = @ /\ client = None]
  /\ wish' = Unasked
  /\ UNCHANGED <<running, broker, file, timerVars>>

Disconnect_KeepsStatus ==
  /\ running
  /\ Bounded
  /\ client' = None
  /\ link' = Ended
  /\ reconnectTimer' = FALSE
  /\ wish' = Unasked
  /\ UNCHANGED <<running, broker, status, file, bootUrl, bootTimer>>

\* disconnectFromBroker
Disconnect ==
  /\ running
  /\ Bounded
  /\ client' = None
  /\ link' = Ended
  /\ status' = [status EXCEPT !.connected = @ /\ client = None]
  /\ reconnectTimer' = FALSE
  /\ wish' = Unasked
  /\ UNCHANGED <<running, broker, file, bootUrl, bootTimer>>

\* setMqttConfig({autoCreateOrders: b})
SetAutoCreate(b) ==
  /\ running
  /\ status' = [status EXCEPT !.auto = b]
  /\ file' = Saved(status')
  /\ UNCHANGED <<running, linkVars, timerVars, wish, ops>>

\* attemptConnect of startAutoReconnect, without its test of this.client.
AttemptConnect_Always(u) == NewClient(u, link)

\* attemptConnect of startAutoReconnect
AttemptConnect(u) ==
  \/ client = None /\ NewClient(u, link)
  \/ client # None /\ UNCHANGED linkVars

\* connectedOnFirstTry is never set: the 8 s timer always starts the interval.
BootTimerFires ==
  /\ bootTimer
  /\ bootTimer' = FALSE
  /\ \/ reconnectTimer /\ UNCHANGED <<linkVars, reconnectTimer>>
     \/ ~reconnectTimer /\ reconnectTimer' = TRUE /\ AttemptConnect(bootUrl)
  /\ UNCHANGED <<running, status, file, bootUrl, wish, ops>>

Tick ==
  /\ reconnectTimer
  /\ AttemptConnect(bootUrl)
  /\ UNCHANGED <<running, status, file, timerVars, wish, ops>>

----------------------------------------------------------------------------
\* Events of the mqtt library (external) and what the handlers do.

\* 'connect'
Connects(c) ==
  /\ link[c] = "connecting"
  /\ link' = [link EXCEPT ![c] = "open"]
  /\ status' = [status EXCEPT !.connected = TRUE]
  /\ reconnectTimer' = FALSE
  /\ UNCHANGED <<running, client, broker, file, bootUrl, bootTimer, wish, ops>>

\* 'close' of a client that the library has try again, without end: the attempts are
\* counted for the log only.
Drops(c) ==
  /\ link[c] \in Alive
  /\ link' = [link EXCEPT ![c] = "connecting"]
  /\ status' = [status EXCEPT !.connected = FALSE]
  /\ UNCHANGED <<running, client, broker, file, timerVars, wish, ops>>

\* 'close' of a client that was ended; it marks the status of its successor.
Closes(c) ==
  /\ link[c] = "ending"
  /\ link' = [link EXCEPT ![c] = "free"]
  /\ status' = [status EXCEPT !.connected = FALSE]
  /\ UNCHANGED <<running, client, broker, file, timerVars, wish, ops>>

\* The backend stops and starts.
GatewayRestart ==
  /\ running
  /\ Bounded
  /\ Boot(file)

GatewayStep ==
  \/ \E u \in Urls \cup {None}, p \in Users \cup {None} : SetConfig(u, p)
  \/ \E u \in Urls, p \in Users \cup {None} : Connect(u, p)
  \/ Disconnect
  \/ BootTimerFires \/ Tick
  \/ \E c \in Clients : Connects(c) \/ Drops(c) \/ Closes(c)

GatewayNext ==
  \/ GatewayStep
  \/ \E b \in BOOLEAN : SetAutoCreate(b)
  \/ GatewayRestart

GatewaySpec == GatewayInit /\ [][GatewayNext]_gatewayVars

----------------------------------------------------------------------------
\* Types; the file is one the service has written.
GatewayTypeOK ==
  /\ running \in BOOLEAN
  /\ client \in Clients \cup {None}
  /\ link \in [Clients -> {"free", "connecting", "open", "ending"}]
  /\ broker \in [Clients -> Urls]
  /\ status \in StatusType
  /\ file \in FileType
  /\ bootUrl \in Urls
  /\ bootTimer \in BOOLEAN
  /\ reconnectTimer \in BOOLEAN
  /\ wish \in {"none", "connected", "disconnected"}
  /\ ops \in 0..MaxOps

\* Whatever operators, timers and restarts do, the only client that is
\* connected or trying is this.client: a forgotten one would go on importing
\* orders.
OneLiveClient == \A c \in Clients : link[c] \in Alive <=> c = client

\* The gateway never reports a connection it does not have, whichever client
\* the last event came from.
ConnectedIsReal == status.connected => client # None /\ link[client] = "open"

\* A disconnect by the operator after the 8 s timer of the start is over holds:
\* no timer and no late event brings the connection back.
DisconnectHolds == wish = "disconnected" => client = None

\* After a connect of the operator the client is one for the broker of the
\* status, and the timers do not replace it by one for the broker of the start.
OperatorsBroker ==
  wish = "connected" => client # None /\ broker[client] = Dialled(status.url)

\* What a restart will find in the file is what the gateway shows now.
FileIsCurrent == file = Saved(status)

=============================================================================
