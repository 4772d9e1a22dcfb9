------------------------------ MODULE LiveFeed ------------------------------
(***************************************************************************)
(* The browser sockets of the edge WebSocket gateway                       *)
(* (events/edge-gateway.service.ts): the map of clients and the heartbeat  *)
(* that pings them every 30 s and drops who did not answer.  What is       *)
(* broadcast to the clients is WebshopOrders' subject.                     *)
(***************************************************************************)
CONSTANT Sockets    \* the sockets pages open, one for each visit of a page

VARIABLES
  clients,     \* sockets in the gateway's map
  isAlive,     \* isAlive[c]: the flag on the server's end of socket c
  peer,        \* peer[c]: the browser's end
  pinged,      \* sockets with a ping under way
  ponged       \* sockets with a pong under way

feedVars == <<clients, isAlive, peer, pinged, ponged>>

FeedInit ==
  /\ clients = {} /\ pinged = {} /\ ponged = {}
  /\ isAlive = [c \in Sockets |-> FALSE]
  /\ peer = [c \in Sockets |-> "unopened"]

Connects(c) ==
  /\ peer[c] = "unopened" /\ peer' = [peer EXCEPT ![c] = "open"]
  /\ clients' = clients \cup {c} /\ isAlive' = [isAlive EXCEPT ![c] = TRUE]
  /\ UNCHANGED <<pinged, ponged>>

\* A bug: the flag is not taken down with the ping.
Heartbeat_FlagStays ==
  LET dropped == {c \in clients : ~isAlive[c]} IN
  /\ clients # {} /\ clients' = clients \ dropped
  /\ isAlive' = isAlive
  /\ pinged' = (pinged \cup clients) \ dropped
  /\ peer' = [c \in Sockets |-> IF c \in dropped /\ peer[c] = "open" THEN "closed" ELSE peer[c]]
  /\ UNCHANGED ponged
\* The interval: who has not answered the last ping is terminated and deleted,
\* the others are pinged.
Heartbeat ==
  LET dropped == {c \in clients : ~isAlive[c]} IN
  /\ clients # {} /\ clients' = clients \ dropped
  /\ isAlive' = [c \in Sockets |-> isAlive[c] /\ c \notin clients]
  /\ pinged' = (pinged \cup clients) \ dropped
  /\ peer' = [c \in Sockets |-> IF c \in dropped /\ peer[c] = "open" THEN "closed" ELSE peer[c]]
  /\ UNCHANGED ponged

\* A browser answers pings by itself.
Pongs(c) ==
  /\ c \in pinged /\ peer[c] = "open"
  /\ pinged' = pinged \ {c} /\ ponged' = ponged \cup {c}
  /\ UNCHANGED <<clients, isAlive, peer>>

\* The pong may arrive when its peer has vanished since, or was dropped.
PongArrives(c) ==
  /\ c \in ponged /\ ponged' = ponged \ {c}
  /\ isAlive' = [isAlive EXCEPT ![c] = TRUE]
  /\ UNCHANGED <<clients, peer, pinged>>

\* What goes to a peer that is gone is lost.
PingLost(c) ==
  /\ c \in pinged /\ peer[c] # "open"
  /\ pinged' = pinged \ {c}
  /\ UNCHANGED <<clients, isAlive, peer, ponged>>

\* The page is left, or the network fails without a word.
Closes(c) == peer[c] = "open" /\ peer' = [peer EXCEPT ![c] = "closed"]
             /\ UNCHANGED <<clients, isAlive, pinged, ponged>>
Vanishes(c) == peer[c] = "open" /\ peer' = [peer EXCEPT ![c] = "vanished"]
               /\ UNCHANGED <<clients, isAlive, pinged, ponged>>

\* The close event at the gateway.
CloseArrives(c) ==
  /\ peer[c] = "closed" /\ c \in clients
  /\ clients' = clients \ {c}
  /\ UNCHANGED <<isAlive, peer, pinged, ponged>>

\* The backend restarts: every socket is closed, no page opens it again.
FeedRestart ==
  /\ clients # {} /\ clients' = {} /\ pinged' = {} /\ ponged' = {}
  /\ isAlive' = [c \in Sockets |-> FALSE]
  /\ peer' = [c \in Sockets |-> IF peer[c] = "open" THEN "closed" ELSE peer[c]]

FeedNext ==
  \/ Heartbeat \/ FeedRestart
  \/ \E c \in Sockets : \/ Connects(c) \/ Pongs(c) \/ PongArrives(c)
                        \/ PingLost(c) \/ Closes(c) \/ Vanishes(c) \/ CloseArrives(c)

\* The interval fires for ever; nothing else is promised, not even close events.
FeedSpec == FeedInit /\ [][FeedNext]_feedVars /\ WF_feedVars(Heartbeat)

-----------------------------------------------------------------------------
FeedTypeOK ==
  /\ clients \subseteq Sockets /\ pinged \cup ponged \subseteq Sockets
  /\ isAlive \in [Sockets -> BOOLEAN]
  /\ peer \in [Sockets -> {"unopened", "open", "closed", "vanished"}]

\* A socket whose peer is gone leaves the map although no close event comes,
\* even if a last pong of it arrives late and raises the flag once more.
GoneAreDropped == \A c \in Sockets : peer[c] \in {"vanished", "closed"} ~> c \notin clients
=============================================================================
