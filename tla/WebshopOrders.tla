--------------------------- MODULE WebshopOrders ---------------------------
(***************************************************************************)
(* Orders of the web shop: they arrive over MQTT, the gateway creates an   *)
(* order (handleMqttOrderMessage) and forwards the message to the browser  *)
(* pages (Edge.tsx), which import it too, of their own accord or when      *)
(* somebody clicks (importWebshopOrder).  Gateway and pages each keep a    *)
(* switch "auto-create"; a page changes its own and posts it, the gateway  *)
(* tells all connected pages.                                              *)
(***************************************************************************)
EXTENDS MqttGateway, Sequences, FiniteSets

CONSTANTS
  Tabs,        \* browser pages, each opened at most once
  Messages,    \* order messages; each is published at most once (QoS 0)
  Orderable,   \* those whose quantities the gateway finds positive
  Importable,  \* those whose quantities the import route finds positive
  Lidded,      \* those with a bDeckelfarbe, which the page asks for
  MaxUses      \* bound: times somebody switches or clicks

ASSUME WebshopAssumption ==
  /\ IsFiniteSet(Tabs)
  /\ Importable \subseteq Orderable
  /\ Orderable \cup Lidded \subseteq Messages
  /\ MaxUses \in Nat

VARIABLES
  decision,  \* decision[m]: what the gateway made of message m
  creating,  \* <<c, m>>: the handler of client c is about to create the order
  orders,    \* orders[m]: orders created from m
  ws,        \* ws[t]: the page's WebSocket
  ref,       \* ref[t]: autoCreateRef
  box,       \* box[t]: the check box, autoCreateOrder
  trust,     \* history: has the gateway confirmed ref[t]?
  wire,      \* wire[t]: events on their way to the page, in order
  pending,   \* pending[t]: the page's list of open orders
  toggles,   \* POSTs of the switch under way
  imports,   \* POSTs of an import under way
  clicked,   \* history: clicks on "Erstellen" for m
  uses

messageVars == <<decision, creating, orders>>
pageVars == <<ws, ref, box, trust, wire, pending>>
requestVars == <<toggles, imports, clicked, uses>>
vars == <<gatewayVars, messageVars, pageVars, requestVars>>

\* Events of the event bus a page acts on (and one without its type).
OrderEvent_Untyped(m) == [msg |-> m]
OrderEvent(m) == [kind |-> "order", msg |-> m]
AutoEvent(b) == [kind |-> "auto", on |-> b]

EventType == [kind : {"order"}, msg : Messages] \cup [kind : {"auto"}, on : BOOLEAN]

Live == {t \in Tabs : ws[t] = "live"}

\* EventGateway.broadcast: to every socket that is open, in order.
Broadcast(es) == wire' = [t \in Tabs |-> IF t \in Live THEN wire[t] \o es ELSE wire[t]]

Used == uses < MaxUses /\ uses' = uses + 1

Init ==
  /\ GatewayInit
  /\ decision = [m \in Messages |-> "none"]
  /\ creating = {}
  /\ orders = [m \in Messages |-> 0]
  /\ ws = [t \in Tabs |-> "none"]
  /\ ref = [t \in Tabs |-> TRUE]
  /\ box = [t \in Tabs |-> TRUE]
  /\ trust = [t \in Tabs |-> "fresh"]
  /\ wire = [t \in Tabs |-> <<>>]
  /\ pending = [t \in Tabs |-> <<>>]
  /\ toggles = {}
  /\ imports = {}
  /\ clicked = [m \in Messages |-> 0]
  /\ uses = 0

----------------------------------------------------------------------------
\* The gateway.

Openers == {c \in Clients : link[c] = "open"}

Decided(m) ==
  CASE m \notin Orderable -> "skipped"
    [] m \in Orderable /\ status.auto -> "taken"
    [] OTHER -> "waiting"

\* 'message': every open client forwards it to the pages, then handles it.
Publish(m) ==
  /\ decision[m] = "none"
  /\ Openers # {}
  /\ decision' = [decision EXCEPT ![m] = Decided(m)]
  /\ creating' = creating \cup
       (IF Decided(m) = "taken" THEN Openers \X {m} ELSE {})
  /\ Broadcast([i \in 1..Cardinality(Openers) |-> OrderEvent(m)])
  /\ UNCHANGED <<gatewayVars, orders, ws, ref, box, trust, pending, requestVars>>

Created(m) == orders' = [orders EXCEPT ![m] = @ + 1]

\* The handler waits for the machines and for the insert, and may fail; the
\* first form tries again after an insert.
CreateOrder_Retries ==
  \E h \in creating :
    /\ Created(h[2])
    /\ creating' \in {creating, creating \ {h}}
    /\ UNCHANGED <<gatewayVars, decision, pageVars, requestVars>>

CreateOrder ==
  \E h \in creating :
    /\ creating' = creating \ {h}
    /\ Created(h[2]) \/ UNCHANGED orders
    /\ UNCHANGED <<gatewayVars, decision, pageVars, requestVars>>

\* toggleAutoCreate: the pages are told when the switch has moved.
SwitchTold(b) ==
  /\ SetAutoCreate(b)
  /\ IF b # status.auto THEN Broadcast(<<AutoEvent(b)>>) ELSE UNCHANGED wire

\* A POST that arrives confirms the page's value, if it is that value and the
\* page will hear of later changes.
ToggleArrives ==
  \E r \in toggles :
    /\ ~r.done
    /\ SwitchTold(r.on)
    /\ toggles' = (toggles \ {r}) \cup {[r EXCEPT !.done = TRUE]}
    /\ trust' = [trust EXCEPT ![r.tab] =
                   IF ws[r.tab] = "live" /\ r.on = ref[r.tab] THEN "synced" ELSE @]
    /\ UNCHANGED <<messageVars, ws, ref, box, pending, imports, clicked, uses>>

\* importWebshopOrder, which does not look at the switch.
ImportArrives ==
  \E r \in imports :
    /\ ~r.done
    /\ r.msg \in Importable
    /\ running
    /\ Created(r.msg)
    /\ imports' = (imports \ {r}) \cup {[r EXCEPT !.done = TRUE]}
    /\ UNCHANGED <<gatewayVars, decision, creating, pageVars, toggles, clicked, uses>>

\* A bad request, no machine, or a failed insert; the page ignores it.
ImportFails ==
  \E r \in imports :
    /\ ~r.done
    /\ imports' = imports \ {r}
    /\ UNCHANGED <<gatewayVars, messageVars, pageVars, toggles, clicked, uses>>

----------------------------------------------------------------------------
\* The page.

\* A page opens with both of its switches on, whatever the gateway's says.
PageOpens(t) ==
  /\ running
  /\ ws[t] = "none"
  /\ ws' = [ws EXCEPT ![t] = "connecting"]
  /\ UNCHANGED <<gatewayVars, messageVars, ref, box, trust, wire, pending, requestVars>>

\* The socket is accepted: the events below reach it before and after it subscribes
\* to mqtt/, since a client without topics gets all.
SocketOpens(t) ==
  /\ running
  /\ ws[t] = "connecting"
  /\ ws' = [ws EXCEPT ![t] = "live"]
  /\ UNCHANGED <<gatewayVars, messageVars, ref, box, trust, wire, pending, requestVars>>

\* The socket is never opened again; the page may stay.
SocketLost(t) ==
  /\ ws[t] \in {"connecting", "live"}
  /\ ws' = [ws EXCEPT ![t] = "deaf"]
  /\ wire' = [wire EXCEPT ![t] = <<>>]
  /\ UNCHANGED <<gatewayVars, messageVars, ref, box, trust, pending, requestVars>>

\* Requests that are otherwise alike get the least number that is free.
Free(n, S) ==
  /\ \A r \in S : r.n # n
  /\ \A k \in 0..(n - 1) : \E r \in S : r.n = k

Request(t, m, at, n) == [tab |-> t, msg |-> m, at |-> at, n |-> n, done |-> FALSE]

\* News of the switch that only the check box follows.
HearsAuto_BoxOnly(t) ==
  /\ wire[t] # <<>>
  /\ Head(wire[t]).kind = "auto"
  /\ box' = [box EXCEPT ![t] = Head(wire[t]).on]
  /\ trust' = [trust EXCEPT ![t] = "synced"]
  /\ wire' = [wire EXCEPT ![t] = Tail(@)]
  /\ UNCHANGED <<gatewayVars, messageVars, ws, ref, pending, requestVars>>

\* An event reaches the page: the switch, or an order to show and import.
HearsAuto(t) ==
  /\ wire[t] # <<>>
  /\ Head(wire[t]).kind = "auto"
  /\ ref' = [ref EXCEPT ![t] = Head(wire[t]).on]
  /\ box' = [box EXCEPT ![t] = Head(wire[t]).on]
  /\ trust' = [trust EXCEPT ![t] = "synced"]
  /\ wire' = [wire EXCEPT ![t] = Tail(@)]
  /\ UNCHANGED <<gatewayVars, messageVars, ws, pending, requestVars>>

HearsOrder(t) ==
  /\ wire[t] # <<>>
  /\ Head(wire[t]).kind = "order"
  /\ LET m == Head(wire[t]).msg IN
       /\ pending' = [pending EXCEPT ![t] = Append(@, m)]
       /\ imports' = imports \cup
            (IF ref[t] /\ m \in Lidded THEN {Request(t, m, 0, 0)} ELSE {})
  /\ wire' = [wire EXCEPT ![t] = Tail(@)]
  /\ UNCHANGED <<gatewayVars, messageVars, ws, ref, box, trust, toggles, clicked, uses>>

\* The check box: the new value counts for the page at once.
Toggle(t) ==
  \E n \in 0..MaxUses :
    /\ Used
    /\ ws[t] # "none"
    /\ Free(n, toggles)
    /\ ref' = [ref EXCEPT ![t] = ~box[t]]
    /\ toggles' = toggles \cup {[tab |-> t, on |-> ~box[t], n |-> n, done |-> FALSE]}
    /\ UNCHANGED <<gatewayVars, messageVars, ws, box, trust, wire, pending,
                   imports, clicked>>

\* The POST does not reach the gateway; the page keeps its value.
ToggleFails ==
  \E r \in toggles :
    /\ ~r.done
    /\ toggles' = toggles \ {r}
    /\ trust' = [trust EXCEPT ![r.tab] = "failed"]
    /\ UNCHANGED <<gatewayVars, messageVars, ws, ref, box, wire, pending,
                   imports, clicked, uses>>

\* The check box follows the answer, unless that is lost.
ToggleAnswered ==
  \E r \in toggles :
    /\ r.done
    /\ toggles' = toggles \ {r}
    /\ box' \in {box, [box EXCEPT ![r.tab] = r.on]}
    /\ UNCHANGED <<gatewayVars, messageVars, ws, ref, trust, wire, pending,
                   imports, clicked, uses>>

\* "Erstellen" at a line of the list, offered while the box is not checked.
Click(t, i) ==
  \E n \in 0..MaxUses :
    /\ Used
    /\ ws[t] # "none"
    /\ ~box[t]
    /\ i \in DOMAIN pending[t]
    /\ Free(n, {r \in imports : r.at # 0})
    /\ imports' = imports \cup {Request(t, pending[t][i], i, n)}
    /\ clicked' = [clicked EXCEPT ![pending[t][i]] = @ + 1]
    /\ UNCHANGED <<gatewayVars, messageVars, pageVars, toggles>>

\* The lines of list l that are not of message m.
Without(l, m) ==
  LET kept[i \in 0..Len(l)] ==
        IF i = 0 THEN <<>>
        ELSE IF l[i] = m THEN kept[i - 1] ELSE Append(kept[i - 1], l[i])
  IN  kept[Len(l)]

\* After an import of its own the page drops the lines of that message, after
\* a click the line that now has the number clicked, if there is one; and nothing
\* when the answer is lost.
Dropped(l, r) ==
  CASE r.at = 0          -> Without(l, r.msg)
    [] r.at \in DOMAIN l -> SubSeq(l, 1, r.at - 1) \o SubSeq(l, r.at + 1, Len(l))
    [] OTHER             -> l

ImportAnswered ==
  \E r \in imports :
    /\ r.done
    /\ imports' = imports \ {r}
    /\ pending' \in {pending, [pending EXCEPT ![r.tab] = Dropped(@, r)]}
    /\ UNCHANGED <<gatewayVars, messageVars, ws, ref, box, trust, wire,
                   toggles, clicked, uses>>

----------------------------------------------------------------------------
\* The backend stops and starts: the sockets close, requests that it
\* has not answered are lost.
Restart ==
  /\ GatewayRestart
  /\ creating' = {}
  /\ ws' = [t \in Tabs |-> IF ws[t] = "none" THEN "none" ELSE "deaf"]
  /\ wire' = [t \in Tabs |-> <<>>]
  /\ toggles' = {r \in toggles : r.done}
  /\ imports' = {r \in imports : r.done}
  /\ trust' = [t \in Tabs |->
       IF \E r \in toggles : r.tab = t /\ ~r.done THEN "failed" ELSE trust[t]]
  /\ UNCHANGED <<decision, orders, ref, box, pending, clicked, uses>>

Next ==
  \/ GatewayStep /\ UNCHANGED <<messageVars, pageVars, requestVars>>
  \/ Restart
  \/ \E m \in Messages : Publish(m)
  \/ CreateOrder
  \/ ToggleArrives \/ ToggleFails \/ ToggleAnswered
  \/ ImportArrives \/ ImportFails \/ ImportAnswered
  \/ \E t \in Tabs :
       \/ PageOpens(t) \/ SocketOpens(t) \/ SocketLost(t)
       \/ HearsAuto(t) \/ HearsOrder(t) \/ Toggle(t)
       \/ \E i \in 1..Len(pending[t]) : Click(t, i)

Spec == Init /\ [][Next]_vars

----------------------------------------------------------------------------
\* Types.
TypeOK ==
  /\ decision \in [Messages -> {"none", "skipped", "taken", "waiting"}]
  /\ creating \subseteq Clients \X Messages
  /\ orders \in [Messages -> Nat]
  /\ ws \in [Tabs -> {"none", "connecting", "live", "deaf"}]
  /\ ref \in [Tabs -> BOOLEAN]
  /\ box \in [Tabs -> BOOLEAN]
  /\ trust \in [Tabs -> {"fresh", "synced", "failed"}]
  /\ wire \in [Tabs -> Seq(EventType)]
  /\ pending \in [Tabs -> Seq(Messages)]
  /\ toggles \subseteq [tab : Tabs, on : BOOLEAN, n : Nat, done : BOOLEAN]
  /\ imports \subseteq [tab : Tabs, msg : Messages, at : Nat, n : Nat, done : BOOLEAN]
  /\ clicked \in [Messages -> Nat]
  /\ uses \in 0..MaxUses

\* The page has heard all there is about the switch and asked for no change.
Settled(t) ==
  /\ ws[t] = "live"
  /\ trust[t] = "synced"
  /\ \A i \in DOMAIN wire[t] : wire[t][i].kind # "auto"
  /\ \A r \in toggles : r.tab = t => r.done

\* Whatever order the switches of several pages, the gateway's news and the
\* answers come in, a settled page imports exactly if the gateway creates.
SyncedTabsAgree == \A t \in Tabs : Settled(t) => ref[t] = status.auto

\* Reconnections, restarts and switches never replay a message: it makes at
\* most one order at the gateway, one per page and one per click.
NoReplays == \A m \in Messages : orders[m] <= 1 + Cardinality(Tabs) + clicked[m]

----------------------------------------------------------------------------
\* mqtt-gateway.service.ts:229, "Auto-create disabled — pending order, waiting
\* for manual creation": no order before somebody clicks.
WaitsForClick == \A m \in Messages : decision[m] = "waiting" => orders[m] <= clicked[m]
=============================================================================
