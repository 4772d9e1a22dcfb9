------------------------------- MODULE Timers -------------------------------
(***************************************************************************)
(* What an interval keeps going: the orders page, the heartbeat of the     *)
(* browser sockets and the simulated station, beside the orders.  They     *)
(* share no state here, so a behaviour is one of one of them; part names   *)
(* it, and the others stay as they began.                                  *)
(***************************************************************************)
EXTENDS Orders

CONSTANTS Polls, Clicks, Sockets, Nothing

VARIABLES
  part,
  db, shown, reading, clicked,
  clients, isAlive, peer, pinged, ponged,
  currentState, xStart, xAck, xDone, xErrL0, cycleTimers, pulse, clearing

pageOwn == <<db, shown, reading, clicked>>
feedOwn == <<clients, isAlive, peer, pinged, ponged>>
simOwn == <<currentState, xStart, xAck, xDone, xErrL0, cycleTimers, pulse, clearing>>
timersVars == <<part, vars, pageOwn, feedOwn, simOwn>>

OrderList == INSTANCE OrdersPage
Feed == INSTANCE LiveFeed
Sim == INSTANCE Simulator

TimersInit ==
  /\ part \in {"orders", "page", "feed", "sim"}
  /\ Init /\ OrderList!PageInit /\ Feed!FeedInit /\ Sim!SimInit
  /\ part # "page" => db = "absent"

\* Each part's steps; the fairness of PageSpec, FeedSpec and SimSpec is asked of
\* these, that is, where the part is at work.
OfOrders(A) == part = "orders" /\ A /\ UNCHANGED <<part, pageOwn, feedOwn, simOwn>>
OfPage(A) == part = "page" /\ A /\ UNCHANGED <<part, vars, feedOwn, simOwn>>
OfFeed(A) == part = "feed" /\ A /\ UNCHANGED <<part, vars, pageOwn, simOwn>>
OfSim(A) == part = "sim" /\ A /\ UNCHANGED <<part, vars, pageOwn, feedOwn>>

TimersNext ==
  OfOrders(Next) \/ OfPage(OrderList!PageNext) \/ OfFeed(Feed!FeedNext) \/ OfSim(Sim!SimNext)

TimersSpec ==
  /\ TimersInit /\ [][TimersNext]_timersVars
  /\ \A p \in Polls : WF_timersVars(OfPage(OrderList!ListAnswered(p) \/ OrderList!ListLost(p)))
  /\ SF_timersVars(OfPage(OrderList!ReadsList)) /\ SF_timersVars(OfPage(OrderList!OrderListed))
  /\ WF_timersVars(OfFeed(Feed!Heartbeat))
  /\ WF_timersVars(OfSim(Sim!Awakes \/ Sim!Timers))
  /\ WF_timersVars(OfSim(Sim!Commands /\ xStart < xStart'))
  /\ WF_timersVars(OfSim(Sim!Commands /\ xAck < xAck'))
  /\ WF_timersVars(OfSim(Sim!Commands /\ xErrL0 < xErrL0'))
  /\ SF_timersVars(OfSim(Sim!Starts)) /\ SF_timersVars(OfSim(Sim!Acknowledged))
  /\ SF_timersVars(OfSim(Sim!ErrorReset))
  /\ SF_timersVars(OfSim(Sim!Processes /\ currentState' = "Processing"))

-----------------------------------------------------------------------------
\* Every variable has its type.
TimersTypeOK == TypeOK /\ OrderList!PageTypeOK /\ Feed!FeedTypeOK /\ Sim!SimTypeOK

\* The orders page comes to list the order as it is (see OrdersPage).
PageCatchesUp == part = "page" => OrderList!PageCatchesUp

\* A socket whose browser is gone leaves the gateway's map (see LiveFeed).
GoneAreDropped == Feed!GoneAreDropped

\* The simulated station becomes ready again and again (see Simulator).
StationComesBack == part = "sim" => Sim!StationComesBack
=============================================================================
