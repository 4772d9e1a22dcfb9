------------------------------ MODULE Simulator ------------------------------
(***************************************************************************)
(* One station of the line simulator (simulator/src/index.ts): a state     *)
(* machine driven by an interval of half a cycle, with timers it starts    *)
(* and never cancels.  In Processing every tick counts another carrier and *)
(* starts another timer of a whole cycle, so timers outlive their cycle.   *)
(* Time is counted in ticks: a timer of two ticks may expire shortly       *)
(* before or after the second tick, and the timers of 50 to 200 ms expire  *)
(* before the next one, since no configured cycle is shorter than 3 s.     *)
(***************************************************************************)
EXTENDS Naturals

VARIABLES
  currentState,
  xStart, xAck, xDone, xErrL0,  \* the signals the state machine reads or sets
  cycleTimers,   \* ages, in ticks, of the timers that will raise xDone
  pulse,         \* the pulse of xAck: "none", "rise" or "fall" comes next
  clearing       \* the timer that ends the cycle is running

signalVars == <<xStart, xAck, xDone, xErrL0>>
timerVars == <<cycleTimers, pulse, clearing>>
simVars == <<currentState, signalVars, timerVars>>

SimInit ==
  /\ currentState = "Idle"
  /\ xStart = 0 /\ xAck = 0 /\ xDone = 0 /\ xErrL0 = 0
  /\ cycleTimers = {} /\ pulse = "none" /\ clearing = FALSE

\* The interval fires: the short timers have expired, and no timer is overdue.
Tick(from) ==
  /\ currentState = from /\ pulse = "none" /\ ~clearing /\ 2 \notin cycleTimers
Older == {a + 1 : a \in cycleTimers}

\* Idle; and WaitingForStart, Processing, WaitForAck, Error with nothing to do.
TickOnly ==
  /\ \E s \in {"WaitingForStart", "Processing", "WaitForAck", "Error"} : Tick(s)
  /\ currentState \in {"WaitingForStart", "Processing"} => xStart = 0
  /\ currentState = "WaitForAck" => xAck = 0
  /\ currentState = "Error" => xErrL0 = 0
  /\ cycleTimers' = Older
  /\ UNCHANGED <<currentState, signalVars, pulse, clearing>>
Awakes ==
  /\ Tick("Idle") /\ currentState' = "WaitingForStart" /\ cycleTimers' = Older
  /\ UNCHANGED <<signalVars, pulse, clearing>>

Starts ==
  /\ Tick("WaitingForStart") /\ xStart = 1
  /\ currentState' = "Processing" /\ pulse' = "rise" /\ cycleTimers' = Older
  /\ UNCHANGED <<signalVars, clearing>>

\* A carrier is counted; by chance an error, else one more timer.
Processes ==
  /\ Tick("Processing") /\ xStart = 1
  /\ \/ currentState' = "Error" /\ cycleTimers' = Older
     \/ currentState' = currentState /\ cycleTimers' = Older \cup {0}
  /\ UNCHANGED <<signalVars, pulse, clearing>>

\* A bug: the end of the cycle is not scheduled.
Acknowledged_NoTimer ==
  /\ Tick("WaitForAck") /\ xAck = 1
  /\ clearing' = FALSE /\ cycleTimers' = Older
  /\ UNCHANGED <<currentState, signalVars, pulse>>
Acknowledged ==
  /\ Tick("WaitForAck") /\ xAck = 1
  /\ clearing' = TRUE /\ cycleTimers' = Older
  /\ UNCHANGED <<currentState, signalVars, pulse>>

ErrorReset ==
  /\ Tick("Error") /\ xErrL0 = 1
  /\ currentState' = "Idle" /\ cycleTimers' = Older
  /\ UNCHANGED <<signalVars, pulse, clearing>>

\* A timer of a cycle expires, in whatever state the station is by then.
CycleEnds ==
  /\ \E a \in cycleTimers : a > 0 /\ cycleTimers' = cycleTimers \ {a}
  /\ xDone' = 1 /\ currentState' = "WaitForAck"
  /\ UNCHANGED <<xStart, xAck, xErrL0, pulse, clearing>>

PulseMoves ==
  /\ pulse # "none"
  /\ xAck' = (IF pulse = "rise" THEN 1 ELSE 0)
  /\ pulse' = (IF pulse = "rise" THEN "fall" ELSE "none")
  /\ UNCHANGED <<currentState, xStart, xDone, xErrL0, cycleTimers, clearing>>

Clears ==
  /\ clearing /\ clearing' = FALSE
  /\ xDone' = 0 /\ currentState' = "Idle"
  /\ UNCHANGED <<xStart, xAck, xErrL0, cycleTimers, pulse>>

\* An OPC UA client or POST /api/command sets a signal.
Commands ==
  /\ \/ xStart' \in {0, 1} /\ UNCHANGED <<xAck, xDone, xErrL0>>
     \/ xAck' \in {0, 1} /\ UNCHANGED <<xStart, xDone, xErrL0>>
     \/ xDone' \in {0, 1} /\ UNCHANGED <<xStart, xAck, xErrL0>>
     \/ xErrL0' \in {0, 1} /\ UNCHANGED <<xStart, xAck, xDone>>
  /\ UNCHANGED <<currentState, timerVars>>

Timers == CycleEnds \/ PulseMoves \/ Clears
Ticks == TickOnly \/ Awakes \/ Starts \/ Processes \/ Acknowledged \/ ErrorReset

SimNext == Ticks \/ Timers \/ Commands

\* Timers fire; clients that watch the station raise a signal that is down, again
\* and again if others take it down; an error is not drawn for ever.
SimSpec ==
  /\ SimInit /\ [][SimNext]_simVars
  /\ WF_simVars(Awakes \/ Timers)
  /\ WF_simVars(Commands /\ xStart < xStart') /\ WF_simVars(Commands /\ xAck < xAck')
  /\ WF_simVars(Commands /\ xErrL0 < xErrL0')
  /\ SF_simVars(Starts) /\ SF_simVars(Acknowledged) /\ SF_simVars(ErrorReset)
  /\ SF_simVars(Processes /\ currentState' = "Processing")

-----------------------------------------------------------------------------
SimTypeOK ==
  /\ currentState \in {"Idle", "WaitingForStart", "Processing", "WaitForAck", "Error"}
  /\ {xStart, xAck, xDone, xErrL0} \subseteq {0, 1}
  /\ cycleTimers \subseteq 0..2 /\ pulse \in {"none", "rise", "fall"} /\ clearing \in BOOLEAN

\* Whatever timers of earlier cycles expire in between, a watched station goes
\* on: it is ready for a next start again and again.
StationComesBack == []<>(currentState = "WaitingForStart")
=============================================================================
