--------------------------- MODULE HandshakeLock ---------------------------
(***************************************************************************)
(* What SpsDispatcherService.dispatch promises its callers, and nothing    *)
(* about how: one handshake at a time for the whole plant, a caller that   *)
(* comes while one is running is refused at once, an admitted caller is    *)
(* settled (with whatever result), and a crash of the backend loses the    *)
(* running handshake but frees the lock.                                   *)
(* SpsDispatcher refines this module; Orders is built on top of it.        *)
(***************************************************************************)

CONSTANTS
  Calls,   \* the invocations of dispatch
  None     \* "no call"

ASSUME NoneIsNoCall == None \notin Calls

VARIABLES
  holder,  \* the call whose handshake is running, or None
  phase    \* phase[c]: how far call c is

lockVars == <<holder, phase>>

Phases == {"new", "running", "refused", "settled", "lost"}

LockTypeOK ==
  /\ holder \in Calls \cup {None}
  /\ phase \in [Calls -> Phases]

LockInit ==
  /\ holder = None
  /\ phase = [c \in Calls |-> "new"]

\* dispatch() finds isProcessing = false and takes it.
Admit(c) ==
  /\ phase[c] = "new"
  /\ holder = None
  /\ holder' = c
  /\ phase' = [phase EXCEPT ![c] = "running"]

\* dispatch() finds isProcessing = true and returns at once.
Refuse(c) ==
  /\ phase[c] = "new"
  /\ holder # None
  /\ phase' = [phase EXCEPT ![c] = "refused"]
  /\ UNCHANGED holder

\* dispatch() returns or throws; its finally block frees isProcessing.
Settle(c) ==
  /\ holder = c
  /\ phase[c] = "running"
  /\ holder' = None
  /\ phase' = [phase EXCEPT ![c] = "settled"]

\* The backend process dies and is started again.
LoseAll ==
  /\ holder' = None
  /\ phase' = [c \in Calls |-> IF phase[c] = "running" THEN "lost" ELSE phase[c]]

LockNext ==
  \/ \E c \in Calls : Admit(c) \/ Refuse(c) \/ Settle(c)
  \/ LoseAll

LockSpec == LockInit /\ [][LockNext]_lockVars

\* A running handshake is settled sooner or later (the 5 s timeout of
\* waitForStMesAck and the finally block), unless the process dies first.
FairLockSpec == LockSpec /\ \A c \in Calls : WF_lockVars(Settle(c))

=============================================================================
