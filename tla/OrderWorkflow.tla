--------------------------- MODULE OrderWorkflow ---------------------------
(***************************************************************************)
(* The workflow of an order as its table of transitions promises it: an    *)
(* order is created pending, moves along the table, and may be deleted; it *)
(* does not come back.  Orders, with one request at a time, refines it.    *)
(***************************************************************************)

CONSTANTS
  Orders,    \* order ids
  Statuses,
  Moves      \* pairs <<from, to>> an order may take

VARIABLES state  \* state[o]: a status, "unborn" or "deleted"

WorkflowInit == state \in [Orders -> {"unborn", "pending"}]

Create(o) == state[o] = "unborn" /\ state' = [state EXCEPT ![o] = "pending"]

Move(o, s) == <<state[o], s>> \in Moves /\ state' = [state EXCEPT ![o] = s]

Delete(o) == state[o] \in Statuses /\ state' = [state EXCEPT ![o] = "deleted"]

WorkflowNext ==
  \E o \in Orders : Create(o) \/ Delete(o) \/ \E s \in Statuses : Move(o, s)

WorkflowSpec == WorkflowInit /\ [][WorkflowNext]_state
=============================================================================
