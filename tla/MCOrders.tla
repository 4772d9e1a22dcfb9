------------------------------ MODULE MCOrders ------------------------------
(***************************************************************************)
(* Small instances of Orders: the operations each run lets clients send.   *)
(***************************************************************************)
EXTENDS Orders, TLC

CONSTANTS r1, r2, r3, r4, o1

Patch(s, q) == [kind |-> "patch", to |-> s, qty |-> q]
Route(s) == [kind |-> "route", to |-> s, qty |-> None]
Advance == [kind |-> "advance", to |-> None, qty |-> None]

\* Everything the controller offers, with the statuses that matter to a race.
AllOps ==
  {Patch("released", None), Patch("in_progress", None), Patch("completed", None), Patch(None, 1)}
  \cup {Route(s) : s \in {"in_progress", "completed", "on_hold"}} \cup {Advance}

PatchOps == {Patch(s, None) : s \in Statuses} \cup {Patch(None, 1), Advance}

\* Two clients PATCH the same order.
RaceOps == {Patch("in_progress", None), Patch("on_hold", None), Patch("cancelled", None),
            Patch("released", None)}

Symmetric == Permutations(Calls)
=============================================================================
