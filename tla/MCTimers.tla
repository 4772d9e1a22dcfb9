------------------------------ MODULE MCTimers ------------------------------
(***************************************************************************)
(* A small instance of Timers: orders under requests that come one at a    *)
(* time, the operations as MCOrders names them.                            *)
(***************************************************************************)
EXTENDS MCOrders, Timers
=============================================================================
