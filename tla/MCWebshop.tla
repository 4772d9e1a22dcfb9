----------------------------- MODULE MCWebshop -----------------------------
(***************************************************************************)
(* A small instance of WebshopOrders: two pages, one message that pages    *)
(* import and the gateway accepts.                                         *)
(***************************************************************************)
EXTENDS WebshopOrders, TLC

CONSTANTS c1, c2, t1, t2, m1, m2

Symmetric == Permutations(Tabs)
=============================================================================
