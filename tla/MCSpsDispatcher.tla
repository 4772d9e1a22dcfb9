-------------------------- MODULE MCSpsDispatcher --------------------------
(***************************************************************************)
(* Small plants for SpsDispatcher: k1 belongs to station s1, k2 to s2; the *)
(* identifier i1 names k1 directly, i2 is an order id whose digits happen  *)
(* to be the number of k2.                                                 *)
(***************************************************************************)
EXTENDS SpsDispatcher, TLC

CONSTANTS c1, c2, c3, k1, k2, s1, s2, i1, i2

MCById == i1 :> k1 @@ i2 :> None
MCByName == i1 :> None @@ i2 :> None
MCByDigits == i1 :> None @@ i2 :> k2
MCResource == k1 :> s1 @@ k2 :> s2
MCPar == k1 :> 2 @@ k2 :> 0

MCRequests == {[ident |-> i1, station |-> None], [ident |-> i1, station |-> s1],
               [ident |-> i2, station |-> None]}

\* A line with one station.
MCResourceOne == k1 :> s1 @@ k2 :> s1
MCRequestsOne == {[ident |-> i1, station |-> s1], [ident |-> i2, station |-> None]}

Symmetric == Permutations(Calls)
=============================================================================
