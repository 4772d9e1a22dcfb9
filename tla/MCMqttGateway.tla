--------------------------- MODULE MCMqttGateway ---------------------------
(***************************************************************************)
(* A small instance of MqttGateway: the default broker, a second one and a *)
(* URL that cannot be parsed.                                              *)
(***************************************************************************)
EXTENDS MqttGateway, TLC

CONSTANTS c1, c2, c3, c4, u1

Symmetric == Permutations(Clients)
=============================================================================
