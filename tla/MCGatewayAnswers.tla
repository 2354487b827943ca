-------------------------- MODULE MCGatewayAnswers --------------------------
(* Small instances of GatewayAnswers for TLC. *)
EXTENDS MCGateway, GatewayAnswers
=============================================================================
