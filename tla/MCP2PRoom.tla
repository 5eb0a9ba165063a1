----------------------------- MODULE MCP2PRoom -----------------------------
(***************************************************************************)
(* P2PRoom for TLC, with two polls in flight.                              *)
(***************************************************************************)
EXTENDS P2PRoom
=============================================================================
