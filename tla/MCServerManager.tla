---------------------------- MODULE MCServerManager ----------------------------
(***************************************************************************)
(* ServerManager for TLC, with the assumptions about what it believes of a *)
(* server and about the way of its log lines.                              *)
(***************************************************************************)
EXTENDS ServerManager, MCServerHealthLogs
===============================================================================
