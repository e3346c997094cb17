----------------------------- MODULE MCMcpClient -----------------------------
(***************************************************************************)
(* An instance of McpClient for TLC: a tool call, the sweep's list_tools,  *)
(* a health check's ping and the registry closing the client.              *)
(***************************************************************************)
EXTENDS McpClient, TLC

CONSTANTS call, list, ping, close

OneOfEach ==
  (call :> "call") @@ (list :> "list") @@ (ping :> "ping") @@ (close :> "close")
==============================================================================
