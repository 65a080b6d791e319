---------------------------- MODULE MCMcpClient -----------------------------
(* Small instance of the MCP client. *)
EXTENDS McpClient
=============================================================================
