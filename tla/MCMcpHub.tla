------------------------------ MODULE MCMcpHub ------------------------------
(***************************************************************************)
(* Model-checking instance of McpHub: two worker threads, the event loop   *)
(* and the shutdown thread.                                                *)
(***************************************************************************)
EXTENDS McpHub
=============================================================================
