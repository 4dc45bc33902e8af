--------------------------- MODULE MCMcpInstaller ---------------------------
(***************************************************************************)
(* Model-checking instance of McpInstaller: one bundle; the routes and the *)
(* reconciliation treat different bundles independently.                   *)
(***************************************************************************)
EXTENDS McpInstaller
=============================================================================
