----------------------------- MODULE MCMcpTools -----------------------------
(* Instances of McpTools small enough for TLC.                             *)
EXTENDS McpTools, TLC

\* Neither the handlers, nor the tools, nor the services differ.
MCSymmetry ==
  Permutations(Handlers) \cup Permutations(Tools) \cup Permutations(Services)
=============================================================================
