------------------------------- MODULE MCMumsh -------------------------------
(***************************************************************************)
(* The instances of Mumsh that TLC checks.                                 *)
(***************************************************************************)
EXTENDS Mumsh

MCPipelines ==
  {<<"writer", "brief">>, <<"brief", "filter", "filter">>}
=============================================================================
