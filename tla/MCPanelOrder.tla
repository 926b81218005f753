---------------------------- MODULE MCPanelOrder ----------------------------
(***************************************************************************)
(* Values for PanelOrder's list of default panels.                         *)
(***************************************************************************)
EXTENDS PanelOrder

\* Home ("myzone") is listed and required.
MyzoneDefaults == <<"myzone">>
=============================================================================
