-------------------------------- MODULE MCPortal --------------------------------
(***************************************************************************)
(* Portal with the panels of PanelTables.                                  *)
(***************************************************************************)
EXTENDS Portal, PanelTables
=================================================================================
