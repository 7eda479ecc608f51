--------------------------- MODULE MCPanePresence ---------------------------
(***************************************************************************)
(* TLC instances of PanePresence.                                          *)
(***************************************************************************)
EXTENDS PanePresence
=============================================================================
