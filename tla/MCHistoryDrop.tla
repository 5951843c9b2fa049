---------------------------- MODULE MCHistoryDrop ----------------------------
(***************************************************************************)
(* HistoryDrop with a dated note and a file of the name rules.             *)
(***************************************************************************)
EXTENDS HistoryDrop

CONSTANTS note, agents

MCPaths == {note, agents}
==============================================================================
