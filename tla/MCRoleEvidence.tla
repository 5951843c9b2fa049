--------------------------- MODULE MCRoleEvidence ---------------------------
(***************************************************************************)
(* RoleEvidence with a console that is the master of two VLANs of a trunk  *)
(* under one address, and a box on the first of them.                      *)
(***************************************************************************)
EXTENDS RoleEvidence, TLC

CONSTANTS m10, m20, b10, console, stagebox

MCPorts == {m10, m20, b10}
MCMac == (m10 :> console) @@ (m20 :> console) @@ (b10 :> stagebox)
MCVlan == (m10 :> 10) @@ (m20 :> 20) @@ (b10 :> 10)
MCPeerOf == b10 :> m10
MCChannels == (m10 :> 40) @@ (m20 :> 40) @@ (b10 :> 16)
===============================================================================
