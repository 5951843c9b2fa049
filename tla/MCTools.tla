------------------------------ MODULE MCTools ------------------------------
(***************************************************************************)
(* The offline tools: the history rewrite and the tools that read a corpus *)
(* of captures.  They share no state, so the steps of one are looked at    *)
(* where the other has not begun.                                          *)
(***************************************************************************)
EXTENDS MCHistoryDrop, MCCaptureTools

toolsVars == <<vars, corpusVars>>

ToolsInit == Init /\ CorpusInit

OfHistory(A) == CorpusInit /\ A /\ UNCHANGED corpusVars
OfCorpus(A) == Init /\ A /\ UNCHANGED vars

ToolsNext ==
  \/ \E r \in Refs : OfHistory(Commit(r))
  \/ OfHistory(Branch)
  \/ OfHistory(Merge)
  \/ OfHistory(EditOps)
  \/ OfHistory(Clone)
  \/ OfHistory(EditDrops)
  \/ OfHistory(OpsConfirm)
  \/ OfHistory(ListDrops)
  \/ OfHistory(FilterRepo)
  \/ OfCorpus(Open)
  \/ OfCorpus(Kill)
  \/ OfCorpus(Write)
  \/ \E p \in AllPackets, wait \in Waits : OfCorpus(Packet(p, wait))

ToolsSpec == ToolsInit /\ [][ToolsNext]_toolsVars
=============================================================================
