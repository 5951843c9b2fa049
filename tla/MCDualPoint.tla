----------------------------- MODULE MCDualPoint -----------------------------
(***************************************************************************)
(* DualPoint with a few things going wrong at a time, tagged and untagged. *)
(***************************************************************************)
EXTENDS DualPoint

Setup(wrong, vlan) ==
  [skew |-> "skew" \in wrong, cut |-> "cut" \in wrong, repeat |-> "repeat" \in wrong,
   reorder |-> "reorder" \in wrong, foreign |-> "foreign" \in wrong, vlan |-> vlan]

MCSetups ==
  {Setup({"repeat", "reorder"}, 11), Setup({"skew", "repeat", "reorder"}, 0),
   Setup({"cut"}, 0), Setup({"cut", "foreign"}, 11), Setup({"cut"}, 12)}
==============================================================================
