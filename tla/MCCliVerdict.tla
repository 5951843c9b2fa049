----------------------------- MODULE MCCliVerdict -----------------------------
(***************************************************************************)
(* CliVerdict at five taps: one stream that loses up to a turn of the      *)
(* counter and delays frames; two interleaved streams mirrored in both     *)
(* directions; one stream of a rate near another, or near none; a source   *)
(* whose frames come tagged and untagged; and one stream in a capture that *)
(* runs past midnight.                                                     *)
(***************************************************************************)
EXTENDS CliVerdict

CONSTANTS srcA, srcB

s1 == [src |-> srcA, vlan |-> NONE]
s2 == [src |-> srcB, vlan |-> 11]
s1Tagged == [src |-> srcA, vlan |-> 11]
MCStreams == {s1, s2, s1Tagged}

Lossy == [rates |-> {1}, sent |-> {1, 2}, forced |-> {1, NONE},
          streams |-> {s1}, mirrored |-> FALSE, delay |-> 1, gap |-> 7,
          time |-> 10, frames |-> 5]
Mirror == [rates |-> {1, 2}, sent |-> {2, 3}, forced |-> {NONE},
           streams |-> {s1, s2}, mirrored |-> TRUE, delay |-> 0, gap |-> 3,
           time |-> 6, frames |-> 6]
NearRates == [rates |-> {11, 12}, sent |-> {11, 13, 15}, forced |-> {11, 14, NONE},
              streams |-> {s1}, mirrored |-> FALSE, delay |-> 1, gap |-> 2,
              time |-> 46, frames |-> 4]
Trunk == [rates |-> {1}, sent |-> {1, 2}, forced |-> {NONE},
          streams |-> {s1, s1Tagged, s2}, mirrored |-> FALSE, delay |-> 0, gap |-> 2,
          time |-> 2, frames |-> 4]
Overnight == [rates |-> {1}, sent |-> {1}, forced |-> {NONE},
              streams |-> {s1}, mirrored |-> FALSE, delay |-> 0, gap |-> 13,
              time |-> 6, frames |-> 3]

LossyMirrorNear == {Lossy, Mirror, NearRates, Trunk}
OvernightOnly == {Overnight}
===============================================================================
