------------------------------ MODULE MCRouter ------------------------------
(* Lists of up to three rules from one device to two others, with and        *)
(* without a predicate, and a rule of a device to itself (refused); up to    *)
(* two messages from that device, from one no rule names, from nobody, and   *)
(* empty ones.                                                               *)
EXTENDS RouterSystem

MCRules == [from : {"con"}, to : {"ser", "cap", "con"}, pred : {"nullptr", "isRaw"}]

MCTraffic ==
  [source : {"con", "tun"}, front : {"x00", "other"}, body : {<<1>>}]
  \cup {Empty, [source |-> Null, front |-> "x00", body |-> <<1>>]}
=============================================================================
