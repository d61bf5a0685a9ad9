-------------------------------- MODULE MCSwitch --------------------------------
(* A switch for TLC: the CPU sends an express multicast, a low frame and   *)
(* one to its own address; gate A brings a high multicast, which goes on   *)
(* and to the CPU; gate B brings a low frame that is only passed on and    *)
(* this node's own express multicast, which has gone round.                *)
EXTENDS Switch

MixedTraffic ==
  {[gate |-> "C", src |-> "me",    dest |-> "group", prio |-> "EXPRESS", len |-> 1],
   [gate |-> "C", src |-> "me",    dest |-> "other", prio |-> "LOW",     len |-> 1],
   [gate |-> "C", src |-> "me",    dest |-> "me",    prio |-> "LOW",     len |-> 1],
   [gate |-> "A", src |-> "other", dest |-> "group", prio |-> "HIGH",    len |-> 2],
   [gate |-> "B", src |-> "other", dest |-> "other", prio |-> "LOW",     len |-> 2],
   [gate |-> "B", src |-> "me",    dest |-> "group", prio |-> "EXPRESS", len |-> 1]}
=============================================================================
