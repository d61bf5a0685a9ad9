------------------------------ MODULE MCHsrRing ------------------------------
(***************************************************************************)
(* Three nodes.  MCTraffic has every kind of destination: a group, another *)
(* node on either side, a node of nobody, and the sender itself.           *)
(***************************************************************************)
EXTENDS HsrRing

To(s, d, p) == [src |-> s, dest |-> d, prio |-> p]

MCTraffic ==
  { To(0, Group, "HIGH"), To(2, Absent, "LOW"), To(1, 1, "LOW"),
    To(1, 0, "EXPRESS"), To(0, 2, "HIGH") }
=============================================================================
