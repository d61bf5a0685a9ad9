----------------------------- MODULE EtherService -----------------------------
(***************************************************************************)
(* What a network of project ethernetHSR promises its processors: a        *)
(* processor hears only frames that were sent and that are for it, and     *)
(* each of them once.  Rings, directions, copies and interfaces are left   *)
(* open.                                                                   *)
(***************************************************************************)
EXTENDS Bags

CONSTANTS
  Node,
  Audience(_)  \* the nodes whose processor is to hear a frame

VARIABLES
  sent,   \* the frames processors have sent
  heard   \* bag of [cpu, frame]: what processors have heard

vars == <<sent, heard>>

Init == sent = {} /\ heard = EmptyBag

Send(f) ==
  /\ f \notin sent
  /\ sent' = sent \cup {f}
  /\ UNCHANGED heard

Hear(n, f) ==
  LET h == [cpu |-> n, frame |-> f]
  IN /\ f \in sent
     /\ n \in Audience(f)
     /\ ~ BagIn(h, heard)
     /\ heard' = heard (+) SetToBag({h})
     /\ UNCHANGED sent

Next ==
  \/ \E f \in sent' : Send(f)
  \/ \E f \in sent, n \in Node : Hear(n, f)

Spec == Init /\ [][Next]_vars
=============================================================================
