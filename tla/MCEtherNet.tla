----------------------------- MODULE MCEtherNet -----------------------------
(***************************************************************************)
(* Networks for TLC: a ring of two end nodes, and two rings of two         *)
(* RedBoxes each, coupled as in ring_coupling.ned.                         *)
(***************************************************************************)
EXTENDS EtherNet, TLC

(* A cable; in a ring it goes from port A of a node to port B of the next. *)
Wire(n, p, m, q) == <<n, p>> :> <<m, q>> @@ <<m, q>> :> <<n, p>>

RingNode  == 0 .. 1
RingPeer  == Wire(0, "A", 1, "B") @@ Wire(1, "A", 0, "B")

(* A pattern of one frame, and one of a load generator. *)
Once(dest)  == [destination |-> dest, sendType |-> "HSR", paketgroesse |-> 64]
Load(dest)  == [destination |-> dest, sendType |-> "HSR", paketgroesse |-> 64, vlan |-> 1,
                sendBehavior |-> "CONSTANT_LOADGEN", stopTime |-> 1, last |-> 1]
From(source, muster) == [source |-> source, lastmuster |-> muster]

(* Two frames of any kind, and up to three at once for a queue of two.     *)
(* Node 1 skips the pattern of the source that is every node.              *)
RingConfiguration ==
  {<<From({0, 1}, <<Once(1)>>), From({0}, <<Once(1)>>)>>,
   <<From({0}, <<Once(1), Once(Group)>>)>>,
   <<From({0}, <<Once(Group)>>), From({1}, <<Once(Absent)>>)>>,
   <<From({0}, <<Once(1)>>), From({1}, <<Once(Absent)>>)>>,
   <<From({0}, <<Once(Group), Once(Group)>>)>>,
   <<From({1}, <<Once(Absent), Once(Absent)>>)>>,
   <<From({0}, <<Load(1)>>)>>}

CoupledNode   == 0 .. 3
CoupledPeer   ==
  Wire(0, "A", 1, "B") @@ Wire(1, "A", 0, "B") @@
  Wire(2, "A", 3, "B") @@ Wire(3, "A", 2, "B") @@
  Wire(0, "I", 2, "I") @@ Wire(1, "I", 3, "I")
CoupledConfiguration == {<<From({0}, <<Once(Group)>>)>>, <<From({0}, <<Once(3)>>)>>}
=============================================================================
