----------------------------- MODULE HsrService -----------------------------
(***************************************************************************)
(* What the ring promises the processors of its nodes: a processor hears   *)
(* only frames that were sent and that it is in the audience of, and hears *)
(* none of the ListSize frames it heard last on that lane once more.  How  *)
(* many copies travel, in which direction and through which ports is left  *)
(* open.                                                                   *)
(***************************************************************************)
EXTENDS Integers, Sequences

CONSTANTS
  Node,
  Lane,
  Identity(_),  \* what a duplicate list compares
  LaneOf(_),    \* the interface a frame uses
  Audience(_),  \* the nodes whose processor is to hear a frame
  ListSize      \* how many frames of a lane a node remembers

VARIABLES
  sent,    \* the frames processors have sent
  heard,   \* [Node -> set of frames its processor has heard]
  recent   \* [Node -> [Lane -> identities heard last, newest first]]

vars == <<sent, heard, recent>>

Init ==
  /\ sent   = {}
  /\ heard  = [n \in Node |-> {}]
  /\ recent = [n \in Node |-> [l \in Lane |-> <<>>]]

Newest(s) == IF Len(s) > ListSize THEN SubSeq(s, 1, ListSize) ELSE s

Send(f) ==
  /\ f \notin sent
  /\ sent' = sent \cup {f}
  /\ UNCHANGED <<heard, recent>>

Hear(n, f) ==
  /\ f \in sent
  /\ n \in Audience(f)
  /\ \A i \in DOMAIN recent[n][LaneOf(f)] : recent[n][LaneOf(f)][i] # Identity(f)
  /\ heard'  = [heard EXCEPT ![n] = @ \cup {f}]
  /\ recent' = [recent EXCEPT ![n][LaneOf(f)] = Newest(<<Identity(f)>> \o @)]
  /\ UNCHANGED sent

Next ==
  \/ \E f \in sent' : Send(f)
  \/ \E f \in sent, n \in Node : Hear(n, f)

Spec == Init /\ [][Next]_vars
=============================================================================
