------------------------------- MODULE HsrRing -------------------------------
(***************************************************************************)
(* The nodes of a ring: the routing of EndNodeSwitch, the six duplicate    *)
(* lists of each node, and the wiring.  Frames travel from a processor     *)
(* through the propagation delay to the switch, from the switch through a  *)
(* port's queues and duplicate list onto the line, and along the line to   *)
(* the neighbour's switch.                                                 *)
(*                                                                         *)
(* A port is one set of copies waiting for it, taken in any order: its     *)
(* queues, priorities and locks are module SchedulerPort.  A duplicate     *)
(* list is the window DupList is shown to implement.  The line stands for  *)
(* both interfaces, the cable and the propagation delay; copies on it      *)
(* arrive in any order too, since express frames overtake.                 *)
(*                                                                         *)
(* Left out: the node table, which nothing reads, and the frames'          *)
(* contents.  Sequence numbers are not narrowed: the lists compare 32 bits.*)
(***************************************************************************)
EXTENDS Integers, Sequences, FiniteSets, Bags

CONSTANTS
  N,         \* number of nodes
  ListSize,  \* parameter duplicateDetectionListSize of a node
  Traffic,   \* what processors may send: [src, dest, prio]
  MaxFrames, \* bound: frames sent in a behaviour
  MaxOfKind  \* bound: frames of one kind of Traffic among them

Node     == 0 .. N - 1
Group    == -1   \* a broadcast or multicast address
Absent   == -2   \* a unicast address no node of the ring has
Port     == {"A", "B", "C"}
RingPort == {"A", "B"}
Lane     == {"express", "normal"}
Priority == {"EXPRESS", "HIGH", "LOW"}

ASSUME HsrRingAssumption ==
  /\ N \in Nat /\ N >= 2
  /\ ListSize \in Nat \ {0}
  /\ MaxFrames \in Nat /\ MaxOfKind \in Nat
  /\ Traffic \subseteq [src : Node, dest : Node \cup {Group, Absent}, prio : Priority]

Frame == [src : Node, seq : Nat, dest : Node \cup {Group, Absent}, prio : Priority]

(* A copy of a frame that waits at port p of node n for its turn, or that  *)
(* is on its way to gate p of node n.                                      *)
Copy == [node : Node, port : Port, frame : Frame]
At(n, p, f) == [node |-> n, port |-> p, frame |-> f]

VARIABLES
  sequenceNumber,  \* [Node -> Nat]: the processor's next sequence number
  line,            \* bag of copies on the way to a gate
  waiting,         \* bag of copies in the queues of a port
  list,            \* [Node -> [Port -> [Lane -> identities passed last, newest first]]]
  stuck,           \* lanes of ring ports whose interface will never report again
  sent,            \* history: the frames processors have sent
  heard            \* history: [Node -> set of frames its processor has got]

vars == <<sequenceNumber, line, waiting, list, stuck, sent, heard>>

Init ==
  /\ sequenceNumber = [n \in Node |-> 0]
  /\ line    = EmptyBag
  /\ waiting = EmptyBag
  /\ list    = [n \in Node |-> [p \in Port |-> [l \in Lane |-> <<>>]]]
  /\ stuck   = {}
  /\ sent    = {}
  /\ heard   = [n \in Node |-> {}]

Identity(f) == <<f.src, f.seq>>
LaneOf(f)   == IF f.prio = "EXPRESS" THEN "express" ELSE "normal"
Opposite(p) == IF p = "A" THEN "B" ELSE "A"

(* Port A of a node is wired to port B of the next one. *)
Neighbour(n, p) ==
  IF p = "A" THEN (IF n = N - 1 THEN 0 ELSE n + 1)
  ELSE (IF n = 0 THEN N - 1 ELSE n - 1)

-----------------------------------------------------------------------------
(* Mutant: the sender does not take out its own frames. *)
MutRouteCirculates(n, g, f) ==
  IF f.dest = n          THEN IF g = "C" THEN {} ELSE {"C"}
  ELSE IF g = "C"        THEN RingPort
  ELSE IF f.dest = Group THEN {Opposite(g), "C"}
  ELSE {Opposite(g)}

(* Mutant: the receiver passes a frame for itself on as well. *)
MutRouteForwardsMine(n, g, f) ==
  IF f.src = n /\ g # "C" THEN {"C"}
  ELSE IF f.dest = n      THEN IF g = "C" THEN {} ELSE {Opposite(g), "C"}
  ELSE IF g = "C"         THEN RingPort
  ELSE IF f.dest = Group  THEN {Opposite(g), "C"}
  ELSE {Opposite(g)}

(* The ports a frame that came in at gate g leaves through.  The processor *)
(* of the sender gets its own frames back when they have gone round.       *)
Route(n, g, f) ==
  IF f.src = n /\ g # "C" THEN {"C"}
  ELSE IF f.dest = n      THEN IF g = "C" THEN {} ELSE {"C"}
  ELSE IF g = "C"         THEN RingPort
  ELSE IF f.dest = Group  THEN {Opposite(g), "C"}
  ELSE {Opposite(g)}

Kind(f) == [src |-> f.src, dest |-> f.dest, prio |-> f.prio]

generateOnePacket(t) ==
  LET f == [src |-> t.src, seq |-> sequenceNumber[t.src], dest |-> t.dest, prio |-> t.prio]
  IN /\ Cardinality(sent) < MaxFrames
     /\ Cardinality({g \in sent : Kind(g) = t}) < MaxOfKind
     /\ sequenceNumber' = [sequenceNumber EXCEPT ![t.src] = @ + 1]
     /\ line' = line (+) SetToBag({At(t.src, "C", f)})
     /\ sent' = sent \cup {f}
     /\ UNCHANGED <<waiting, list, stuck, heard>>

(* EndNodeSwitch::handleMessage with a frame. *)
handleFrame(n, g, f) ==
  /\ BagIn(At(n, g, f), line)
  /\ line'    = line (-) SetToBag({At(n, g, f)})
  /\ waiting' = waiting (+) SetToBag({At(n, p, f) : p \in Route(n, g, f)})
  /\ UNCHANGED <<sequenceNumber, list, stuck, sent, heard>>

-----------------------------------------------------------------------------
(* Mutant: searchMessage compares sequence numbers only. *)
MutRememberedAnySource(n, p, f) ==
  \E i \in DOMAIN list[n][p][LaneOf(f)] : list[n][p][LaneOf(f)][i][2] = f.seq

Remembered(n, p, f) ==
  \E i \in DOMAIN list[n][p][LaneOf(f)] : list[n][p][LaneOf(f)][i] = Identity(f)

(* Mutant: one entry too few is kept. *)
MutNewestTooFew(s) == IF Len(s) > ListSize - 1 THEN SubSeq(s, 1, ListSize - 1) ELSE s

Newest(s) == IF Len(s) > ListSize THEN SubSeq(s, 1, ListSize) ELSE s

Remember(n, p, f) ==
  list' = [list EXCEPT ![n][p][LaneOf(f)] = Newest(<<Identity(f)>> \o @)]

(* A port whose interface owes the scheduler a report sends nothing on its *)
(* lane, and nothing at all while an express frame is out.                 *)
TakeTurn(n, p, f) ==
  /\ BagIn(At(n, p, f), waiting)
  /\ <<n, p, LaneOf(f)>> \notin stuck
  /\ <<n, p, "express">> \notin stuck
  /\ waiting' = waiting (-) SetToBag({At(n, p, f)})

(* The scheduler locks its interface, the list deletes the frame, and the  *)
(* interface, which never saw it, never reports.                           *)
Discard(n, p, f) ==
  /\ TakeTurn(n, p, f)
  /\ Remembered(n, p, f)
  /\ stuck' = IF p = "C" THEN stuck ELSE stuck \cup {<<n, p, LaneOf(f)>>}
  /\ UNCHANGED <<sequenceNumber, line, list, sent, heard>>

Transmit(n, p, f) ==
  /\ p \in RingPort
  /\ TakeTurn(n, p, f)
  /\ ~ Remembered(n, p, f)
  /\ Remember(n, p, f)
  /\ line' = line (+) SetToBag({At(Neighbour(n, p), Opposite(p), f)})
  /\ UNCHANGED <<sequenceNumber, stuck, sent, heard>>

Deliver(n, f) ==
  /\ TakeTurn(n, "C", f)
  /\ ~ Remembered(n, "C", f)
  /\ Remember(n, "C", f)
  /\ heard' = [heard EXCEPT ![n] = @ \cup {f}]
  /\ UNCHANGED <<sequenceNumber, line, stuck, sent>>

Move ==
  \/ \E c \in BagToSet(line) : handleFrame(c.node, c.port, c.frame)
  \/ \E c \in BagToSet(waiting) :
       \/ Discard(c.node, c.port, c.frame)
       \/ Transmit(c.node, c.port, c.frame)
       \/ c.port = "C" /\ Deliver(c.node, c.frame)

Next == Move \/ \E t \in Traffic : generateOnePacket(t)

(* The kernel delivers every event that is due, so something on its way    *)
(* always moves on in the end.                                             *)
Spec == Init /\ [][Next]_vars /\ WF_vars(Move)

-----------------------------------------------------------------------------
TypeOK ==
  /\ sequenceNumber \in [Node -> Nat]
  /\ IsABag(line)    /\ BagToSet(line)    \subseteq Copy
  /\ IsABag(waiting) /\ BagToSet(waiting) \subseteq Copy
  /\ list \in [Node -> [Port -> [Lane -> Seq(Node \X Nat)]]]
  /\ stuck \subseteq Node \X RingPort \X Lane
  /\ sent \subseteq Frame
  /\ heard \in [Node -> SUBSET Frame]

(* The nodes whose processor is to hear of a frame: a group frame all, its *)
(* sender included; a frame for another node that node; a frame nobody     *)
(* takes comes back to its sender; a frame for oneself is deleted.         *)
Audience(f) ==
  CASE f.dest = Group  -> Node
    [] f.dest = Absent -> {f.src}
    [] OTHER           -> {f.dest} \ {f.src}

(* No duplicate list of a ring port (EndNodeSwitch routes, ListenErkennung *)
(* 142 discards) ever discards a frame: its scheduler would wait for ever  *)
(* for the interface to report.  A copy must leave the ring before it can  *)
(* meet a port it has passed, whatever the lists have forgotten.           *)
PortsStayOpen == stuck = {}

Service == INSTANCE HsrService WITH recent <- [n \in Node |-> list[n]["C"]]

(* What reaches the processors is what the service allows: no frame at a   *)
(* node it is not for, and none twice that the node still remembers.       *)
ImplementsService == Service!Spec

(* Everything comes to rest: all copies are off the ring and each frame    *)
(* has been heard by its whole audience, although every list but those of  *)
(* the processors' ports must let it pass and the sender must take out     *)
(* both copies.                                                            *)
ComesToRest ==
  <>[] /\ BagToSet(line) \cup BagToSet(waiting) = {}
       /\ \A f \in sent : \A n \in Audience(f) : f \in heard[n]

-----------------------------------------------------------------------------
(* The invariant behind PortsStayOpen and ImplementsService.  A frame goes *)
(* round in two directions, named by the port it leaves through, and its   *)
(* copy in each direction is somewhere between its sender and Reach.       *)

(* How many hops lie between source s and node n through ports p: 1 .. N,  *)
(* N for the source itself.                                                *)
Hops(p, s, n) ==
  IF p = "A" THEN (IF n > s THEN n - s ELSE n - s + N)
  ELSE (IF n < s THEN s - n ELSE s - n + N)

(* Hops the frames of s have behind them when they wait at port p of n. *)
Covered(p, s, n) == IF n = s THEN 0 ELSE Hops(p, s, n)

(* Where the switches take a frame out. *)
Reach(p, f) == IF f.dest \in Node THEN Hops(p, f.src, f.dest) ELSE N

(* The identities the two lists of a port hold. *)
Listed(n, p) == UNION {{list[n][p][l][i] : i \in DOMAIN list[n][p][l]} : l \in Lane}

(* Hops behind a copy that is on the ring, waiting or on the line. *)
WaitingAt(c) == Covered(c.port, c.frame.src, c.node)
ArrivingAt(c) == Hops(Opposite(c.port), c.frame.src, c.node)

(* Copies stem from frames sent, and identities are unique. *)
FramesAreSent ==
  /\ \A c \in BagToSet(line) \cup BagToSet(waiting) : c.frame \in sent
  /\ \A f \in sent : f.seq < sequenceNumber[f.src]
  /\ \A f, g \in sent : Identity(f) = Identity(g) => f = g
  /\ \A n \in Node, p \in RingPort : \A k \in Listed(n, p) : k[2] < sequenceNumber[k[1]]

(* No copy is past the place where it is taken out, and the processors'    *)
(* ports hold only copies for that processor.                              *)
NoneTooFar ==
  /\ \A c \in BagToSet(line) :
       IF c.port = "C" THEN c.node = c.frame.src
       ELSE /\ c.frame.dest # c.frame.src
            /\ ArrivingAt(c) <= Reach(Opposite(c.port), c.frame)
  /\ \A c \in BagToSet(waiting) :
       IF c.port = "C" THEN c.node \in Audience(c.frame)
       ELSE /\ c.frame.dest # c.frame.src
            /\ WaitingAt(c) < Reach(c.port, c.frame)

(* Each direction has one copy of a frame at most, and none while the      *)
(* frame has not reached the switch.                                       *)
OneCopyEachWay ==
  /\ \A c \in BagToSet(line) : line[c] = 1
  /\ \A c \in BagToSet(waiting) : c.port # "C" => waiting[c] = 1
  /\ \A c, d \in BagToSet(line) :
       c.frame = d.frame => c = d \/ (c.port # "C" /\ d.port = Opposite(c.port))
  /\ \A c, d \in BagToSet(waiting) :
       c.frame = d.frame /\ c.port # "C" /\ c.port = d.port => c = d
  /\ \A c \in BagToSet(waiting), d \in BagToSet(line) :
       c.frame = d.frame /\ c.port # "C" => d.port = c.port

(* The lists ahead of a copy do not hold it. *)
NothingAheadKnowsIt ==
  /\ \A c \in BagToSet(line), n \in Node :
       IF c.port = "C" THEN \A p \in RingPort : Identity(c.frame) \notin Listed(n, p)
       ELSE Covered(Opposite(c.port), c.frame.src, n) >= ArrivingAt(c)
              => Identity(c.frame) \notin Listed(n, Opposite(c.port))
  /\ \A c \in BagToSet(waiting), n \in Node :
       c.port # "C" /\ Covered(c.port, c.frame.src, n) >= WaitingAt(c)
         => Identity(c.frame) \notin Listed(n, c.port)

RingInv ==
  /\ TypeOK
  /\ PortsStayOpen
  /\ FramesAreSent
  /\ NoneTooFar
  /\ OneCopyEachWay
  /\ NothingAheadKnowsIt
=============================================================================
