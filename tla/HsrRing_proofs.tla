---------------------------- MODULE HsrRing_proofs ----------------------------
(***************************************************************************)
(* Proofs about HsrRing for rings of every size, lists of every length and *)
(* every traffic: no ring port is ever stuck, and the processors get what  *)
(* HsrService allows.  RingInv is the inductive invariant.                 *)
(***************************************************************************)
EXTENDS HsrRing, TLAPS

-----------------------------------------------------------------------------
(* Bags: what adding a set of copies and taking one copy does. *)

LEMMA BagAddition ==
  ASSUME NEW B, IsABag(B), NEW S, NEW D, D = B (+) SetToBag(S)
  PROVE  /\ IsABag(D)
         /\ BagToSet(D) = BagToSet(B) \cup S
         /\ \A e \in BagToSet(D) : D[e] = (IF e \in BagToSet(B) THEN B[e] ELSE 0)
                                          + (IF e \in S THEN 1 ELSE 0)
BY SMT DEF IsABag, BagToSet, SetToBag, (+)

LEMMA TurnTakesCopy ==
  ASSUME IsABag(waiting), NEW w \in BagToSet(waiting), waiting' = waiting (-) SetToBag({w})
  PROVE  /\ IsABag(waiting')
         /\ BagToSet(waiting') = IF waiting[w] = 1 THEN BagToSet(waiting) \ {w}
                                                   ELSE BagToSet(waiting)
         /\ \A v \in BagToSet(waiting') :
              waiting'[v] = IF v = w THEN waiting[w] - 1 ELSE waiting[v]
BY SMT DEF IsABag, BagToSet, SetToBag, (-)

-----------------------------------------------------------------------------
(* The ring's geometry. *)

LEMMA NodesAreNumbers == Node \subseteq Int /\ N \in Nat /\ N >= 2 /\ N \notin Node /\ Group \notin Node /\ Absent \notin Node
BY HsrRingAssumption, SMT DEF Node, Group, Absent

LEMMA HopsRange ==
  ASSUME NEW p \in RingPort, NEW s \in Node, NEW n \in Node
  PROVE  /\ Hops(p, s, n) \in 1 .. N
         /\ Hops(p, s, n) = N <=> n = s
BY HsrRingAssumption, SMT DEF Node, Hops, RingPort

LEMMA HopsInjective ==
  ASSUME NEW p \in RingPort, NEW s \in Node, NEW n \in Node, NEW m \in Node,
         Hops(p, s, n) = Hops(p, s, m)
  PROVE  n = m
BY HsrRingAssumption, SMT DEF Node, Hops, RingPort

LEMMA ReachRange ==
  ASSUME NEW p \in RingPort, NEW f \in Frame
  PROVE  Reach(p, f) \in 1 .. N /\ Reach(p, f) \in Int
<1>1. f.src \in Node
  BY DEF Frame
<1>2. CASE f.dest \in Node
  BY <1>1, <1>2, HopsRange DEF Reach
<1>3. CASE f.dest \notin Node
  BY <1>3, NodesAreNumbers DEF Reach
<1> QED
  BY <1>2, <1>3

LEMMA NextHop ==
  ASSUME NEW p \in RingPort, NEW s \in Node, NEW n \in Node
  PROVE  /\ Neighbour(n, p) \in Node
         /\ Hops(p, s, Neighbour(n, p)) = Covered(p, s, n) + 1
BY HsrRingAssumption, SMT DEF Node, Hops, Covered, Neighbour, RingPort

-----------------------------------------------------------------------------
(* Duplicate lists. *)

(* What a list holds after passing x: x and nothing it did not hold. *)
LEMMA NewestHolds ==
  ASSUME NEW s \in Seq(Node \X Nat), NEW x \in Node \X Nat
  PROVE  /\ Newest(<<x>> \o s) \in Seq(Node \X Nat)
         /\ \A i \in DOMAIN Newest(<<x>> \o s) :
              Newest(<<x>> \o s)[i] = x \/ \E j \in DOMAIN s : Newest(<<x>> \o s)[i] = s[j]
<1> DEFINE t == <<x>> \o s
<1>1. /\ t \in Seq(Node \X Nat)
      /\ \A i \in DOMAIN t : t[i] = x \/ \E j \in DOMAIN s : t[i] = s[j]
  <2>1. t \in Seq(Node \X Nat) /\ Len(t) = Len(s) + 1
    OBVIOUS
  <2>2. \A i \in 1 .. Len(t) : t[i] = IF i = 1 THEN x ELSE s[i - 1]
    OBVIOUS
  <2>3. \A i \in 2 .. Len(t) : i - 1 \in DOMAIN s
    BY <2>1
  <2> QED
    BY <2>1, <2>2, <2>3
<1>2. CASE Len(t) > ListSize
  <2> DEFINE u == SubSeq(t, 1, ListSize)
  <2>1. ListSize \in 1 .. Len(t) /\ t \in Seq(Node \X Nat)
    BY <1>1, <1>2, HsrRingAssumption
  <2> HIDE DEF t
  <2>2. u \in Seq(Node \X Nat) /\ Len(u) = ListSize /\ DOMAIN t = 1 .. Len(t) /\ DOMAIN u = 1 .. ListSize
    BY <2>1
  <2>3. \A i \in 1 .. ListSize : u[i] = t[i] /\ i \in DOMAIN t
    BY <2>1, <2>2
  <2>4. Newest(t) = u
    BY <1>2 DEF Newest
  <2> HIDE DEF u
  <2>5. /\ Newest(t) \in Seq(Node \X Nat)
        /\ \A i \in DOMAIN Newest(t) : i \in DOMAIN t /\ Newest(t)[i] = t[i]
    BY <2>2, <2>3, <2>4
  <2>6. \A i \in DOMAIN Newest(t) : Newest(t)[i] = x \/ \E j \in DOMAIN s : Newest(t)[i] = s[j]
    BY <1>1, <2>5
  <2> QED
    BY <2>5, <2>6, Zenon DEF t
<1>3. CASE ~ (Len(t) > ListSize)
  BY <1>1, <1>3 DEF Newest
<1> QED
  BY <1>2, <1>3

LEMMA IdentityType ==
  ASSUME NEW f \in Frame
  PROVE  Identity(f) \in Node \X Nat /\ LaneOf(f) \in Lane
BY DEF Frame, Identity, LaneOf, Lane

LEMMA ListedType ==
  ASSUME TypeOK, NEW n \in Node, NEW p \in Port
  PROVE  Listed(n, p) \subseteq Node \X Nat
<1> SUFFICES ASSUME NEW l \in Lane, NEW i \in DOMAIN list[n][p][l]
             PROVE  list[n][p][l][i] \in Node \X Nat
  BY DEF Listed
<1>1. list[n][p][l] \in Seq(Node \X Nat)
  BY DEF TypeOK
<1> QED
  BY <1>1

LEMMA SameLists ==
  ASSUME list' = list
  PROVE  \A n, p : Listed(n, p)' = Listed(n, p)
BY DEF Listed

(* Remembering a frame adds its identity to one list and nothing else to any. *)
LEMMA RememberAdds ==
  ASSUME TypeOK, NEW n \in Node, NEW p \in Port, NEW f \in Frame, Remember(n, p, f)
  PROVE  /\ list' \in [Node -> [Port -> [Lane -> Seq(Node \X Nat)]]]
         /\ \A m \in Node, q \in Port : Listed(m, q)' \subseteq Listed(m, q) \cup {Identity(f)}
         /\ \A m \in Node, q \in Port : m # n \/ q # p => Listed(m, q)' = Listed(m, q)
<1> DEFINE old == list[n][p][LaneOf(f)]
           new == Newest(<<Identity(f)>> \o old)
<1>1. old \in Seq(Node \X Nat) /\ Identity(f) \in Node \X Nat /\ LaneOf(f) \in Lane
  BY IdentityType DEF TypeOK
<1>2. /\ new \in Seq(Node \X Nat)
      /\ \A i \in DOMAIN new : new[i] = Identity(f) \/ \E j \in DOMAIN old : new[i] = old[j]
  BY <1>1, NewestHolds, Zenon
<1> HIDE DEF new
<1>3. list' = [list EXCEPT ![n][p][LaneOf(f)] = new]
  BY DEF Remember, new
<1>4. list' \in [Node -> [Port -> [Lane -> Seq(Node \X Nat)]]]
  <2>1. /\ list \in [Node -> [Port -> [Lane -> Seq(Node \X Nat)]]]
        /\ list[n] \in [Port -> [Lane -> Seq(Node \X Nat)]]
        /\ list[n][p] \in [Lane -> Seq(Node \X Nat)]
    BY DEF TypeOK
  <2>2. [list[n][p] EXCEPT ![LaneOf(f)] = new] \in [Lane -> Seq(Node \X Nat)]
    BY <1>1, <1>2, <2>1
  <2>3. [list[n] EXCEPT ![p][LaneOf(f)] = new] \in [Port -> [Lane -> Seq(Node \X Nat)]]
    BY <2>1, <2>2
  <2> QED
    BY <1>3, <2>1, <2>3
<1>5. ASSUME NEW m \in Node, NEW q \in Port, NEW l \in Lane
      PROVE  list'[m][q][l] = IF m = n /\ q = p /\ l = LaneOf(f) THEN new ELSE list[m][q][l]
  BY <1>1, <1>3 DEF TypeOK
<1>6. ASSUME NEW m \in Node, NEW q \in Port
      PROVE  Listed(m, q)' \subseteq Listed(m, q) \cup {Identity(f)}
  <2> SUFFICES ASSUME NEW l \in Lane, NEW i \in DOMAIN list'[m][q][l]
               PROVE  list'[m][q][l][i] \in Listed(m, q) \cup {Identity(f)}
    BY DEF Listed
  <2>1. CASE m = n /\ q = p /\ l = LaneOf(f)
    BY <1>2, <1>5, <2>1 DEF Listed
  <2>2. CASE ~ (m = n /\ q = p /\ l = LaneOf(f))
    BY <1>5, <2>2 DEF Listed
  <2> QED
    BY <2>1, <2>2
<1>7. ASSUME NEW m \in Node, NEW q \in Port, m # n \/ q # p
      PROVE  Listed(m, q)' = Listed(m, q)
  BY <1>5, <1>7 DEF Listed
<1> QED
  BY <1>4, <1>6, <1>7

-----------------------------------------------------------------------------
(* Copies. *)

LEMMA CopyParts ==
  ASSUME NEW c \in Copy
  PROVE  /\ c.node \in Node /\ c.port \in Port /\ c.frame \in Frame
         /\ c = At(c.node, c.port, c.frame)
BY DEF Copy, At

LEMMA AtParts ==
  ASSUME NEW n \in Node, NEW p \in Port, NEW f \in Frame
  PROVE  /\ At(n, p, f) \in Copy
         /\ At(n, p, f).node = n /\ At(n, p, f).port = p /\ At(n, p, f).frame = f
BY DEF Copy, At

LEMMA FrameParts ==
  ASSUME NEW f \in Frame
  PROVE  /\ f.src \in Node /\ f.seq \in Nat /\ f.dest \in Node \cup {Group, Absent}
         /\ Identity(f) = <<f.src, f.seq>> /\ Identity(f)[1] = f.src /\ Identity(f)[2] = f.seq
BY DEF Frame, Identity

LEMMA PortParts ==
  /\ RingPort \subseteq Port /\ "C" \in Port /\ "C" \notin RingPort
  /\ \A p \in Port : p # "C" <=> p \in RingPort
  /\ \A p \in RingPort : /\ Opposite(p) \in RingPort /\ Opposite(p) # p
                         /\ Opposite(Opposite(p)) = p
                         /\ \A q \in RingPort : q = p \/ q = Opposite(p)
BY DEF Port, RingPort, Opposite

-----------------------------------------------------------------------------
(* RingInv is inductive, action by action. *)

LEMMA InitRing == Init => RingInv
<1> SUFFICES ASSUME Init PROVE RingInv
  OBVIOUS
<1>1. IsABag(EmptyBag) /\ BagToSet(EmptyBag) = {}
  BY DEF EmptyBag, SetToBag, IsABag, BagToSet
<1>2. list \in [Node -> [Port -> [Lane -> Seq(Node \X Nat)]]]
  BY DEF Init
<1>3. \A n \in Node, p \in Port, l \in Lane : list[n][p][l] = <<>>
  BY DEF Init
<1>4. TypeOK
  BY <1>1, <1>2 DEF Init, TypeOK
<1>5. PortsStayOpen
  BY DEF Init, PortsStayOpen
<1>6. FramesAreSent
  <2>1. \A n \in Node, p \in RingPort : Listed(n, p) = {}
    BY <1>3, PortParts DEF Listed
  <2> QED
    BY <1>1, <2>1 DEF Init, FramesAreSent
<1>7. NoneTooFar /\ OneCopyEachWay /\ NothingAheadKnowsIt
  BY <1>1 DEF Init, NoneTooFar, OneCopyEachWay, NothingAheadKnowsIt
<1> QED
  BY <1>4, <1>5, <1>6, <1>7 DEF RingInv

LEMMA GenerateKeepsRing ==
  ASSUME RingInv, NEW t \in Traffic, generateOnePacket(t)
  PROVE  RingInv'
<1> DEFINE f   == [src |-> t.src, seq |-> sequenceNumber[t.src], dest |-> t.dest, prio |-> t.prio]
           new == At(t.src, "C", f)
<1> USE DEF RingInv
<1>1. f \in Frame /\ f.src = t.src /\ t.src \in Node /\ f.seq = sequenceNumber[t.src]
  BY HsrRingAssumption DEF TypeOK, Frame
<1>2. new \in Copy /\ new.node = t.src /\ new.port = "C" /\ new.frame = f
  BY <1>1, AtParts, PortParts
<1>3. f \notin sent
  BY <1>1 DEF FramesAreSent, TypeOK
<1>4. \A c \in BagToSet(line) \cup BagToSet(waiting) : c.frame # f
  BY <1>3 DEF FramesAreSent
<1>5. /\ line' = line (+) SetToBag({new}) /\ sent' = sent \cup {f}
      /\ sequenceNumber' = [sequenceNumber EXCEPT ![t.src] = @ + 1]
      /\ waiting' = waiting /\ list' = list /\ stuck' = stuck /\ heard' = heard
  BY DEF generateOnePacket
<1> HIDE DEF f, new
<1>6. /\ IsABag(line') /\ BagToSet(line') = BagToSet(line) \cup {new}
      /\ new \notin BagToSet(line)
      /\ line'[new] = 1 /\ \A c \in BagToSet(line) : line'[c] = line[c]
  <2>1. IsABag(line)
    BY DEF TypeOK
  <2>2. new \notin BagToSet(line)
    BY <1>2, <1>4
  <2>3. /\ IsABag(line') /\ BagToSet(line') = BagToSet(line) \cup {new}
        /\ \A e \in BagToSet(line') : line'[e] = (IF e \in BagToSet(line) THEN line[e] ELSE 0)
                                                + (IF e \in {new} THEN 1 ELSE 0)
    BY <1>5, <2>1, BagAddition
  <2>4. \A e \in BagToSet(line) : line[e] \in Nat
    BY <2>1 DEF IsABag, BagToSet
  <2> QED
    BY <2>2, <2>3, <2>4
<1>7. /\ sequenceNumber' \in [Node -> Nat]
      /\ \A n \in Node : sequenceNumber'[n] = IF n = t.src THEN sequenceNumber[n] + 1
                                                          ELSE sequenceNumber[n]
  BY <1>1, <1>5 DEF TypeOK
<1>8. TypeOK'
  BY <1>1, <1>2, <1>5, <1>6, <1>7 DEF TypeOK
<1>9. PortsStayOpen'
  BY <1>5 DEF PortsStayOpen
<1>10. FramesAreSent'
  <2>1. \A c \in BagToSet(line') \cup BagToSet(waiting') : c.frame \in sent'
    BY <1>2, <1>5, <1>6 DEF FramesAreSent
  <2>2. \A g \in sent' : g.seq < sequenceNumber'[g.src]
    BY <1>1, <1>5, <1>7, FrameParts DEF FramesAreSent, TypeOK
  <2>3. \A g, h \in sent' : Identity(g) = Identity(h) => g = h
    <3>1. \A g \in sent : Identity(g) # Identity(f)
      BY <1>1, FrameParts DEF FramesAreSent, TypeOK
    <3> QED
      BY <1>5, <3>1 DEF FramesAreSent
  <2>4. ASSUME NEW n \in Node, NEW p \in RingPort, NEW k \in Listed(n, p)
        PROVE  k[2] < sequenceNumber'[k[1]]
    <3>2. k \in Node \X Nat
      BY ListedType, PortParts
    <3>3. k[2] < sequenceNumber[k[1]]
      BY DEF FramesAreSent
    <3> QED
      <4>1. k[1] \in Node /\ k[2] \in Nat
        BY <3>2
      <4>2. ASSUME NEW m \in Node
            PROVE  /\ sequenceNumber[m] \in Nat /\ sequenceNumber'[m] \in Nat
                   /\ sequenceNumber[m] <= sequenceNumber'[m]
        <5>1. sequenceNumber \in [Node -> Nat]
          BY DEF TypeOK
        <5>2. sequenceNumber[m] \in Nat
          BY <5>1
        <5> QED
          BY <1>7, <5>2
      <4>3. \A q, x, y \in Nat : q < x /\ x <= y => q < y
        OBVIOUS
      <4> QED
        BY <3>3, <4>1, <4>2, <4>3, Zenon
  <2> QED
    <3>1. \A n \in Node, p \in RingPort : \A k \in Listed(n, p)' : k[2] < sequenceNumber'[k[1]]
      BY <1>5, <2>4, SameLists
    <3> QED
      BY <2>1, <2>2, <2>3, <3>1 DEF FramesAreSent
<1>11. NoneTooFar'
  BY <1>1, <1>2, <1>5, <1>6 DEF NoneTooFar, ArrivingAt, WaitingAt
<1>12. OneCopyEachWay'
  <2>1. \A c \in BagToSet(line') : line'[c] = 1
    BY <1>6 DEF OneCopyEachWay
  <2>2. \A c, d \in BagToSet(line') :
          c.frame = d.frame => c = d \/ (c.port # "C" /\ d.port = Opposite(c.port))
    BY <1>2, <1>4, <1>6 DEF OneCopyEachWay
  <2>3. \A c \in BagToSet(waiting), d \in BagToSet(line') :
          c.frame = d.frame /\ c.port # "C" => d.port = c.port
    BY <1>2, <1>4, <1>6 DEF OneCopyEachWay
  <2> QED
    BY <1>5, <2>1, <2>2, <2>3 DEF OneCopyEachWay
<1>13. ASSUME NEW n \in Node, NEW p \in RingPort
       PROVE  Identity(f) \notin Listed(n, p)
  <2>1. Identity(f)[1] = t.src /\ Identity(f)[2] = sequenceNumber[t.src]
    BY <1>1, FrameParts
  <2>2. sequenceNumber[t.src] \in Nat
    BY <1>1 DEF TypeOK
  <2> QED
    BY <2>1, <2>2 DEF FramesAreSent
<1>14. NothingAheadKnowsIt'
  <2>1. \A n, p : Listed(n, p)' = Listed(n, p)
    BY <1>5, SameLists
  <2> QED
    BY <1>2, <1>5, <1>6, <1>13, <2>1 DEF NothingAheadKnowsIt, ArrivingAt, WaitingAt
<1> QED
  BY <1>8, <1>9, <1>10, <1>11, <1>12, <1>14

LEMMA HandleKeepsRing ==
  ASSUME RingInv, NEW c \in BagToSet(line), handleFrame(c.node, c.port, c.frame)
  PROVE  RingInv'
<1> DEFINE n == c.node
           g == c.port
           f == c.frame
           W == {At(n, p, f) : p \in Route(n, g, f)}
<1>1. n \in Node /\ g \in Port /\ f \in Frame /\ c \in Copy /\ c = At(n, g, f) /\ line[c] = 1
  BY CopyParts DEF RingInv, TypeOK, OneCopyEachWay
<1>2. Route(n, g, f) \subseteq Port
  BY <1>1, PortParts DEF Route
<1>3. W \subseteq Copy /\ \A w \in W : /\ w.node = n /\ w.frame = f /\ w.port \in Route(n, g, f)
                                      /\ w = At(n, w.port, f)
  BY <1>1, <1>2, AtParts
<1>4. /\ line' = line (-) SetToBag({c}) /\ waiting' = waiting (+) SetToBag(W)
      /\ sequenceNumber' = sequenceNumber /\ list' = list /\ stuck' = stuck
      /\ sent' = sent /\ heard' = heard
  BY <1>1 DEF handleFrame
<1>5. /\ IsABag(line') /\ BagToSet(line') = BagToSet(line) \ {c}
      /\ \A d \in BagToSet(line') : line'[d] = line[d]
  <2>1. IsABag(line)
    BY DEF RingInv, TypeOK
  <2>2. /\ IsABag(line')
        /\ BagToSet(line') = IF line[c] = 1 THEN BagToSet(line) \ {c} ELSE BagToSet(line)
        /\ \A d \in BagToSet(line') : line'[d] = IF d = c THEN line[c] - 1 ELSE line[d]
    <3>1. line' = line (-) SetToBag({c})
      BY <1>4
    <3>2. c \in BagToSet(line)
      OBVIOUS
    <3> QED
      BY <2>1, <3>1, <3>2 DEF IsABag, BagToSet, SetToBag, (-)
  <2> QED
    BY <1>1, <2>2
<1> HIDE DEF n, g, f, W
<1>6. /\ IsABag(waiting') /\ BagToSet(waiting') = BagToSet(waiting) \cup W
      /\ \A w \in BagToSet(waiting') :
           waiting'[w] = (IF w \in BagToSet(waiting) THEN waiting[w] ELSE 0)
                         + (IF w \in W THEN 1 ELSE 0)
  <2>1. IsABag(waiting)
    BY DEF RingInv, TypeOK
  <2> QED
    BY <1>4, <2>1, BagAddition
(* Where the frame goes: onto ring ports it is not yet at the end of its   *)
(* way from, or to a processor it is meant for.                            *)
<1>7. \A p \in Route(n, g, f) : p # "C" =>
        /\ p \in RingPort
        /\ \/ g = "C" /\ f.src = n
           \/ g \in RingPort /\ p = Opposite(g) /\ f.src # n /\ f.dest # n
        /\ f.dest # f.src
  BY <1>1, PortParts DEF Route, RingInv, NoneTooFar, n, g, f
<1>8. "C" \in Route(n, g, f) =>
        /\ g \in RingPort
        /\ f.src = n \/ f.dest = n \/ f.dest = Group
  BY <1>1, PortParts DEF Route
<1>9. TypeOK'
  BY <1>3, <1>4, <1>5, <1>6 DEF RingInv, TypeOK
<1>10. PortsStayOpen'
  BY <1>4 DEF RingInv, PortsStayOpen
<1>11. FramesAreSent'
  <2>1. f \in sent
    BY DEF RingInv, FramesAreSent, f
  <2>2. \A d \in BagToSet(line') \cup BagToSet(waiting') : d.frame \in sent
    BY <1>3, <1>5, <1>6, <2>1 DEF RingInv, FramesAreSent
  <2> QED
    BY <1>4, <2>2, SameLists DEF RingInv, FramesAreSent
<1>12. ASSUME NEW p \in Route(n, g, f), p # "C"
       PROVE  /\ Covered(p, f.src, n) < Reach(p, f)
              /\ g # "C" => Covered(p, f.src, n) = Hops(Opposite(g), f.src, n)
  <2>1. CASE g = "C"
    <3>1. Reach(p, f) \in 1 .. N
      BY <1>1, <1>7, <1>12, ReachRange
    <3> QED
      BY <1>7, <1>12, <2>1, <3>1, NodesAreNumbers, PortParts DEF Covered
  <2>2. CASE g # "C"
    <3>1. /\ p \in RingPort /\ p = Opposite(g) /\ f.src # n /\ f.dest # n /\ f.src \in Node
      BY <1>1, <1>7, <1>12, <2>2, FrameParts
    <3>2. Covered(p, f.src, n) = Hops(p, f.src, n)
      BY <3>1 DEF Covered
    <3>3. Hops(p, f.src, n) <= Reach(p, f)
      BY <2>2, <3>1 DEF RingInv, NoneTooFar, ArrivingAt, n, g, f
    <3>4. Hops(p, f.src, n) # Reach(p, f)
      BY <1>1, <3>1, HopsRange, HopsInjective DEF Reach
    <3>5. Hops(p, f.src, n) \in Int /\ Reach(p, f) \in Int
      BY <1>1, <3>1, HopsRange, ReachRange
    <3> QED
      BY <3>1, <3>2, <3>3, <3>4, <3>5
  <2> QED
    BY <2>1, <2>2
<1>13. "C" \in Route(n, g, f) => n \in Audience(f)
  <2> SUFFICES ASSUME "C" \in Route(n, g, f) PROVE n \in Audience(f)
    OBVIOUS
  <2>1. g \in RingPort /\ Opposite(g) \in RingPort /\ g # "C"
    BY <1>8, PortParts
  <2>2. f.dest # f.src /\ Hops(Opposite(g), f.src, n) <= Reach(Opposite(g), f)
    BY <2>1 DEF RingInv, NoneTooFar, ArrivingAt, n, g, f
  <2>3. f.src \in Node /\ f.dest \in Node \cup {Group, Absent}
    BY <1>1, FrameParts
  <2>4. CASE f.src = n /\ f.dest \in Node
    <3>1. Hops(Opposite(g), f.src, n) = N
      BY <1>1, <2>1, <2>4, HopsRange
    <3>2. Hops(Opposite(g), f.src, f.dest) \in 1 .. N /\ Hops(Opposite(g), f.src, f.dest) # N
      BY <2>1, <2>2, <2>3, <2>4, HopsRange
    <3> QED
      BY <2>2, <2>4, <3>1, <3>2, NodesAreNumbers DEF Reach
  <2>5. CASE f.src = n /\ f.dest = Absent
    BY <2>5 DEF Audience, Group, Absent
  <2>6. CASE f.dest = Group
    BY <1>1, <2>6 DEF Audience, Group, Absent
  <2>7. CASE f.dest = n
    BY <1>1, <2>2, <2>7, NodesAreNumbers DEF Audience
  <2> QED
    BY <1>8, <2>3, <2>4, <2>5, <2>6, <2>7
<1>14. NoneTooFar'
  <2>1. \A d \in BagToSet(line') :
          IF d.port = "C" THEN d.node = d.frame.src
          ELSE d.frame.dest # d.frame.src /\ ArrivingAt(d) <= Reach(Opposite(d.port), d.frame)
    BY <1>5 DEF RingInv, NoneTooFar
  <2>2. \A d \in BagToSet(waiting) :
          IF d.port = "C" THEN d.node \in Audience(d.frame)
          ELSE d.frame.dest # d.frame.src /\ WaitingAt(d) < Reach(d.port, d.frame)
    BY DEF RingInv, NoneTooFar
  <2>3. \A d \in W :
          IF d.port = "C" THEN d.node \in Audience(d.frame)
          ELSE d.frame.dest # d.frame.src /\ WaitingAt(d) < Reach(d.port, d.frame)
    BY <1>3, <1>7, <1>12, <1>13 DEF WaitingAt
  <2> QED
    BY <1>6, <2>1, <2>2, <2>3 DEF NoneTooFar, WaitingAt, ArrivingAt
<1>15. \A w \in W : w.port # "C" =>
          \A d \in BagToSet(waiting) : d.frame = f => d.port # w.port
  BY <1>3, <1>7, PortParts DEF RingInv, OneCopyEachWay, f, g
<1>16. OneCopyEachWay'
  <2>1. \A d \in BagToSet(line') : line'[d] = 1
    BY <1>5 DEF RingInv, OneCopyEachWay
  <2>2. \A d, e \in BagToSet(line') :
          d.frame = e.frame => d = e \/ (d.port # "C" /\ e.port = Opposite(d.port))
    BY <1>5 DEF RingInv, OneCopyEachWay
  <2>3. \A w \in BagToSet(waiting') : w.port # "C" => waiting'[w] = 1
    <3>1. \A w \in W : w.port # "C" => w \notin BagToSet(waiting)
      BY <1>3, <1>15
    <3>2. \A w \in BagToSet(waiting) : w.port # "C" => waiting[w] = 1
      BY DEF RingInv, OneCopyEachWay
    <3> QED
      BY <1>6, <3>1, <3>2
  <2>4. \A d, e \in BagToSet(waiting') :
          d.frame = e.frame /\ d.port # "C" /\ d.port = e.port => d = e
    BY <1>3, <1>6, <1>15 DEF RingInv, OneCopyEachWay
  <2>5. \A w \in W, e \in BagToSet(line') : w.frame = e.frame /\ w.port # "C" => e.port = w.port
    BY <1>3, <1>5, <1>7, PortParts DEF RingInv, OneCopyEachWay, f, g
  <2>6. \A w \in BagToSet(waiting), e \in BagToSet(line') :
          w.frame = e.frame /\ w.port # "C" => e.port = w.port
    BY <1>5 DEF RingInv, OneCopyEachWay
  <2> QED
    BY <1>6, <2>1, <2>2, <2>3, <2>4, <2>5, <2>6 DEF OneCopyEachWay
<1>17. NothingAheadKnowsIt'
  <2>1. \A m, p : Listed(m, p)' = Listed(m, p)
    BY <1>4, SameLists
  <2>2. \A w \in W, m \in Node :
          w.port # "C" /\ Covered(w.port, w.frame.src, m) >= WaitingAt(w)
            => Identity(w.frame) \notin Listed(m, w.port)
    BY <1>3, <1>7, <1>12, PortParts DEF RingInv, NothingAheadKnowsIt, WaitingAt, ArrivingAt, n, g, f
  <2> QED
    BY <1>5, <1>6, <2>1, <2>2 DEF RingInv, NothingAheadKnowsIt, WaitingAt, ArrivingAt
<1> QED
  BY <1>9, <1>10, <1>11, <1>14, <1>16, <1>17 DEF RingInv

(* What every turn at a port leaves as it was. *)
LEMMA TurnEffect ==
  ASSUME RingInv, NEW w \in BagToSet(waiting), TakeTurn(w.node, w.port, w.frame)
  PROVE  /\ w \in Copy /\ w.node \in Node /\ w.port \in Port /\ w.frame \in Frame
         /\ w.frame \in sent
         /\ IsABag(waiting') /\ BagToSet(waiting') \subseteq BagToSet(waiting)
         /\ w.port # "C" => w \notin BagToSet(waiting')
         /\ \A v \in BagToSet(waiting') : v.port # "C" => waiting'[v] = 1
<1>1. w \in Copy /\ w = At(w.node, w.port, w.frame) /\ w.node \in Node /\ w.port \in Port
      /\ w.frame \in Frame
  BY CopyParts DEF RingInv, TypeOK
<1>2. IsABag(waiting) /\ waiting' = waiting (-) SetToBag({w})
  BY <1>1 DEF RingInv, TypeOK, TakeTurn
<1>3. /\ IsABag(waiting')
      /\ BagToSet(waiting') = IF waiting[w] = 1 THEN BagToSet(waiting) \ {w} ELSE BagToSet(waiting)
      /\ \A v \in BagToSet(waiting') :
           waiting'[v] = IF v = w THEN waiting[w] - 1 ELSE waiting[v]
  BY <1>2, TurnTakesCopy
<1>4. \A v \in BagToSet(waiting) : v.port # "C" => waiting[v] = 1
  BY DEF RingInv, OneCopyEachWay
<1>5. w.frame \in sent
  BY DEF RingInv, FramesAreSent
<1> QED
  BY <1>1, <1>3, <1>4, <1>5

(* No ring port has a frame to discard. *)
LEMMA RingPortsForward ==
  ASSUME RingInv, NEW w \in BagToSet(waiting), w.port # "C"
  PROVE  ~ Remembered(w.node, w.port, w.frame)
<1>1. w.node \in Node /\ w.port \in Port /\ w.frame \in Frame /\ LaneOf(w.frame) \in Lane
  BY CopyParts, IdentityType DEF RingInv, TypeOK
<1>2. Covered(w.port, w.frame.src, w.node) >= WaitingAt(w)
  <2>1. w.frame.src \in Node /\ w.port \in RingPort
    BY <1>1, FrameParts, PortParts
  <2>2. Covered(w.port, w.frame.src, w.node) \in Int
    BY <1>1, <2>1, HopsRange DEF Covered
  <2> QED
    BY <2>2 DEF WaitingAt
<1>3. Identity(w.frame) \notin Listed(w.node, w.port)
  BY <1>1, <1>2 DEF RingInv, NothingAheadKnowsIt
<1> QED
  BY <1>1, <1>3 DEF Listed, Remembered

LEMMA DiscardKeepsRing ==
  ASSUME RingInv, NEW w \in BagToSet(waiting), Discard(w.node, w.port, w.frame)
  PROVE  RingInv'
<1>1. /\ w.port = "C"
      /\ sequenceNumber' = sequenceNumber /\ line' = line /\ list' = list /\ stuck' = stuck
      /\ sent' = sent /\ heard' = heard /\ TakeTurn(w.node, w.port, w.frame)
  BY RingPortsForward DEF Discard
<1>2. /\ IsABag(waiting') /\ BagToSet(waiting') \subseteq BagToSet(waiting)
      /\ \A v \in BagToSet(waiting') : v.port # "C" => waiting'[v] = 1
  BY <1>1, TurnEffect
<1>3. TypeOK' /\ PortsStayOpen' /\ FramesAreSent'
  BY <1>1, <1>2 DEF RingInv, TypeOK, PortsStayOpen, FramesAreSent, Listed
<1>4. NoneTooFar'
  BY <1>1, <1>2 DEF RingInv, NoneTooFar, ArrivingAt, WaitingAt
<1>5. OneCopyEachWay'
  BY <1>1, <1>2 DEF RingInv, OneCopyEachWay
<1>6. NothingAheadKnowsIt'
  BY <1>1, <1>2, SameLists DEF RingInv, NothingAheadKnowsIt, ArrivingAt, WaitingAt
<1> QED
  BY <1>3, <1>4, <1>5, <1>6 DEF RingInv

LEMMA DeliverKeepsRing ==
  ASSUME RingInv, NEW w \in BagToSet(waiting), w.port = "C", Deliver(w.node, w.frame)
  PROVE  RingInv'
<1>1. /\ sequenceNumber' = sequenceNumber /\ line' = line /\ stuck' = stuck /\ sent' = sent
      /\ heard' = [heard EXCEPT ![w.node] = @ \cup {w.frame}]
      /\ Remember(w.node, "C", w.frame) /\ TakeTurn(w.node, w.port, w.frame)
  BY DEF Deliver
<1>2. /\ IsABag(waiting') /\ BagToSet(waiting') \subseteq BagToSet(waiting)
      /\ \A v \in BagToSet(waiting') : v.port # "C" => waiting'[v] = 1
      /\ w.node \in Node /\ w.frame \in Frame
  BY <1>1, TurnEffect
<1>3. /\ list' \in [Node -> [Port -> [Lane -> Seq(Node \X Nat)]]]
      /\ \A m \in Node, q \in RingPort : Listed(m, q)' = Listed(m, q)
  <2>1. TypeOK
    BY DEF RingInv
  <2> QED
    BY <1>1, <1>2, <2>1, RememberAdds, PortParts
<1>4. TypeOK' /\ PortsStayOpen'
  BY <1>1, <1>2, <1>3 DEF RingInv, TypeOK, PortsStayOpen
<1>5. FramesAreSent'
  <2>1. \A m \in Node, q \in RingPort : \A k \in Listed(m, q)' : k[2] < sequenceNumber[k[1]]
    BY <1>3 DEF RingInv, FramesAreSent
  <2> QED
    BY <1>1, <1>2, <2>1 DEF RingInv, FramesAreSent
<1>6. NoneTooFar'
  BY <1>1, <1>2 DEF RingInv, NoneTooFar, ArrivingAt, WaitingAt
<1>7. OneCopyEachWay'
  BY <1>1, <1>2 DEF RingInv, OneCopyEachWay
<1>8. NothingAheadKnowsIt'
  <2>1. \A d \in BagToSet(line) \cup BagToSet(waiting) : d.port # "C" => d.port \in RingPort /\ Opposite(d.port) \in RingPort
    BY CopyParts, PortParts DEF RingInv, TypeOK
  <2> QED
    BY <1>1, <1>2, <1>3, <2>1 DEF RingInv, NothingAheadKnowsIt, ArrivingAt, WaitingAt
<1> QED
  BY <1>4, <1>5, <1>6, <1>7, <1>8 DEF RingInv

LEMMA TransmitKeepsRing ==
  ASSUME RingInv, NEW w \in BagToSet(waiting), Transmit(w.node, w.port, w.frame)
  PROVE  RingInv'
<1> DEFINE n == w.node
           p == w.port
           f == w.frame
           e == At(Neighbour(n, p), Opposite(p), f)
<1>1. /\ sequenceNumber' = sequenceNumber /\ stuck' = stuck /\ sent' = sent /\ heard' = heard
      /\ Remember(n, p, f) /\ TakeTurn(n, p, f) /\ p \in RingPort
      /\ line' = line (+) SetToBag({e})
  BY DEF Transmit
<1>2. /\ IsABag(waiting') /\ BagToSet(waiting') \subseteq BagToSet(waiting)
      /\ w \notin BagToSet(waiting')
      /\ \A v \in BagToSet(waiting') : v.port # "C" => waiting'[v] = 1
      /\ n \in Node /\ p \in Port /\ f \in Frame /\ f \in sent
  BY <1>1, TurnEffect, PortParts
<1>3. /\ e \in Copy /\ e.node = Neighbour(n, p) /\ e.port = Opposite(p) /\ e.frame = f
      /\ e.port # "C" /\ e.port # p /\ Opposite(e.port) = p
  <2>1. Neighbour(n, p) \in Node /\ Opposite(p) \in Port
    BY <1>1, <1>2, NextHop, PortParts
  <2> QED
    BY <1>1, <1>2, <2>1, AtParts, PortParts
<1>4. /\ list' \in [Node -> [Port -> [Lane -> Seq(Node \X Nat)]]]
      /\ \A m \in Node, q \in RingPort : Listed(m, q)' \subseteq Listed(m, q) \cup {Identity(f)}
      /\ \A m \in Node, q \in RingPort : m # n \/ q # p => Listed(m, q)' = Listed(m, q)
  <2>1. TypeOK
    BY DEF RingInv
  <2> QED
    BY <1>1, <1>2, <2>1, RememberAdds, PortParts
<1> HIDE DEF n, p, f, e
<1>5. \A d \in BagToSet(line) : d.frame = f => d.port = p
  BY <1>1, PortParts DEF RingInv, OneCopyEachWay, f, p
<1>6. /\ IsABag(line') /\ BagToSet(line') = BagToSet(line) \cup {e}
      /\ e \notin BagToSet(line)
      /\ line'[e] = 1 /\ \A d \in BagToSet(line) : line'[d] = line[d]
  <2>1. IsABag(line)
    BY DEF RingInv, TypeOK
  <2>2. e \notin BagToSet(line)
    BY <1>3, <1>5
  <2>3. /\ IsABag(line') /\ BagToSet(line') = BagToSet(line) \cup {e}
        /\ \A d \in BagToSet(line') : line'[d] = (IF d \in BagToSet(line) THEN line[d] ELSE 0)
                                                + (IF d \in {e} THEN 1 ELSE 0)
    BY <1>1, <2>1, BagAddition
  <2>4. \A d \in BagToSet(line) : line[d] \in Nat
    BY <2>1 DEF IsABag, BagToSet
  <2> QED
    BY <2>2, <2>3, <2>4
<1>7. /\ ArrivingAt(e) = Covered(p, f.src, n) + 1
      /\ Covered(p, f.src, n) \in Int /\ f.src \in Node
      /\ WaitingAt(w) = Covered(p, f.src, n)
  <2>1. f.src \in Node
    BY <1>2, FrameParts
  <2>2. Hops(p, f.src, Neighbour(n, p)) = Covered(p, f.src, n) + 1
    BY <1>1, <1>2, <2>1, NextHop
  <2>3. Covered(p, f.src, n) \in Int
    BY <1>1, <1>2, <2>1, HopsRange DEF Covered
  <2> QED
    BY <1>3, <2>1, <2>2, <2>3 DEF ArrivingAt, WaitingAt, n, p, f
<1>8. TypeOK' /\ PortsStayOpen'
  BY <1>1, <1>2, <1>3, <1>4, <1>6 DEF RingInv, TypeOK, PortsStayOpen
<1>9. FramesAreSent'
  <2>1. f.seq < sequenceNumber[f.src] /\ Identity(f)[1] = f.src /\ Identity(f)[2] = f.seq
    BY <1>2, FrameParts DEF RingInv, FramesAreSent
  <2>2. \A m \in Node, q \in RingPort : \A k \in Listed(m, q)' : k[2] < sequenceNumber[k[1]]
    BY <1>4, <2>1 DEF RingInv, FramesAreSent
  <2>3. \A d \in BagToSet(line') \cup BagToSet(waiting') : d.frame \in sent
    BY <1>2, <1>3, <1>6 DEF RingInv, FramesAreSent
  <2> QED
    BY <1>1, <2>2, <2>3 DEF RingInv, FramesAreSent
<1>10. NoneTooFar'
  <2>1. f.dest # f.src /\ Covered(p, f.src, n) < Reach(p, f)
    BY <1>1, <1>7, PortParts DEF RingInv, NoneTooFar, n, p, f
  <2>2. ArrivingAt(e) <= Reach(p, f)
    BY <1>1, <1>2, <1>7, <2>1, ReachRange
  <2>3. \A d \in BagToSet(line') :
          IF d.port = "C" THEN d.node = d.frame.src
          ELSE d.frame.dest # d.frame.src /\ ArrivingAt(d) <= Reach(Opposite(d.port), d.frame)
    BY <1>3, <1>6, <2>1, <2>2 DEF RingInv, NoneTooFar
  <2> QED
    BY <1>2, <2>3 DEF RingInv, NoneTooFar, ArrivingAt, WaitingAt
<1>11. OneCopyEachWay'
  <2>1. \A d \in BagToSet(line') : line'[d] = 1
    BY <1>6 DEF RingInv, OneCopyEachWay
  <2>2. \A c, d \in BagToSet(line') :
          c.frame = d.frame => c = d \/ (c.port # "C" /\ d.port = Opposite(c.port))
    <3>1. p # "C" /\ Opposite(p) = e.port
      BY <1>1, <1>3, PortParts
    <3> QED
      BY <1>3, <1>5, <1>6, <3>1 DEF RingInv, OneCopyEachWay
  <2>3. \A v \in BagToSet(waiting') : v.frame = f /\ v.port # "C" => v.port = e.port
    <3>1. \A v \in BagToSet(waiting') : v.frame = f /\ v.port # "C" => v.port # p
      BY <1>2 DEF RingInv, OneCopyEachWay, f, p
    <3>2. \A v \in BagToSet(waiting') : v.port \in Port
      BY <1>2, CopyParts DEF RingInv, TypeOK
    <3> QED
      BY <1>1, <1>3, <3>1, <3>2, PortParts
  <2>4. \A c \in BagToSet(waiting'), d \in BagToSet(line') :
          c.frame = d.frame /\ c.port # "C" => d.port = c.port
    BY <1>2, <1>3, <1>6, <2>3 DEF RingInv, OneCopyEachWay
  <2>5. \A c, d \in BagToSet(waiting') :
          c.frame = d.frame /\ c.port # "C" /\ c.port = d.port => c = d
    BY <1>2 DEF RingInv, OneCopyEachWay
  <2> QED
    BY <1>2, <2>1, <2>2, <2>4, <2>5 DEF OneCopyEachWay
<1>12. NothingAheadKnowsIt'
  <2>1. \A d \in BagToSet(line') \cup BagToSet(waiting') :
          /\ d.frame \in sent
          /\ d.port # "C" => d.port \in RingPort /\ Opposite(d.port) \in RingPort
    BY <1>2, <1>3, <1>6, CopyParts, PortParts DEF RingInv, TypeOK, FramesAreSent
  (* A list another copy still has before it is not the one that grew. *)
  <2>2. \A d \in BagToSet(line) \cup BagToSet(waiting'), m \in Node, q \in RingPort :
          Identity(d.frame) \in Listed(m, q)'
            => Identity(d.frame) \in Listed(m, q) \/ (m = n /\ q = p /\ d.frame = f)
    BY <1>2, <1>4, <1>6, <2>1, PortParts DEF RingInv, FramesAreSent
  <2>3. \A c \in BagToSet(line) : c.port # "C" /\ c.frame = f => Opposite(c.port) # p
    BY <1>1, <1>5, PortParts
  <2>4. \A c \in BagToSet(line) : c.port = "C" => c.frame # f
    BY <1>1, <1>5, PortParts
  <2>5. \A c \in BagToSet(waiting') : c.port # "C" /\ c.frame = f => c.port # p
    BY <1>2 DEF RingInv, OneCopyEachWay, f, p
  <2>6. \A c \in BagToSet(line), m \in Node :
          IF c.port = "C" THEN \A q \in RingPort : Identity(c.frame) \notin Listed(m, q)'
          ELSE Covered(Opposite(c.port), c.frame.src, m) >= ArrivingAt(c)
                 => Identity(c.frame) \notin Listed(m, Opposite(c.port))'
    BY <1>6, <2>1, <2>2, <2>3, <2>4 DEF RingInv, NothingAheadKnowsIt
  <2>7. \A c \in BagToSet(waiting'), m \in Node :
          c.port # "C" /\ Covered(c.port, c.frame.src, m) >= WaitingAt(c)
            => Identity(c.frame) \notin Listed(m, c.port)'
    BY <1>2, <2>1, <2>2, <2>5 DEF RingInv, NothingAheadKnowsIt
  <2>8. ASSUME NEW m \in Node, Covered(p, f.src, m) >= ArrivingAt(e)
        PROVE  Identity(f) \notin Listed(m, p)'
    <3>1. Covered(p, f.src, m) \in Int
      BY <1>1, <1>7, HopsRange DEF Covered
    <3>2. m # n /\ Covered(p, f.src, m) >= WaitingAt(w)
      BY <1>7, <2>8, <3>1
    <3>3. Identity(f) \notin Listed(m, p)
      BY <1>1, <3>2, PortParts DEF RingInv, NothingAheadKnowsIt, p, f
    <3> QED
      BY <1>1, <1>2, <1>4, <3>2, <3>3
  <2> QED
    BY <1>3, <1>6, <2>6, <2>7, <2>8 DEF NothingAheadKnowsIt, ArrivingAt, WaitingAt
<1> QED
  BY <1>8, <1>9, <1>10, <1>11, <1>12 DEF RingInv

-----------------------------------------------------------------------------
(* RingInv holds in every reachable state of every ring. *)
THEOREM RingInvariant == Spec => []RingInv
<1>1. RingInv /\ [Next]_vars => RingInv'
  <2> SUFFICES ASSUME RingInv, [Next]_vars PROVE RingInv'
    OBVIOUS
  <2>1. CASE \E t \in Traffic : generateOnePacket(t)
    BY <2>1, GenerateKeepsRing
  <2>2. CASE \E c \in BagToSet(line) : handleFrame(c.node, c.port, c.frame)
    BY <2>2, HandleKeepsRing
  <2>3. CASE \E w \in BagToSet(waiting) : Discard(w.node, w.port, w.frame)
    BY <2>3, DiscardKeepsRing
  <2>4. CASE \E w \in BagToSet(waiting) : Transmit(w.node, w.port, w.frame)
    BY <2>4, TransmitKeepsRing
  <2>5. CASE \E w \in BagToSet(waiting) : w.port = "C" /\ Deliver(w.node, w.frame)
    BY <2>5, DeliverKeepsRing
  <2>6. CASE UNCHANGED vars
    <3>1. list' = list
      BY <2>6 DEF vars
    <3> QED
      BY <2>6, <3>1, SameLists DEF vars, RingInv, TypeOK, PortsStayOpen, FramesAreSent, NoneTooFar,
                                   OneCopyEachWay, NothingAheadKnowsIt, ArrivingAt, WaitingAt
  <2> QED
    BY <2>1, <2>2, <2>3, <2>4, <2>5, <2>6 DEF Next, Move
<1> QED
  BY <1>1, InitRing, PTL DEF Spec

(* The type invariant of HsrRing. *)
THEOREM RingTypes == Spec => []TypeOK
<1>1. RingInv => TypeOK
  BY DEF RingInv
<1> QED
  BY <1>1, RingInvariant, PTL

(* No duplicate list of a ring port ever discards a frame, so no scheduler *)
(* ever waits for a report of an interface that saw nothing.               *)
THEOREM PortsAreNeverStuck == Spec => []PortsStayOpen
<1>1. RingInv => PortsStayOpen
  BY DEF RingInv
<1> QED
  BY <1>1, RingInvariant, PTL

(* What reaches the processors is what the service allows. *)
THEOREM RingImplementsService == Spec => ImplementsService
<1>1. Init => Service!Init
  <2> SUFFICES ASSUME Init PROVE Service!Init
    OBVIOUS
  <2>1. [n \in Node |-> list[n]["C"]] = [n \in Node |-> [l \in Lane |-> <<>>]]
    BY PortParts DEF Init
  <2> QED
    BY <2>1 DEF Init, Service!Init
<1>2. RingInv /\ [Next]_vars => [Service!Next]_(Service!vars)
  <2> SUFFICES ASSUME RingInv, [Next]_vars PROVE [Service!Next]_(Service!vars)
    OBVIOUS
  <2>1. ASSUME NEW t \in Traffic, generateOnePacket(t) PROVE Service!Next
    <3> DEFINE f == [src |-> t.src, seq |-> sequenceNumber[t.src], dest |-> t.dest, prio |-> t.prio]
    <3>1. t.src \in Node /\ sequenceNumber[t.src] \in Nat
      BY HsrRingAssumption DEF RingInv, TypeOK
    <3>2. f \notin sent
      BY <3>1 DEF RingInv, FramesAreSent
    <3>3. Service!Send(f) /\ f \in sent'
      BY <2>1, <3>2 DEF generateOnePacket, Service!Send
    <3> QED
      BY <3>3 DEF Service!Next
  <2>2. ASSUME NEW c \in BagToSet(line), handleFrame(c.node, c.port, c.frame)
        PROVE  UNCHANGED Service!vars
    BY <2>2 DEF handleFrame, Service!vars
  <2>3. ASSUME NEW w \in BagToSet(waiting), Discard(w.node, w.port, w.frame)
        PROVE  UNCHANGED Service!vars
    BY <2>3 DEF Discard, Service!vars
  <2>4. ASSUME NEW w \in BagToSet(waiting), Transmit(w.node, w.port, w.frame)
        PROVE  UNCHANGED Service!vars
    <3>1. sent' = sent /\ heard' = heard /\ w.port # "C"
      BY <2>4, PortParts DEF Transmit
    <3>2. \A n \in Node : list'[n]["C"] = list[n]["C"]
      BY <2>4, <3>1 DEF Transmit, Remember, RingInv, TypeOK
    <3> QED
      BY <3>1, <3>2 DEF Service!vars
  <2>5. ASSUME NEW w \in BagToSet(waiting), w.port = "C", Deliver(w.node, w.frame)
        PROVE  Service!Next
    <3> DEFINE n == w.node
               f == w.frame
    <3>1. n \in Node /\ f \in Frame /\ f \in sent /\ n \in Audience(f) /\ LaneOf(f) \in Lane
      BY <2>5, CopyParts, IdentityType DEF RingInv, TypeOK, FramesAreSent, NoneTooFar
    <3>2. /\ ~ Remembered(n, "C", f) /\ Remember(n, "C", f)
          /\ heard' = [heard EXCEPT ![n] = @ \cup {f}] /\ sent' = sent
      BY <2>5 DEF Deliver
    <3> HIDE DEF n, f
    <3>3. list \in [Node -> [Port -> [Lane -> Seq(Node \X Nat)]]] /\ "C" \in Port
      BY PortParts DEF RingInv, TypeOK
    <3>4. \A i \in DOMAIN list[n]["C"][LaneOf(f)] : list[n]["C"][LaneOf(f)][i] # Identity(f)
      BY <3>2 DEF Remembered
    <3> DEFINE x == Newest(<<Identity(f)>> \o list[n]["C"][LaneOf(f)])
    <3>5. list' = [list EXCEPT ![n]["C"][LaneOf(f)] = x]
      BY <3>2 DEF Remember
    <3>6. x = Service!Newest(<<Identity(f)>> \o list[n]["C"][LaneOf(f)])
      BY DEF Newest, Service!Newest
    <3> HIDE DEF x
    <3>7. [m \in Node |-> list'[m]["C"]]
            = [[m \in Node |-> list[m]["C"]] EXCEPT ![n][LaneOf(f)] = x]
      BY <3>1, <3>3, <3>5
    <3>8. Service!Hear(n, f)
      BY <3>1, <3>2, <3>4, <3>6, <3>7 DEF Service!Hear
    <3> QED
      BY <3>1, <3>8 DEF Service!Next
  <2>6. CASE UNCHANGED vars
    BY <2>6 DEF vars, Service!vars
  <2> QED
    BY <2>1, <2>2, <2>3, <2>4, <2>5, <2>6 DEF Next, Move
<1> QED
  BY <1>1, <1>2, RingInvariant, PTL DEF Spec, ImplementsService, Service!Spec
=============================================================================
