---------------------------- MODULE EtherNet_proofs ----------------------------
(***************************************************************************)
(* Proofs about EtherNet for every network, queue limit, list length,      *)
(* number of sequence numbers and XML configuration.                       *)
(*                                                                         *)
(* NetInv is the invariant behind NothingIsThrown: a frame at a ring port  *)
(* has a tag and is for somebody else, and what the array of a duplicate   *)
(* list holds its checking map holds as well.  ServiceInv adds what makes  *)
(* a processor hear a frame once: all copies of a frame have the tag it    *)
(* got when it came from its processor, and every frame heard is listed.   *)
(* LossInv follows the copy that goes one way round a ring: unless it was  *)
(* lost it is queued, being sent, on the line or has passed the next node. *)
(***************************************************************************)
EXTENDS EtherNet, FiniteSetTheorems, SequenceTheorems, WellFoundedInduction, TLAPS

(* The addresses the frames of the configurations are for. *)
Destination ==
  UNION {{m.data.destination : m \in loadXMLFile(q[1], q[2])} : q \in Node \X Configuration}

(* Frames for another node than their sender: as the processors make them, *)
(* and as the switches tag them.                                           *)
ForAnother ==
  {f \in [src : Node, dest : Destination, vlan : BOOLEAN, counter : Nat, seq : Nat \cup {NoTag}] :
     f.dest # f.src}
TaggedFrame   == {f \in ForAnother : f.seq # NoTag}
UntaggedFrame == {f \in ForAnother : f.seq = NoTag}

Item == [source : Node, sequencenumber : Nat]

(* The array holds unsigned numbers, and nothing the map does not hold. *)
ListInv(list) ==
  /\ list.entries \in Seq(Item)
  /\ \A i \in DOMAIN list.entries :
       <<list.entries[i].source, list.entries[i].sequencenumber>> \in list.backup

(* An interface with an empty queue is idle: no self message waits for a   *)
(* frame that is not there.                                                *)
InterfaceInv(m) ==
  /\ m = [txQueue |-> m.txQueue, transmitState |-> m.transmitState, list |-> m.list]
  /\ m.txQueue \in Seq(TaggedFrame)
  /\ m.transmitState \in {"TX_IDLE", "WAIT_IFG", "TRANSMITTING"}
  /\ m.txQueue = <<>> => m.transmitState = "TX_IDLE"
  /\ ListInv(m.list)

(* Frames come untagged from the node's own processor and tagged from a    *)
(* neighbour.                                                              *)
OnLine(c) ==
  /\ c = At(c.node, c.gate, c.frame)
  /\ c.node \in Node
  /\ \/ c.gate = "C" /\ c.frame \in UntaggedFrame /\ c.frame.src = c.node
     \/ c.gate \in Port(c.node) /\ c.frame \in TaggedFrame

MacInv ==
  /\ mac = [n \in Node |-> [p \in Port(n) |-> mac[n][p]]]
  /\ \A n \in Node : \A p \in Port(n) :
       /\ InterfaceInv(mac[n][p])
       /\ mac[n][p].transmitState # "TX_IDLE" => Connected(n, p)

NetInv ==
  /\ ~ thrown
  /\ \A m \in pending : /\ m.cpu \in Node
                        /\ m.data.destination \in Destination
                        /\ m.data.destination # m.cpu
  /\ messageCount \in Nat
  /\ sequenceNum \in [Node -> Nat]
  /\ IsABag(line) /\ \A c \in BagToSet(line) : OnLine(c)
  /\ IsABag(recvList)
  /\ MacInv
  /\ cpuList = [n \in Node |-> cpuList[n]]
  /\ \A n \in Node : ListInv(cpuList[n])

-----------------------------------------------------------------------------
(* Bags: what adding one copy and taking one copy does. *)

LEMMA BagAddition ==
  ASSUME NEW B, IsABag(B), NEW e
  PROVE  /\ IsABag(B (+) SetToBag({e}))
         /\ BagToSet(B (+) SetToBag({e})) = BagToSet(B) \cup {e}
         /\ (B (+) SetToBag({e}))[e] = IF e \in BagToSet(B) THEN B[e] + 1 ELSE 1
         /\ \A d \in BagToSet(B) : d # e => (B (+) SetToBag({e}))[d] = B[d]
BY SMT DEF IsABag, BagToSet, SetToBag, (+)

LEMMA BagRemoval ==
  ASSUME NEW B, IsABag(B), NEW e \in BagToSet(B)
  PROVE  /\ IsABag(B (-) SetToBag({e}))
         /\ BagToSet(B (-) SetToBag({e})) = IF B[e] = 1 THEN BagToSet(B) \ {e} ELSE BagToSet(B)
         /\ \A d \in BagToSet(B) : d # e => (B (-) SetToBag({e}))[d] = B[d]
BY SMT DEF IsABag, BagToSet, SetToBag, (-)

LEMMA EmptyBags ==
  /\ IsABag(EmptyBag) /\ BagToSet(EmptyBag) = {}
  /\ \A B : IsABag(B) => B (+) SetToBag({}) = B
<1>1. IsABag(EmptyBag) /\ BagToSet(EmptyBag) = {}
  BY DEF EmptyBag, SetToBag, IsABag, BagToSet
<1>2. ASSUME NEW B, IsABag(B)
      PROVE  B (+) SetToBag({}) = B
  BY <1>2, SMT DEF IsABag, BagToSet, SetToBag, (+)
<1> QED
  BY <1>1, <1>2

-----------------------------------------------------------------------------
(* The duplicate list. *)

LEMMA NumbersAreUnsigned ==
  ASSUME NEW s \in Int
  PROVE  /\ asUnsigned(s) \in Nat
         /\ asShort(s) \in Nat => asShort(s) = asUnsigned(s)
<1>1. SeqModulus \in Nat \ {0}
  BY EtherMacAssumption
<1>2. s % SeqModulus \in 0 .. SeqModulus - 1
  BY <1>1
<1> QED
  BY <1>1, <1>2 DEF asUnsigned, asShort

LEMMA TaggedFrameParts ==
  ASSUME NEW f \in TaggedFrame
  PROVE  /\ f.src \in Node /\ f.dest # f.src /\ f.seq \in Nat /\ f.seq # NoTag /\ f.counter \in Nat
         /\ ListItemData(f) \in Item
         /\ ListItemData(f).source = f.src
         /\ ListItemData(f).sequencenumber = asUnsigned(f.seq)
         /\ keyMSG(f) = <<f.src, asUnsigned(f.seq)>>
<1>1. f.src \in Node /\ f.dest # f.src /\ f.seq \in Nat /\ f.seq # NoTag /\ f.counter \in Nat
  BY DEF TaggedFrame, ForAnother, NoTag
<1>2. asUnsigned(f.seq) \in Nat
  BY <1>1, NumbersAreUnsigned
<1> QED
  BY <1>1, <1>2 DEF ListItemData, keyMSG, Item

(* The map never denies a hit in the array (ListenErkennung.cc, 142): a    *)
(* hit is the entry's own number, since a negative one is never stored.    *)
LEMMA ListsDoNotThrow ==
  ASSUME NEW list, ListInv(list), NEW f \in TaggedFrame
  PROVE  /\ checkFrame(list, f) \in {"new", "duplicate"}
         /\ checkFrame(list, f) = "new" => ~ searchMessage(list, f)
<1>1. CASE ~ searchMessage(list, f)
  BY <1>1, TaggedFrameParts DEF checkFrame, limitCheck
<1>2. CASE searchMessage(list, f)
  <2>1. PICK i \in DOMAIN list.entries : /\ list.entries[i].source = f.src
                                         /\ list.entries[i].sequencenumber = asShort(f.seq)
    BY <1>2 DEF searchMessage
  <2>2. list.entries[i] \in Item
    BY <2>1 DEF ListInv
  <2>3. asShort(f.seq) = asUnsigned(f.seq)
    BY <2>1, <2>2, NumbersAreUnsigned, TaggedFrameParts DEF Item
  <2>4. keyMSG(f) \in list.backup
    BY <2>1, <2>3, TaggedFrameParts DEF ListInv
  <2> QED
    BY <1>2, <2>4, TaggedFrameParts DEF checkFrame, limitCheck, backupLimitCheck
<1> QED
  BY <1>1, <1>2

LEMMA AddingKeepsTheList ==
  ASSUME NEW list, ListInv(list), NEW f \in TaggedFrame
  PROVE  /\ ListInv(addMessage(list, f))
         /\ Len(list.entries) < ListSize =>
              /\ Len(addMessage(list, f).entries) = Len(list.entries) + 1
              /\ addMessage(list, f).entries[1] = ListItemData(f)
              /\ \A i \in DOMAIN list.entries :
                   addMessage(list, f).entries[i + 1] = list.entries[i]
<1> DEFINE x    == ListItemData(f)
           s    == list.entries
           all  == <<x>> \o s
           last == IF Len(s) < ListSize THEN Len(s) + 1 ELSE ListSize
           kept == SubSeq(all, 1, last)
<1>1. x \in Item /\ s \in Seq(Item) /\ <<x>> \in Seq(Item)
  BY TaggedFrameParts DEF ListInv
<1>2. /\ all \in Seq(Item) /\ Len(all) = Len(s) + 1
      /\ all[1] = x /\ \A i \in 1 .. Len(s) : all[i + 1] = s[i]
  BY <1>1
<1>3. last \in Nat \ {0} /\ last <= Len(s) + 1 /\ Len(s) \in Nat
  BY <1>1, EtherMacAssumption
<1>4. addMessage(list, f).entries = kept /\ addMessage(list, f).backup = list.backup \cup {keyMSG(f)}
  BY DEF addMessage
<1>5. x.source = f.src /\ x.sequencenumber = asUnsigned(f.seq) /\ keyMSG(f) = <<f.src, asUnsigned(f.seq)>>
  BY TaggedFrameParts
<1> HIDE DEF x, all, last
<1>6. kept \in Seq(Item) /\ Len(kept) = last /\ \A i \in 1 .. last : kept[i] = all[i]
  <2>1. \A i \in 1 .. last : all[i] \in Item
    BY <1>2, <1>3
  <2> QED
    BY <1>3, <2>1, SubSeqProperties
<1> HIDE DEF kept
<1>7. \A i \in DOMAIN kept : kept[i] = x \/ \E j \in DOMAIN s : kept[i] = s[j]
  <2> SUFFICES ASSUME NEW i \in DOMAIN kept, i # 1
               PROVE  \E j \in DOMAIN s : kept[i] = s[j]
    BY <1>2, <1>3, <1>6
  <2>1. i \in 1 .. last /\ i - 1 \in 1 .. Len(s) /\ kept[i] = all[i]
    BY <1>3, <1>6
  <2>2. all[(i - 1) + 1] = s[i - 1]
    BY <1>2, <2>1
  <2> QED
    BY <1>1, <2>1, <2>2
<1>8. \A i \in DOMAIN kept : <<kept[i].source, kept[i].sequencenumber>> \in list.backup \cup {keyMSG(f)}
  BY <1>5, <1>7 DEF ListInv
<1>9. ListInv(addMessage(list, f))
  BY <1>4, <1>6, <1>8 DEF ListInv
<1>10. ASSUME Len(s) < ListSize
       PROVE  /\ Len(kept) = Len(s) + 1 /\ kept[1] = x
              /\ \A i \in DOMAIN s : kept[i + 1] = s[i]
  <2>1. last = Len(s) + 1
    BY <1>10 DEF last
  <2>2. ASSUME NEW i \in DOMAIN s
        PROVE  kept[i + 1] = s[i]
    <3>1. i \in 1 .. Len(s) /\ i + 1 \in 1 .. last
      BY <1>1, <2>1
    <3> QED
      BY <1>2, <1>6, <3>1
  <2>3. 1 \in 1 .. last
    BY <1>3
  <2> QED
    BY <1>2, <1>6, <2>1, <2>2, <2>3
<1> QED
  BY <1>4, <1>9, <1>10 DEF x

-----------------------------------------------------------------------------
(* The interface. *)

QueueOf(m) == {m.txQueue[i] : i \in DOMAIN m.txQueue}

(* A nonempty set of naturals has a least element. *)
LEMMA LeastElement ==
  ASSUME NEW T, T \subseteq Nat, T # {}
  PROVE  \E i \in T : \A j \in T : i <= j
<1> DEFINE R == OpToRel(<, Nat)
<1>1. IsWellFoundedOn(R, Nat)
  BY NatLessThanWellFounded
<1>2. \E i \in T : \A j \in T : <<j, i>> \notin R
  <2> HIDE DEF R
  <2> QED
    BY <1>1, WFMin
<1>3. \A i, j \in Nat : j < i => <<j, i>> \in R
  BY DEF OpToRel
<1> HIDE DEF R
<1>4. \A i, j \in T : <<j, i>> \notin R => i <= j
  BY <1>3
<1> QED
  BY <1>2, <1>4, Zenon

(* Dropping duplicates leaves an end of the queue. *)
LEMMA DroppingDuplicates ==
  ASSUME NEW q \in Seq(TaggedFrame), NEW list
  PROVE  /\ AfterDuplicates(q, list) \in Seq(TaggedFrame)
         /\ \A i \in DOMAIN AfterDuplicates(q, list) :
              \E j \in DOMAIN q : AfterDuplicates(q, list)[i] = q[j]
<1> DEFINE fresh == {i \in DOMAIN q : checkFrame(list, q[i]) # "duplicate"}
           first == CHOOSE i \in fresh : \A j \in fresh : i <= j
<1>1. CASE fresh = {}
  <2>1. AfterDuplicates(q, list) = <<>>
    BY <1>1 DEF AfterDuplicates
  <2> QED
    BY <2>1
<1>2. CASE fresh # {}
  <2>1. AfterDuplicates(q, list) = SubSeq(q, first, Len(q))
    BY <1>2 DEF AfterDuplicates
  <2>2. fresh \subseteq DOMAIN q /\ DOMAIN q = 1 .. Len(q) /\ Len(q) \in Nat
    OBVIOUS
  <2> HIDE DEF fresh
  <2>3. \E i \in fresh : \A j \in fresh : i <= j
    BY <1>2, <2>2, LeastElement
  <2>4. first \in fresh
    BY <2>3
  <2> HIDE DEF first
  <2>5. first \in 1 .. Len(q) /\ first \in Int /\ Len(q) \in Int
    BY <2>2, <2>4
  <2>6. \A i \in first .. Len(q) : q[i] \in TaggedFrame
    BY <2>5
  <2>7. /\ SubSeq(q, first, Len(q)) \in Seq(TaggedFrame)
        /\ Len(SubSeq(q, first, Len(q))) = Len(q) - first + 1
        /\ \A i \in 1 .. Len(q) - first + 1 : SubSeq(q, first, Len(q))[i] = q[first + i - 1]
    BY <2>5, <2>6, SubSeqProperties
  <2>8. \A i \in DOMAIN SubSeq(q, first, Len(q)) :
          /\ first + i - 1 \in DOMAIN q
          /\ SubSeq(q, first, Len(q))[i] = q[first + i - 1]
    BY <2>5, <2>7
  <2> QED
    BY <2>1, <2>7, <2>8
<1> QED
  BY <1>1, <1>2

LEMMA StartingKeepsTheInterface ==
  ASSUME NEW m, m.txQueue \in Seq(TaggedFrame), ListInv(m.list)
  PROVE  /\ InterfaceInv(startFrameTransmission(m))
         /\ QueueOf(startFrameTransmission(m)) \subseteq QueueOf(m)
<1> DEFINE q == AfterDuplicates(m.txQueue, m.list)
           r == startFrameTransmission(m)
<1>1. /\ q \in Seq(TaggedFrame)
      /\ \A i \in DOMAIN q : \E j \in DOMAIN m.txQueue : q[i] = m.txQueue[j]
  BY DroppingDuplicates
<1>2. r = SendHead(q, m.list)
  BY DEF startFrameTransmission
<1> SUFFICES InterfaceInv(r) /\ QueueOf(r) \subseteq QueueOf(m)
  OBVIOUS
<1> HIDE DEF q, r
<1>3. r.txQueue = q => QueueOf(r) \subseteq QueueOf(m)
  <2> SUFFICES ASSUME r.txQueue = q, NEW x \in QueueOf(r) PROVE x \in QueueOf(m)
    OBVIOUS
  <2>1. PICK i \in DOMAIN q : x = q[i]
    BY DEF QueueOf
  <2> QED
    BY <1>1, <2>1 DEF QueueOf
<1>4. CASE q = <<>>
  <2>1. r = [txQueue |-> q, transmitState |-> "TX_IDLE", list |-> m.list]
    BY <1>2, <1>4 DEF SendHead
  <2>2. r.txQueue = q /\ r.transmitState = "TX_IDLE" /\ r.list = m.list
    BY <2>1
  <2>3. InterfaceInv(r)
    BY <1>1, <2>1, <2>2 DEF InterfaceInv
  <2> QED
    BY <1>3, <2>2, <2>3
<1>5. CASE q # <<>>
  <2>1. Head(q) \in TaggedFrame
    BY <1>1, <1>5
  <2>2. checkFrame(m.list, Head(q)) # "error"
    BY <2>1, ListsDoNotThrow
  <2>3. r = [txQueue |-> q, transmitState |-> "TRANSMITTING", list |-> addMessage(m.list, Head(q))]
    BY <1>2, <1>5, <2>2 DEF SendHead
  <2>4. ListInv(addMessage(m.list, Head(q)))
    BY <2>1, AddingKeepsTheList
  <2>5. /\ r.txQueue = q /\ r.transmitState = "TRANSMITTING"
        /\ r.list = addMessage(m.list, Head(q))
    BY <2>3
  <2>6. InterfaceInv(r)
    BY <1>1, <1>5, <2>3, <2>4, <2>5 DEF InterfaceInv
  <2> QED
    BY <1>3, <2>5, <2>6
<1> QED
  BY <1>4, <1>5

(* A frame from the switch that is not for the node itself. *)
LEMMA SendingKeepsTheInterface ==
  ASSUME NEW m, InterfaceInv(m), NEW n, NEW f \in TaggedFrame, f.dest # n
  PROVE  /\ InterfaceInv(processFrameFromUpperLayer(m, n, f))
         /\ QueueOf(processFrameFromUpperLayer(m, n, f)) \subseteq QueueOf(m) \cup {f}
<1> DEFINE q == Append(m.txQueue, f)
           r == processFrameFromUpperLayer(m, n, f)
<1>1. m.txQueue \in Seq(TaggedFrame) /\ ListInv(m.list)
  BY DEF InterfaceInv
<1>2. /\ q \in Seq(TaggedFrame) /\ q # <<>>
      /\ \A i \in DOMAIN q : q[i] = f \/ \E j \in DOMAIN m.txQueue : q[i] = m.txQueue[j]
  BY <1>1
<1>3. CASE QueueFull(m)
  BY <1>3 DEF processFrameFromUpperLayer
<1> DEFINE longer == [m EXCEPT !.txQueue = Append(@, f)]
<1>4. longer = [txQueue |-> q, transmitState |-> m.transmitState, list |-> m.list]
  BY DEF InterfaceInv
<1> HIDE DEF longer, q, r
<1>5. QueueOf(longer) \subseteq QueueOf(m) \cup {f}
  BY <1>2, <1>4 DEF QueueOf
<1>6. CASE ~ QueueFull(m) /\ m.transmitState = "TX_IDLE"
  <2>1. r = startFrameTransmission(longer)
    BY <1>6 DEF processFrameFromUpperLayer, longer, r
  <2>2. longer.txQueue \in Seq(TaggedFrame) /\ ListInv(longer.list)
    BY <1>1, <1>2, <1>4
  <2>3. InterfaceInv(r) /\ QueueOf(r) \subseteq QueueOf(longer)
    BY <2>1, <2>2, StartingKeepsTheInterface
  <2> QED
    BY <1>5, <2>3 DEF r
<1>7. CASE ~ QueueFull(m) /\ m.transmitState # "TX_IDLE"
  <2>1. r = longer
    BY <1>7 DEF processFrameFromUpperLayer, longer, r
  <2>2. InterfaceInv(longer)
    BY <1>1, <1>2, <1>4 DEF InterfaceInv
  <2> QED
    BY <1>5, <2>1, <2>2 DEF r
<1> QED
  BY <1>3, <1>6, <1>7

LEMMA EndOfTransmission ==
  ASSUME NEW m, InterfaceInv(m), m.transmitState = "TRANSMITTING"
  PROVE  /\ InterfaceInv(handleEndTxPeriod(m))
         /\ QueueOf(handleEndTxPeriod(m)) \subseteq QueueOf(m)
         /\ Head(m.txQueue) \in QueueOf(m) /\ Head(m.txQueue) \in TaggedFrame
<1> DEFINE q == m.txQueue
           shorter == [m EXCEPT !.txQueue = Tail(@)]
           r == handleEndTxPeriod(m)
<1>1. q \in Seq(TaggedFrame) /\ q # <<>> /\ ListInv(m.list)
  BY DEF InterfaceInv
<1>2. /\ Tail(q) \in Seq(TaggedFrame)
      /\ \A i \in DOMAIN Tail(q) : i + 1 \in DOMAIN q /\ Tail(q)[i] = q[i + 1]
      /\ 1 \in DOMAIN q /\ Head(q) = q[1] /\ Head(q) \in TaggedFrame
  <2>1. Tail(q) \in Seq(TaggedFrame) /\ Len(Tail(q)) = Len(q) - 1
    BY <1>1
  <2>2. \A i \in 1 .. Len(q) - 1 : i + 1 \in 1 .. Len(q) /\ Tail(q)[i] = q[i + 1]
    BY <1>1
  <2> QED
    BY <1>1, <2>1, <2>2
<1>3. shorter = [txQueue |-> Tail(q), transmitState |-> m.transmitState, list |-> m.list]
  BY DEF InterfaceInv
<1>4. r = beginSendFrames(shorter)
  BY <1>1 DEF handleEndTxPeriod
<1> HIDE DEF shorter, r
<1>5. r = [txQueue |-> Tail(q), list |-> m.list,
           transmitState |-> IF Tail(q) = <<>> THEN "TX_IDLE" ELSE "WAIT_IFG"]
  BY <1>3, <1>4 DEF beginSendFrames
<1>6. InterfaceInv(r)
  BY <1>1, <1>2, <1>5 DEF InterfaceInv
<1>7. QueueOf(r) \subseteq QueueOf(m) /\ Head(q) \in QueueOf(m)
  BY <1>2, <1>5 DEF QueueOf
<1> QED
  BY <1>2, <1>6, <1>7 DEF r

LEMMA EndOfGap ==
  ASSUME NEW m, InterfaceInv(m), m.transmitState = "WAIT_IFG"
  PROVE  /\ InterfaceInv(handleEndIFGPeriod(m))
         /\ QueueOf(handleEndIFGPeriod(m)) \subseteq QueueOf(m)
<1>1. m.txQueue \in Seq(TaggedFrame) /\ m.txQueue # <<>> /\ ListInv(m.list)
  BY DEF InterfaceInv
<1> QED
  BY <1>1, StartingKeepsTheInterface DEF handleEndIFGPeriod

-----------------------------------------------------------------------------
(* The switches. *)

(* No RedBox strips tags: one in the mode REGULAR gives its interlink      *)
(* frames that the list there throws at.                                   *)
TagsAreKept == RedBox = {} \/ redBoxCfg # "REGULAR"

PassedOn(n, g, f) == IF n \in RedBox THEN RedBoxSwitch(n, g, f) ELSE EndNodeSwitch(n, g, f)

(* The frame as the switch passes it on. *)
AsTagged(n, g, f) == IF g = "C" THEN Retag(f, createHSRTag(sequenceNum[n])) ELSE f

LEMMA TaggingIsAll ==
  ASSUME NetInv, NEW c, OnLine(c), NEW h, h = AsTagged(c.node, c.gate, c.frame)
  PROVE  /\ h \in TaggedFrame
         /\ h.src = c.frame.src /\ h.dest = c.frame.dest /\ h.counter = c.frame.counter
         /\ Untagged(h) = Untagged(c.frame) /\ Untagged(h) \in UntaggedFrame
         /\ Untagged(h).counter = h.counter
         /\ c.gate = "C" => h.seq = sequenceNum[c.node] /\ Untagged(c.frame) = c.frame
         /\ c.gate # "C" => h = c.frame
<1> DEFINE f == c.frame
<1>1. /\ c.node \in Node /\ f \in ForAnother
      /\ c.gate = "C" => f \in UntaggedFrame
      /\ c.gate # "C" => f \in TaggedFrame
  BY DEF OnLine, Port, TaggedFrame, UntaggedFrame
<1>2. sequenceNum[c.node] \in Nat
  BY <1>1 DEF NetInv
<1> HIDE DEF f
<1>3. \A tag : Retag(f, tag) = [src |-> f.src, dest |-> f.dest, vlan |-> f.vlan, seq |-> tag,
                                counter |-> f.counter]
  BY DEF Retag, decapsulateMessage, generateEthMessage, createETHTag, createDataMessage, dataMessage
<1>4. Untagged(f) = [src |-> f.src, dest |-> f.dest, vlan |-> f.vlan, seq |-> NoTag,
                     counter |-> f.counter]
  BY <1>3 DEF Untagged
<1>5. Untagged(f) \in UntaggedFrame /\ (c.gate = "C" => Untagged(f) = f)
  BY <1>1, <1>4 DEF UntaggedFrame, ForAnother
<1>6. CASE c.gate = "C"
  <2>1. h = [src |-> f.src, dest |-> f.dest, vlan |-> f.vlan, seq |-> sequenceNum[c.node],
             counter |-> f.counter]
    BY <1>3, <1>6 DEF AsTagged, createHSRTag, hsrMessage, f
  <2>2. h \in TaggedFrame
    BY <1>1, <1>2, <2>1 DEF TaggedFrame, ForAnother, NoTag
  <2>3. Untagged(h) = Untagged(f)
    BY <1>4, <2>1 DEF Untagged, Retag, decapsulateMessage, generateEthMessage, createETHTag,
                      createDataMessage, dataMessage
  <2> QED
    BY <1>4, <1>5, <1>6, <2>1, <2>2, <2>3 DEF f
<1>7. CASE c.gate # "C"
  <2>1. h = f
    BY <1>7 DEF AsTagged, f
  <2> QED
    BY <1>1, <1>4, <1>5, <1>7, <2>1 DEF f
<1> QED
  BY <1>6, <1>7

(* One frame goes to all gates: to the processor only if it is meant for   *)
(* it and another node's, to no interface if it is meant for this node.    *)
LEMMA SwitchesPassOneFrame ==
  ASSUME TagsAreKept, NetInv, NEW c, OnLine(c), NEW h, h = AsTagged(c.node, c.gate, c.frame),
         NEW x \in PassedOn(c.node, c.gate, c.frame)
  PROVE  /\ x.frame = h
         /\ x.port = "C" => c.gate # "C" /\ Mine(c.node, h)
         /\ x.port # "C" => h.dest # c.node
<1> DEFINE n == c.node
           g == c.gate
           f == c.frame
<1>1. \A p, k : To(p, k).port = p /\ To(p, k).frame = k
  BY DEF To
<1>2. g = "C" => /\ f.seq = NoTag /\ f.src = n /\ f.dest # n /\ h.dest # n
                 /\ FromCpu(n, f) = {To("A", h), To("B", h)}
  <2> SUFFICES ASSUME g = "C"
               PROVE  /\ f.seq = NoTag /\ f.src = n /\ f.dest # n /\ h.dest # n
                      /\ FromCpu(n, f) = {To("A", h), To("B", h)}
    OBVIOUS
  <2>1. f \in UntaggedFrame /\ f.src = n
    BY DEF OnLine, Port
  <2>2. f.seq = NoTag /\ f.dest # n
    BY <2>1 DEF UntaggedFrame, ForAnother
  <2>3. h.dest = f.dest
    BY TaggingIsAll
  <2>4. h = Retag(f, createHSRTag(sequenceNum[n]))
    BY DEF AsTagged
  <2> QED
    BY <2>1, <2>2, <2>3, <2>4 DEF FromCpu, getNodeMode
<1>3. g # "C" => h = f /\ f \in TaggedFrame /\ f.seq # NoTag /\ f.dest # f.src
  <2> SUFFICES ASSUME g # "C"
               PROVE  h = f /\ f \in TaggedFrame
    BY TaggedFrameParts
  <2> QED
    BY DEF OnLine, AsTagged
<1>4. Opposite(g) # "C"
  BY DEF Opposite
<1>5. \A k : n \in RedBox => \A y \in forwardToInterlink(k) : y = To("I", k)
  BY DEF TagsAreKept, forwardToInterlink
<1> HIDE DEF n, g, f
<1>6. CASE n \notin RedBox /\ g = "C"
  BY <1>1, <1>2, <1>6 DEF PassedOn, EndNodeSwitch, n, g, f
<1>7. CASE n \notin RedBox /\ g # "C"
  <2>1. x \in FromRingPort(n, g, f)
    BY <1>7 DEF PassedOn, EndNodeSwitch, n, g, f
  <2>2. \/ x = To("C", f) /\ Mine(n, f)
        \/ x = To(Opposite(g), f) /\ f.dest # n
    BY <2>1 DEF FromRingPort
  <2> QED
    BY <1>1, <1>3, <1>4, <1>7, <2>2 DEF n, g
<1>8. CASE n \in RedBox /\ g = "C"
  <2>1. x \in FromCpu(n, f) \cup UNION {forwardToInterlink(y.frame) : y \in FromCpu(n, f)}
    <3>1. x \in RedBoxSwitch(n, g, f)
      BY <1>8 DEF PassedOn, n, g, f
    <3>2. RedBoxSwitch(n, g, f) = FromCpu(n, f) \cup
                                  UNION {forwardToInterlink(y.frame) : y \in FromCpu(n, f)}
      BY <1>2, <1>8 DEF RedBoxSwitch
    <3> QED
      BY <3>1, <3>2, Zenon
  <2>2. \A y \in FromCpu(n, f) : y.frame = h /\ y.port # "C"
    BY <1>1, <1>2, <1>8
  <2>3. x.frame = h /\ x.port # "C"
    BY <1>1, <1>5, <1>8, <2>1, <2>2
  <2>4. h.dest # n
    BY <1>2, <1>8
  <2> QED
    BY <2>3, <2>4 DEF n
<1>9. CASE n \in RedBox /\ g # "C"
  <2>1. CASE f.dest = n /\ f.src # n
    <3>1. x = To("C", f)
      BY <1>9, <2>1 DEF PassedOn, RedBoxSwitch, n, g, f
    <3> QED
      BY <1>1, <1>3, <1>9, <2>1, <3>1 DEF Mine, n, g
  <2>2. CASE ~ (f.dest = n /\ f.src # n)
    <3>1. f.dest # n
      BY <1>3, <1>9, <2>2
    <3>2. \/ x = To("C", f) /\ Mine(n, f)
          \/ x \in {To("A", f), To("B", f), To(Opposite(g), f)}
          \/ x \in forwardToInterlink(f)
      BY <1>9, <2>2 DEF PassedOn, RedBoxSwitch, n, g, f
    <3>3. x.frame = f /\ (x.port = "C" => Mine(n, f))
      BY <1>1, <1>4, <1>5, <1>9, <3>2
    <3> QED
      BY <1>3, <1>9, <3>1, <3>3 DEF n, g
  <2> QED
    BY <2>1, <2>2
<1> QED
  BY <1>6, <1>7, <1>8, <1>9

(* What the arrival of a frame changes: interfaces take its tagged copy,   *)
(* and if it is new to the processor's list the processor hears it.        *)
LEMMA FrameHandled ==
  ASSUME TagsAreKept, NetInv, NEW c \in BagToSet(line), handleMessage(c.node, c.gate, c.frame),
         NEW h, h = AsTagged(c.node, c.gate, c.frame)
  PROVE  /\ ~ thrown'
         /\ line' = line (-) SetToBag({c})
         /\ sequenceNum' = IF c.gate = "C" THEN [sequenceNum EXCEPT ![c.node] = @ + 1]
                           ELSE sequenceNum
         /\ mac' = [m \in Node |-> [p \in Port(m) |-> mac'[m][p]]]
         /\ \A m \in Node : \A p \in Port(m) :
              /\ InterfaceInv(mac'[m][p])
              /\ QueueOf(mac'[m][p]) \subseteq QueueOf(mac[m][p]) \cup {h}
              /\ mac'[m][p].transmitState # "TX_IDLE" => Connected(m, p)
         /\ \/ cpuList' = cpuList /\ recvList' = recvList
            \/ /\ c.gate # "C" /\ Mine(c.node, h) /\ checkFrame(cpuList[c.node], h) = "new"
               /\ cpuList' = [cpuList EXCEPT ![c.node] = addMessage(@, h)]
               /\ recvList' = recvList (+) SetToBag({[cpu |-> c.node, frame |-> Untagged(h)]})
         /\ UNCHANGED <<pending, messageCount, sendList, numFrames>>
<1> DEFINE n == c.node
           g == c.gate
           f == c.frame
           out     == PassedOn(n, g, f)
           Sent(p) == {x.frame : x \in {y \in out : y.port = p}}
           taken   == [p \in Port(n) |->
                         IF Sent(p) = {} \/ ~ Connected(n, p) THEN mac[n][p]
                         ELSE processFrameFromUpperLayer(mac[n][p], n, CHOOSE k \in Sent(p) : TRUE)]
           new     == {k \in Sent("C") : checkFrame(cpuList[n], k) = "new"}
<1>1. OnLine(c) /\ c = At(n, g, f) /\ n \in Node /\ "C" \notin Port(n)
  BY DEF NetInv, OnLine, Port
<1>2. /\ line' = line (-) SetToBag({c})
      /\ sequenceNum' =
           IF g = "C" /\ f.seq = NoTag THEN [sequenceNum EXCEPT ![n] = @ + 1] ELSE sequenceNum
      /\ mac' = [mac EXCEPT ![n] = taken]
      /\ cpuList' = IF new = {} THEN cpuList
                    ELSE [cpuList EXCEPT ![n] = addMessage(@, CHOOSE k \in new : TRUE)]
      /\ recvList' = recvList (+) SetToBag({[cpu |-> n, frame |-> Untagged(k)] : k \in new})
      /\ thrown' = \/ \E p \in Port(n) : taken[p].transmitState = "error"
                   \/ \E k \in Sent("C") : checkFrame(cpuList[n], k) = "error"
      /\ UNCHANGED <<pending, messageCount, sendList, numFrames>>
  BY <1>1, Zenon DEF handleMessage, Deliver, registerRECV, PassedOn
<1>3. /\ h \in TaggedFrame
      /\ g = "C" => f.seq = NoTag
  BY <1>1, TaggingIsAll DEF OnLine, UntaggedFrame
<1>4. \A x \in out : /\ x.frame = h
                     /\ x.port = "C" => g # "C" /\ Mine(n, h)
                     /\ x.port # "C" => h.dest # n
  BY <1>1, SwitchesPassOneFrame
<1> HIDE DEF n, g, f, out
<1>5. ASSUME NEW p, Sent(p) # {}
      PROVE  /\ Sent(p) = {h} /\ (CHOOSE k \in Sent(p) : TRUE) = h
             /\ p = "C" => g # "C" /\ Mine(n, h)
             /\ p # "C" => h.dest # n
  <2>1. PICK x \in out : x.port = p
    BY <1>5
  <2>2. Sent(p) = {h}
    BY <1>4, <1>5
  <2> QED
    BY <1>4, <2>1, <2>2
<1> HIDE DEF Sent
<1>6. /\ taken = [p \in Port(n) |-> taken[p]]
      /\ \A p \in Port(n) :
           IF Sent(p) = {} \/ ~ Connected(n, p) THEN taken[p] = mac[n][p]
           ELSE taken[p] = processFrameFromUpperLayer(mac[n][p], n, CHOOSE k \in Sent(p) : TRUE)
  OBVIOUS
<1> HIDE DEF taken
<1>7. ASSUME NEW p \in Port(n)
      PROVE  /\ InterfaceInv(taken[p])
             /\ QueueOf(taken[p]) \subseteq QueueOf(mac[n][p]) \cup {h}
             /\ taken[p].transmitState # "TX_IDLE" => Connected(n, p)
  <2>1. InterfaceInv(mac[n][p]) /\ (mac[n][p].transmitState # "TX_IDLE" => Connected(n, p))
    BY <1>1 DEF NetInv, MacInv
  <2>2. CASE Sent(p) = {} \/ ~ Connected(n, p)
    BY <1>6, <2>1, <2>2
  <2>3. CASE ~ (Sent(p) = {} \/ ~ Connected(n, p))
    <3>1. taken[p] = processFrameFromUpperLayer(mac[n][p], n, h) /\ h.dest # n
      BY <1>1, <1>5, <1>6, <2>3
    <3> QED
      BY <1>3, <2>1, <2>3, <3>1, SendingKeepsTheInterface
  <2> QED
    BY <2>2, <2>3
<1>8. /\ mac' = [m \in Node |-> [p \in Port(m) |-> mac'[m][p]]]
      /\ \A m \in Node : mac'[m] = IF m = n THEN taken ELSE mac[m]
  <2>1. mac = [m \in Node |-> [p \in Port(m) |-> mac[m][p]]]
    BY DEF NetInv, MacInv
  <2>2. mac' = [m \in Node |-> IF m = n THEN taken ELSE mac[m]]
    BY <1>2, <2>1
  <2>3. \A m \in Node : mac'[m] = [p \in Port(m) |-> mac'[m][p]]
    BY <1>6, <2>1, <2>2
  <2> QED
    BY <2>2, <2>3
<1>9. ASSUME NEW m \in Node, NEW p \in Port(m)
      PROVE  /\ InterfaceInv(mac'[m][p])
             /\ QueueOf(mac'[m][p]) \subseteq QueueOf(mac[m][p]) \cup {h}
             /\ mac'[m][p].transmitState # "TX_IDLE" => Connected(m, p)
  BY <1>7, <1>8 DEF NetInv, MacInv
<1>10. ~ thrown'
  <2>1. \A p \in Port(n) : taken[p].transmitState # "error"
    BY <1>7 DEF InterfaceInv
  <2>2. \A k \in Sent("C") : checkFrame(cpuList[n], k) # "error"
    BY <1>1, <1>3, <1>5, ListsDoNotThrow DEF NetInv
  <2> QED
    BY <1>2, <2>1, <2>2
<1>11. CASE new = {}
  <2>1. {[cpu |-> n, frame |-> Untagged(k)] : k \in new} = {}
    BY <1>11
  <2>2. recvList' = recvList
    BY <1>2, <2>1, EmptyBags DEF NetInv
  <2> QED
    BY <1>2, <1>3, <1>8, <1>9, <1>10, <1>11, <2>2 DEF n, g
<1>12. CASE new # {}
  <2>1. new \subseteq Sent("C") /\ \A k \in new : checkFrame(cpuList[n], k) = "new"
    OBVIOUS
  <2> HIDE DEF new
  <2>2. new = {h} /\ (CHOOSE k \in new : TRUE) = h /\ g # "C" /\ Mine(n, h)
    BY <1>5, <1>12, <2>1
  <2>3. /\ cpuList' = [cpuList EXCEPT ![n] = addMessage(@, h)]
        /\ recvList' = recvList (+) SetToBag({[cpu |-> n, frame |-> Untagged(h)]})
        /\ checkFrame(cpuList[n], h) = "new"
    <3>1. {[cpu |-> n, frame |-> Untagged(k)] : k \in new} = {[cpu |-> n, frame |-> Untagged(h)]}
      BY <2>2
    <3>2. cpuList' = [cpuList EXCEPT ![n] = addMessage(@, CHOOSE k \in new : TRUE)]
      BY <1>2, <1>12, Zenon
    <3>3. cpuList' = [cpuList EXCEPT ![n] = addMessage(@, h)]
      BY <2>2, <3>2
    <3>4. recvList' = recvList (+) SetToBag({[cpu |-> n, frame |-> Untagged(h)]})
      BY <1>2, <3>1, Zenon
    <3> QED
      BY <2>1, <2>2, <3>3, <3>4
  <2> QED
    BY <1>2, <1>3, <1>8, <1>9, <1>10, <2>2, <2>3 DEF n, g
<1> QED
  BY <1>11, <1>12

-----------------------------------------------------------------------------
(* NetInv is inductive. *)

(* The patterns are complete, make sense and start at time 0 or later:     *)
(* initialize does not throw.                                              *)
PatternsAreAccepted ==
  \A n \in Node, rootelement \in Configuration :
    \A m \in loadXMLFile(n, rootelement) :
      scheduleMessage(m.data) /\ ~ (m.data.startTime < 0)

LEMMA InterfaceParts ==
  ASSUME NEW i \in Interface
  PROVE  i[1] \in Node /\ i[2] \in Port(i[1]) /\ i = <<i[1], i[2]>> /\ i[2] # "C"
BY DEF Interface, Port

LEMMA InitNet ==
  ASSUME PatternsAreAccepted, Init
  PROVE  NetInv
<1>1. PICK rootelement \in Configuration :
        pending = UNION {loadXMLFile(n, rootelement) : n \in Node}
  BY DEF Init
<1>2. ASSUME NEW m \in pending
      PROVE  /\ m.cpu \in Node /\ m.data.destination \in Destination
             /\ m.data.destination # m.cpu
             /\ scheduleMessage(m.data) /\ ~ (m.data.startTime < 0)
  <2>1. PICK n \in Node : m \in loadXMLFile(n, rootelement)
    BY <1>1, <1>2
  <2>2. scheduleMessage(m.data) /\ ~ (m.data.startTime < 0)
    BY <2>1 DEF PatternsAreAccepted
  <2>3. m.cpu = n /\ m.data.destination # n
    BY <2>1 DEF loadXMLFile, cpuSelfMessage
  <2>4. m.data.destination \in Destination
    <3>1. <<n, rootelement>> \in Node \X Configuration
      BY <1>1
    <3>2. /\ <<n, rootelement>>[1] = n /\ <<n, rootelement>>[2] = rootelement
      OBVIOUS
    <3> QED
      BY <2>1, <3>1, <3>2 DEF Destination
  <2> QED
    BY <2>2, <2>3, <2>4
<1>3. ~ thrown
  BY <1>2 DEF Init
<1>4. ListInv(emptyList)
  BY DEF ListInv, emptyList
<1>5. InterfaceInv(initialize) /\ initialize.transmitState = "TX_IDLE"
  BY <1>4 DEF InterfaceInv, initialize
<1>6. MacInv
  <2>1. mac = [n \in Node |-> [p \in Port(n) |-> initialize]]
    BY DEF Init
  <2> QED
    BY <1>5, <2>1 DEF MacInv
<1>7. cpuList = [n \in Node |-> cpuList[n]] /\ \A n \in Node : ListInv(cpuList[n])
  BY <1>4 DEF Init
<1>8. messageCount \in Nat /\ sequenceNum \in [Node -> Nat]
  BY DEF Init
<1>9. IsABag(line) /\ IsABag(recvList) /\ BagToSet(line) = {}
  BY EmptyBags DEF Init
<1> QED
  BY <1>2, <1>3, <1>6, <1>7, <1>8, <1>9 DEF NetInv

(* A processor sends an untagged frame that is not for itself, numbered    *)
(* with the messageCount, or only its self message is gone.                *)
LEMMA FrameMade ==
  ASSUME NetInv, NEW m \in pending, NEW now, SelfMessage(m, now)
  PROVE  /\ pending' \subseteq pending
         /\ \/ UNCHANGED <<messageCount, sendList, line>>
            \/ \E f \in UntaggedFrame :
                 /\ f.counter = messageCount
                 /\ messageCount' = messageCount + 1
                 /\ sendList' = sendList \cup {f}
                 /\ line' = line (+) SetToBag({At(f.src, "C", f)})
                 /\ OnLine(At(f.src, "C", f))
         /\ UNCHANGED <<sequenceNum, mac, cpuList, recvList, numFrames, thrown>>
<1>1. /\ pending' \subseteq pending
      /\ UNCHANGED <<sequenceNum, mac, cpuList, recvList, numFrames, thrown>>
  BY DEF SelfMessage
<1>2. CASE ~ Sends(m.data, now)
  BY <1>1, <1>2 DEF SelfMessage
<1>3. CASE Sends(m.data, now)
  <2> DEFINE f == generateOnePacket(m.cpu, m.data)
  <2>1. /\ messageCount' = messageCount + 1
        /\ sendList' = sendList \cup {f}
        /\ line' = line (+) SetToBag({At(m.cpu, "C", f)})
    BY <1>3 DEF SelfMessage, registerSEND
  <2>2. f = [src |-> m.cpu, dest |-> m.data.destination,
             vlan |-> IF m.data.vlan # 0 THEN TRUE ELSE FALSE, seq |-> NoTag,
             counter |-> messageCount]
    BY DEF generateOnePacket, generateEthMessage, createETHTag, createVLANTag, vlanMessage,
           NoVlan, createDataMessage, dataMessage
  <2> HIDE DEF f
  <2>3. /\ m.cpu \in Node /\ m.data.destination \in Destination /\ m.data.destination # m.cpu
        /\ messageCount \in Nat
    BY DEF NetInv
  <2>4. f \in UntaggedFrame /\ f.counter = messageCount /\ f.src = m.cpu
    BY <2>2, <2>3 DEF UntaggedFrame, ForAnother
  <2>5. OnLine(At(f.src, "C", f))
    BY <2>3, <2>4 DEF OnLine, At
  <2> QED
    BY <1>1, <2>1, <2>4, <2>5
<1> QED
  BY <1>2, <1>3

(* At the end of a transmission the head of the queue is on the line to a  *)
(* ring port or interlink; after a gap the next frame may be started.      *)
LEMMA InterfaceSteps ==
  ASSUME NetInv, NEW i \in Interface, EndTx(i[1], i[2]) \/ EndIFG(i[1], i[2])
  PROVE  /\ ~ thrown'
         /\ mac' = [m \in Node |-> [p \in Port(m) |-> mac'[m][p]]]
         /\ \A m \in Node : \A p \in Port(m) :
              /\ InterfaceInv(mac'[m][p])
              /\ QueueOf(mac'[m][p]) \subseteq QueueOf(mac[m][p])
              /\ mac'[m][p].transmitState # "TX_IDLE" => Connected(m, p)
         /\ \/ line' = line
            \/ \E c : /\ OnLine(c) /\ c.gate # "C" /\ c.frame \in QueueOf(mac[i[1]][i[2]])
                      /\ line' = line (+) SetToBag({c})
         /\ UNCHANGED <<pending, messageCount, sequenceNum, cpuList, sendList, recvList, numFrames>>
<1> DEFINE n == i[1]
           p == i[2]
           old == mac[n][p]
<1>1. n \in Node /\ p \in Port(n) /\ i = <<n, p>>
  BY InterfaceParts
<1>2. InterfaceInv(old) /\ (old.transmitState # "TX_IDLE" => Connected(n, p))
  BY <1>1 DEF NetInv, MacInv
<1>3. UNCHANGED <<pending, messageCount, sequenceNum, cpuList, sendList, recvList, numFrames>>
  BY DEF EndTx, EndIFG
<1> HIDE DEF n, p
<1>4. ASSUME NEW r, mac' = [mac EXCEPT ![n][p] = r], InterfaceInv(r),
             QueueOf(r) \subseteq QueueOf(old), Connected(n, p)
      PROVE  /\ mac'[n][p] = r
             /\ mac' = [m \in Node |-> [q \in Port(m) |-> mac'[m][q]]]
             /\ \A m \in Node : \A q \in Port(m) :
                  /\ InterfaceInv(mac'[m][q])
                  /\ QueueOf(mac'[m][q]) \subseteq QueueOf(mac[m][q])
                  /\ mac'[m][q].transmitState # "TX_IDLE" => Connected(m, q)
  <2>1. mac = [m \in Node |-> [q \in Port(m) |-> mac[m][q]]]
    BY DEF NetInv, MacInv
  <2>2. /\ mac' = [m \in Node |-> [q \in Port(m) |-> mac'[m][q]]]
        /\ \A m \in Node : \A q \in Port(m) :
             mac'[m][q] = IF m = n /\ q = p THEN r ELSE mac[m][q]
    <3>1. mac' = [m \in Node |-> IF m = n THEN [mac[n] EXCEPT ![p] = r] ELSE mac[m]]
      BY <1>1, <1>4, <2>1
    <3>2. \A m \in Node : mac[m] = [q \in Port(m) |-> mac[m][q]]
      BY <2>1
    <3>3. [mac[n] EXCEPT ![p] = r] = [q \in Port(n) |-> IF q = p THEN r ELSE mac[n][q]]
      BY <1>1, <3>2
    <3>4. \A m \in Node : mac'[m] = IF m = n THEN [q \in Port(n) |-> IF q = p THEN r ELSE mac[n][q]]
                                   ELSE mac[m]
      BY <3>1, <3>3
    <3>5. \A m \in Node : mac'[m] = [q \in Port(m) |-> mac'[m][q]]
      BY <3>2, <3>4
    <3>6. mac' = [m \in Node |-> mac'[m]]
      BY <3>1
    <3> QED
      BY <3>2, <3>4, <3>5, <3>6
  <2> QED
    BY <1>1, <1>4, <2>2 DEF NetInv, MacInv
<1>5. CASE EndTx(n, p)
  <2> DEFINE peer == Peer[<<n, p>>]
             c == At(peer[1], peer[2], Head(old.txQueue))
  <2>1. /\ old.transmitState = "TRANSMITTING"
        /\ mac' = [mac EXCEPT ![n][p] = handleEndTxPeriod(old)]
        /\ line' = line (+) SetToBag({c})
        /\ thrown' = (mac'[n][p].transmitState = "error")
    BY <1>1, <1>5 DEF EndTx, NetInv, MacInv
  <2>2. /\ InterfaceInv(handleEndTxPeriod(old)) /\ QueueOf(handleEndTxPeriod(old)) \subseteq QueueOf(old)
        /\ Head(old.txQueue) \in QueueOf(old) /\ Head(old.txQueue) \in TaggedFrame
    BY <1>2, <2>1, EndOfTransmission
  <2>3. peer \in Interface
    BY <1>2, <2>1, EtherNetAssumption DEF Connected
  <2>4. OnLine(c) /\ c.gate # "C" /\ c.frame = Head(old.txQueue)
    BY <2>2, <2>3, InterfaceParts DEF OnLine, At
  <2>5. Connected(n, p)
    BY <1>2, <2>1
  <2> HIDE DEF c, old
  <2>6. ~ thrown'
    BY <1>4, <2>1, <2>2, <2>5 DEF InterfaceInv
  <2> QED
    BY <1>3, <1>4, <2>1, <2>2, <2>4, <2>5, <2>6 DEF n, p, old
<1>6. CASE EndIFG(n, p)
  <2>1. /\ old.transmitState = "WAIT_IFG"
        /\ mac' = [mac EXCEPT ![n][p] = handleEndIFGPeriod(old)]
        /\ line' = line
        /\ thrown' = (mac'[n][p].transmitState = "error")
    BY <1>1, <1>6 DEF EndIFG, NetInv, MacInv
  <2>2. InterfaceInv(handleEndIFGPeriod(old)) /\ QueueOf(handleEndIFGPeriod(old)) \subseteq QueueOf(old)
    BY <1>2, <2>1, EndOfGap
  <2>3. Connected(n, p)
    BY <1>2, <2>1
  <2> HIDE DEF old
  <2>4. ~ thrown'
    BY <1>4, <2>1, <2>2, <2>3 DEF InterfaceInv
  <2> QED
    BY <1>3, <1>4, <2>1, <2>2, <2>3, <2>4
<1> QED
  BY <1>5, <1>6 DEF n, p

LEMMA LineGrows ==
  ASSUME NetInv, NEW c, OnLine(c), line' = line (+) SetToBag({c})
  PROVE  IsABag(line') /\ \A d \in BagToSet(line') : OnLine(d)
<1>1. IsABag(line) /\ \A d \in BagToSet(line) : OnLine(d)
  BY DEF NetInv
<1>2. IsABag(line') /\ BagToSet(line') = BagToSet(line) \cup {c}
  BY <1>1, BagAddition
<1> QED
  BY <1>1, <1>2

LEMMA LineShrinks ==
  ASSUME NetInv, NEW c \in BagToSet(line), line' = line (-) SetToBag({c})
  PROVE  IsABag(line') /\ \A d \in BagToSet(line') : OnLine(d)
<1>1. IsABag(line) /\ \A d \in BagToSet(line) : OnLine(d)
  BY DEF NetInv
<1>2. IsABag(line') /\ BagToSet(line') \subseteq BagToSet(line)
  BY <1>1, BagRemoval
<1> QED
  BY <1>1, <1>2

LEMMA NextKeepsNet ==
  ASSUME TagsAreKept, NetInv, [Next]_vars
  PROVE  NetInv'
<1>1. ASSUME NEW m \in pending, NEW now, SelfMessage(m, now)
      PROVE  NetInv'
  <2>1. /\ pending' \subseteq pending
        /\ \/ UNCHANGED <<messageCount, sendList, line>>
           \/ \E f \in UntaggedFrame :
                /\ messageCount' = messageCount + 1
                /\ line' = line (+) SetToBag({At(f.src, "C", f)})
                /\ OnLine(At(f.src, "C", f))
        /\ UNCHANGED <<sequenceNum, mac, cpuList, recvList, thrown>>
    BY <1>1, FrameMade
  <2>2. /\ messageCount' \in Nat
        /\ IsABag(line') /\ \A c \in BagToSet(line') : OnLine(c)
    <3>1. messageCount \in Nat /\ IsABag(line) /\ \A c \in BagToSet(line) : OnLine(c)
      BY DEF NetInv
    <3>2. CASE UNCHANGED <<messageCount, sendList, line>>
      BY <3>1, <3>2
    <3>3. CASE \E f \in UntaggedFrame :
                 /\ messageCount' = messageCount + 1
                 /\ line' = line (+) SetToBag({At(f.src, "C", f)})
                 /\ OnLine(At(f.src, "C", f))
      <4>1. messageCount' = messageCount + 1
        BY <3>3
      <4>2. IsABag(line') /\ \A c \in BagToSet(line') : OnLine(c)
        BY <3>3, LineGrows
      <4> QED
        BY <3>1, <4>1, <4>2
    <3> QED
      BY <2>1, <3>2, <3>3
  <2> QED
    BY <2>1, <2>2 DEF NetInv, MacInv
<1>2. ASSUME NEW c \in BagToSet(line), handleMessage(c.node, c.gate, c.frame)
      PROVE  NetInv'
  <2> DEFINE n == c.node
             h == AsTagged(n, c.gate, c.frame)
  <2>1. n \in Node /\ OnLine(c)
    BY DEF NetInv, OnLine
  <2>2. h \in TaggedFrame
    BY <2>1, TaggingIsAll
  <2> HIDE DEF h
  <2>3. /\ ~ thrown'
        /\ line' = line (-) SetToBag({c})
        /\ sequenceNum' = IF c.gate = "C" THEN [sequenceNum EXCEPT ![n] = @ + 1] ELSE sequenceNum
        /\ mac' = [m \in Node |-> [p \in Port(m) |-> mac'[m][p]]]
        /\ \A m \in Node : \A p \in Port(m) :
             /\ InterfaceInv(mac'[m][p])
             /\ mac'[m][p].transmitState # "TX_IDLE" => Connected(m, p)
        /\ \/ cpuList' = cpuList /\ recvList' = recvList
           \/ /\ cpuList' = [cpuList EXCEPT ![n] = addMessage(@, h)]
              /\ recvList' = recvList (+) SetToBag({[cpu |-> n, frame |-> Untagged(h)]})
        /\ UNCHANGED <<pending, messageCount>>
    BY <1>2, FrameHandled DEF h
  <2>4. IsABag(line') /\ \A d \in BagToSet(line') : OnLine(d)
    BY <2>3, LineShrinks
  <2>5. IsABag(recvList')
    <3>1. IsABag(recvList)
      BY DEF NetInv
    <3> DEFINE r == [cpu |-> n, frame |-> Untagged(h)]
    <3>2. recvList' = recvList \/ recvList' = recvList (+) SetToBag({r})
      BY <2>3
    <3> HIDE DEF r
    <3>3. IsABag(recvList (+) SetToBag({r}))
      BY <3>1, BagAddition
    <3> QED
      BY <3>1, <3>2, <3>3
  <2>6. sequenceNum' \in [Node -> Nat]
    BY <2>1, <2>3 DEF NetInv
  <2>7. cpuList' = [m \in Node |-> cpuList'[m]] /\ \A m \in Node : ListInv(cpuList'[m])
    <3>1. /\ cpuList = [m \in Node |-> cpuList[m]]
          /\ \A m \in Node : ListInv(cpuList[m])
      BY DEF NetInv
    <3>2. ListInv(addMessage(cpuList[n], h))
      BY <2>1, <2>2, <3>1, AddingKeepsTheList
    <3>3. CASE cpuList' = cpuList
      BY <3>1, <3>3
    <3>4. CASE cpuList' = [cpuList EXCEPT ![n] = addMessage(@, h)]
      BY <2>1, <3>1, <3>2, <3>4
    <3> QED
      BY <2>3, <3>3, <3>4
  <2>8. MacInv'
    BY <2>3 DEF MacInv
  <2> QED
    BY <2>3, <2>4, <2>5, <2>6, <2>7, <2>8 DEF NetInv
<1>3. ASSUME NEW i \in Interface, EndTx(i[1], i[2]) \/ EndIFG(i[1], i[2])
      PROVE  NetInv'
  <2>1. /\ ~ thrown'
        /\ mac' = [m \in Node |-> [p \in Port(m) |-> mac'[m][p]]]
        /\ \A m \in Node : \A p \in Port(m) :
             /\ InterfaceInv(mac'[m][p])
             /\ mac'[m][p].transmitState # "TX_IDLE" => Connected(m, p)
        /\ line' = line \/ \E c : OnLine(c) /\ line' = line (+) SetToBag({c})
        /\ UNCHANGED <<pending, messageCount, sequenceNum, cpuList, recvList>>
    BY <1>3, InterfaceSteps
  <2>2. IsABag(line') /\ \A c \in BagToSet(line') : OnLine(c)
    <3>1. CASE line' = line
      BY <3>1 DEF NetInv
    <3>2. CASE \E c : OnLine(c) /\ line' = line (+) SetToBag({c})
      BY <3>2, LineGrows
    <3> QED
      BY <2>1, <3>1, <3>2
  <2>3. MacInv'
    BY <2>1 DEF MacInv
  <2> QED
    BY <2>1, <2>2, <2>3 DEF NetInv
<1>4. ASSUME NEW c \in BagToSet(line), BitError(c.node, c.gate, c.frame)
      PROVE  NetInv'
  <2>1. c = At(c.node, c.gate, c.frame)
    BY DEF NetInv, OnLine
  <2>2. line' = line (-) SetToBag({c})
    BY <1>4, <2>1 DEF BitError
  <2>3. IsABag(line') /\ \A d \in BagToSet(line') : OnLine(d)
    BY <2>2, LineShrinks
  <2> QED
    BY <1>4, <2>3 DEF BitError, NetInv, MacInv
<1>5. ASSUME finish
      PROVE  NetInv'
  BY <1>5 DEF finish, NetInv, MacInv
<1>6. ASSUME UNCHANGED vars
      PROVE  NetInv'
  BY <1>6 DEF vars, NetInv, MacInv
<1> QED
  BY <1>1, <1>2, <1>3, <1>4, <1>5, <1>6 DEF Next, Work

LEMMA NetIsInvariant ==
  ASSUME TagsAreKept, PatternsAreAccepted
  PROVE  Spec => []NetInv
<1>1. Init => NetInv
  BY InitNet
<1>2. NetInv /\ [Next]_vars => NetInv'
  BY NextKeepsNet
<1> QED
  BY <1>1, <1>2, PTL DEF Spec

(* The two errors of a duplicate list (ListenErkennung.cc 112 and 142) and *)
(* the three of an interface (ModifiedEtherMACBase.cc 321, 445 and 483)    *)
(* are never raised: in no network, for no configuration whose patterns    *)
(* are accepted, whatever the queues and lists hold, as long as no RedBox  *)
(* is in the mode REGULAR.                                                 *)
THEOREM NothingIsEverThrown ==
  ASSUME TagsAreKept, PatternsAreAccepted
  PROVE  Spec => []NothingIsThrown
<1>1. NetInv => NothingIsThrown
  BY DEF NetInv, NothingIsThrown
<1> QED
  BY <1>1, NetIsInvariant, PTL

-----------------------------------------------------------------------------
(* What a step is to the service.  Copies of a frame exist from the moment *)
(* its node's switch has tagged it, and wait on the line and in queues.    *)

FromCpus == {c \in BagToSet(line) : c.gate = "C"}

Copies == {c.frame : c \in BagToSet(line) \ FromCpus} \cup
          UNION {QueueOf(mac[i[1]][i[2]]) : i \in Interface}

(* A processor sends frame f. *)
Makes(f) ==
  /\ f \in UntaggedFrame /\ f.counter = messageCount
  /\ messageCount' = messageCount + 1
  /\ sendList' = sendList \cup {f}
  /\ Copies' = Copies
  /\ FromCpus' = FromCpus \cup {At(f.src, "C", f)}
  /\ line'[At(f.src, "C", f)] = IF At(f.src, "C", f) \in FromCpus THEN line[At(f.src, "C", f)] + 1
                                ELSE 1
  /\ \A c \in FromCpus : c # At(f.src, "C", f) => line'[c] = line[c]
  /\ UNCHANGED <<sequenceNum, cpuList, recvList>>

(* A switch tags a frame of its processor, which is h then. *)
Tags(c, h) ==
  /\ c \in FromCpus
  /\ h = AsTagged(c.node, c.gate, c.frame)
  /\ Copies' \subseteq Copies \cup {h}
  /\ FromCpus' = IF line[c] = 1 THEN FromCpus \ {c} ELSE FromCpus
  /\ \A d \in FromCpus : d # c => line'[d] = line[d]
  /\ sequenceNum' = [sequenceNum EXCEPT ![c.node] = @ + 1]
  /\ UNCHANGED <<messageCount, sendList, cpuList, recvList>>

(* Copies move, are multiplied or are gone. *)
Moves ==
  /\ Copies' \subseteq Copies
  /\ FromCpus' = FromCpus
  /\ \A c \in FromCpus : line'[c] = line[c]
  /\ UNCHANGED <<messageCount, sequenceNum, sendList>>

(* Processor n hears of frame h, which is for it and new to its list. *)
Hears(n, h) ==
  /\ Moves
  /\ n \in Node /\ h \in Copies /\ Mine(n, h)
  /\ checkFrame(cpuList[n], h) = "new"
  /\ cpuList' = [cpuList EXCEPT ![n] = addMessage(@, h)]
  /\ recvList' = recvList (+) SetToBag({[cpu |-> n, frame |-> Untagged(h)]})

LEMMA CopiesAreTagged ==
  ASSUME NetInv
  PROVE  /\ Copies \subseteq TaggedFrame
         /\ \A c \in FromCpus : /\ c = At(c.frame.src, "C", c.frame) /\ c.node = c.frame.src
                                /\ c.frame \in UntaggedFrame /\ OnLine(c)
<1>1. \A c \in BagToSet(line) : OnLine(c)
  BY DEF NetInv
<1>2. \A c \in BagToSet(line) \ FromCpus : c.frame \in TaggedFrame
  BY <1>1 DEF FromCpus, OnLine
<1>3. ASSUME NEW i \in Interface
      PROVE  QueueOf(mac[i[1]][i[2]]) \subseteq TaggedFrame
  <2>1. mac[i[1]][i[2]].txQueue \in Seq(TaggedFrame)
    BY InterfaceParts DEF NetInv, MacInv, InterfaceInv
  <2> QED
    BY <2>1 DEF QueueOf
<1>4. \A c \in FromCpus : /\ c = At(c.frame.src, "C", c.frame) /\ c.node = c.frame.src
                          /\ c.frame \in UntaggedFrame /\ OnLine(c)
  BY <1>1 DEF FromCpus, OnLine, Port
<1> QED
  BY <1>2, <1>3, <1>4 DEF Copies

(* Copies come from the line and the queues alone. *)
LEMMA CopiesAfter ==
  ASSUME NEW S,
         \A c \in BagToSet(line') : c.gate # "C" => c.frame \in S,
         \A n \in Node : \A p \in Port(n) : QueueOf(mac'[n][p]) \subseteq S
  PROVE  Copies' \subseteq S
<1>1. \A i \in Interface : QueueOf(mac'[i[1]][i[2]]) \subseteq S
  BY InterfaceParts
<1>2. Copies' = {c.frame : c \in BagToSet(line') \ FromCpus'} \cup
                UNION {QueueOf(mac'[i[1]][i[2]]) : i \in Interface}
  BY DEF Copies
<1>3. \A c \in BagToSet(line') \ FromCpus' : c.frame \in S
  BY DEF FromCpus
<1> QED
  BY <1>1, <1>2, <1>3

LEMMA CopiesBefore ==
  /\ \A c \in BagToSet(line) : c.gate # "C" => c.frame \in Copies
  /\ \A n \in Node : \A p \in Port(n) : QueueOf(mac[n][p]) \subseteq Copies
<1>1. ASSUME NEW n \in Node, NEW p \in Port(n)
      PROVE  QueueOf(mac[n][p]) \subseteq Copies
  <2>1. <<n, p>> \in Interface /\ <<n, p>>[1] = n /\ <<n, p>>[2] = p
    BY DEF Interface
  <2> QED
    BY <2>1 DEF Copies
<1>2. \A c \in BagToSet(line) : c.gate # "C" => c.frame \in Copies
  BY DEF Copies, FromCpus
<1> QED
  BY <1>1, <1>2

(* A copy that comes onto the line or is taken from it. *)
LEMMA OnlyCopiesMove ==
  ASSUME NetInv, NEW c, c.gate # "C",
         \/ line' = line
         \/ line' = line (+) SetToBag({c})
         \/ c \in BagToSet(line) /\ line' = line (-) SetToBag({c})
  PROVE  /\ FromCpus' = FromCpus /\ \A d \in FromCpus : line'[d] = line[d]
         /\ \A d \in BagToSet(line') : d \in BagToSet(line) \/ d = c
<1>1. IsABag(line) /\ FromCpus' = {d \in BagToSet(line') : d.gate = "C"}
  BY DEF NetInv, FromCpus
<1>2. CASE line' = line
  BY <1>1, <1>2 DEF FromCpus
<1>3. CASE line' = line (+) SetToBag({c})
  <2>1. BagToSet(line') = BagToSet(line) \cup {c}
    BY <1>1, <1>3, BagAddition
  <2>2. ASSUME NEW d \in BagToSet(line), d # c
        PROVE  line'[d] = line[d]
    BY <1>1, <1>3, <2>2, BagAddition
  <2> QED
    BY <1>1, <2>1, <2>2 DEF FromCpus
<1>4. CASE c \in BagToSet(line) /\ line' = line (-) SetToBag({c})
  <2>1. BagToSet(line') = IF line[c] = 1 THEN BagToSet(line) \ {c} ELSE BagToSet(line)
    BY <1>1, <1>4, BagRemoval
  <2>2. ASSUME NEW d \in BagToSet(line), d # c
        PROVE  line'[d] = line[d]
    BY <1>1, <1>4, <2>2, BagRemoval
  <2> QED
    BY <1>1, <2>1, <2>2 DEF FromCpus
<1> QED
  BY <1>2, <1>3, <1>4

LEMMA StepsOfTheNetwork ==
  ASSUME TagsAreKept, NetInv, [Next]_vars
  PROVE  \/ \E f : Makes(f)
         \/ \E c, h : Tags(c, h)
         \/ Moves /\ UNCHANGED <<cpuList, recvList>>
         \/ \E n, h : Hears(n, h)
<1>1. ASSUME NEW m \in pending, NEW now, SelfMessage(m, now)
      PROVE  (\E f : Makes(f)) \/ (Moves /\ UNCHANGED <<cpuList, recvList>>)
  <2>1. UNCHANGED <<sequenceNum, mac, cpuList, recvList>>
    BY <1>1, FrameMade
  <2>2. CASE UNCHANGED <<messageCount, sendList, line>>
    <3>1. Copies' = Copies /\ FromCpus' = FromCpus
      BY <2>1, <2>2 DEF Copies, FromCpus
    <3> QED
      BY <2>1, <2>2, <3>1 DEF Moves
  <2>3. ASSUME NEW f \in UntaggedFrame, f.counter = messageCount, messageCount' = messageCount + 1,
               sendList' = sendList \cup {f}, line' = line (+) SetToBag({At(f.src, "C", f)})
        PROVE  Makes(f)
    <3> DEFINE c == At(f.src, "C", f)
    <3>1. c.gate = "C" /\ IsABag(line)
      BY DEF At, NetInv
    <3> HIDE DEF c
    <3>2. line' = line (+) SetToBag({c})
      BY <2>3 DEF c
    <3>3. BagToSet(line') = BagToSet(line) \cup {c}
      BY <3>1, <3>2, BagAddition
    <3>4. line'[c] = IF c \in BagToSet(line) THEN line[c] + 1 ELSE 1
      BY <3>1, <3>2, BagAddition
    <3>5. ASSUME NEW d \in BagToSet(line), d # c
          PROVE  line'[d] = line[d]
      BY <3>1, <3>2, <3>5, BagAddition
    <3>6. FromCpus' = FromCpus \cup {c} /\ (c \in BagToSet(line) <=> c \in FromCpus)
      BY <3>1, <3>3 DEF FromCpus
    <3>7. BagToSet(line') \ FromCpus' = BagToSet(line) \ FromCpus
      BY <3>1, <3>3, <3>6 DEF FromCpus
    <3>8. Copies' = Copies
      BY <2>1, <3>7 DEF Copies
    <3>9. \A d \in FromCpus : d # c => line'[d] = line[d]
      BY <3>5 DEF FromCpus
    <3> QED
      BY <2>1, <2>3, <3>4, <3>6, <3>8, <3>9 DEF Makes, c
  <2> QED
    BY <1>1, <2>1, <2>2, <2>3, FrameMade
<1>2. ASSUME NEW c \in BagToSet(line), handleMessage(c.node, c.gate, c.frame)
      PROVE  \/ \E h : Tags(c, h)
             \/ Moves /\ UNCHANGED <<cpuList, recvList>>
             \/ \E n, h : Hears(n, h)
  <2> DEFINE n == c.node
             h == AsTagged(n, c.gate, c.frame)
  <2>1. n \in Node /\ OnLine(c) /\ IsABag(line)
    BY DEF NetInv, OnLine
  <2>2. c.gate # "C" => h = c.frame
    BY DEF AsTagged
  <2> HIDE DEF h
  <2>3. line' = line (-) SetToBag({c})
    BY <1>2, FrameHandled DEF h
  <2>4. sequenceNum' = IF c.gate = "C" THEN [sequenceNum EXCEPT ![n] = @ + 1] ELSE sequenceNum
    BY <1>2, FrameHandled DEF h
  <2>5. \A m \in Node : \A p \in Port(m) : QueueOf(mac'[m][p]) \subseteq QueueOf(mac[m][p]) \cup {h}
    BY <1>2, FrameHandled DEF h
  <2>6. \/ cpuList' = cpuList /\ recvList' = recvList
        \/ /\ c.gate # "C" /\ Mine(n, h) /\ checkFrame(cpuList[n], h) = "new"
           /\ cpuList' = [cpuList EXCEPT ![n] = addMessage(@, h)]
           /\ recvList' = recvList (+) SetToBag({[cpu |-> n, frame |-> Untagged(h)]})
    BY <1>2, FrameHandled DEF h
  <2>7. UNCHANGED <<messageCount, sendList>>
    BY <1>2, FrameHandled DEF h
  <2>8. BagToSet(line') = IF line[c] = 1 THEN BagToSet(line) \ {c} ELSE BagToSet(line)
    BY <2>1, <2>3, BagRemoval
  <2>9. ASSUME NEW d \in BagToSet(line), d # c
        PROVE  line'[d] = line[d]
    BY <2>1, <2>3, <2>9, BagRemoval
  <2>10. Copies' \subseteq Copies \cup {h}
    <3>1. \A d \in BagToSet(line') : d.gate # "C" => d.frame \in Copies \cup {h}
      BY <2>8, CopiesBefore
    <3>2. \A m \in Node : \A p \in Port(m) : QueueOf(mac'[m][p]) \subseteq Copies \cup {h}
      BY <2>5, CopiesBefore
    <3> QED
      BY <3>1, <3>2, CopiesAfter
  <2>11. CASE c.gate = "C"
    <3>1. c \in FromCpus
      BY <2>11 DEF FromCpus
    <3>2. FromCpus' = IF line[c] = 1 THEN FromCpus \ {c} ELSE FromCpus
      BY <2>8 DEF FromCpus
    <3>3. \A d \in FromCpus : d # c => line'[d] = line[d]
      BY <2>9 DEF FromCpus
    <3>4. cpuList' = cpuList /\ recvList' = recvList
      BY <2>6, <2>11
    <3>5. sequenceNum' = [sequenceNum EXCEPT ![c.node] = @ + 1]
      BY <2>4, <2>11
    <3> QED
      BY <2>7, <2>10, <3>1, <3>2, <3>3, <3>4, <3>5 DEF Tags, h
  <2>12. CASE c.gate # "C"
    <3>1. h \in Copies
      BY <2>2, <2>12, CopiesBefore
    <3>2. FromCpus' = FromCpus /\ \A d \in FromCpus : line'[d] = line[d]
      BY <2>3, <2>12, OnlyCopiesMove
    <3>3. Copies' \subseteq Copies
      BY <2>10, <3>1
    <3>4. Moves
      BY <2>4, <2>7, <2>12, <3>2, <3>3 DEF Moves
    <3> QED
      BY <2>1, <2>6, <3>1, <3>4 DEF Hears
  <2> QED
    BY <2>11, <2>12
<1>3. ASSUME NEW i \in Interface, EndTx(i[1], i[2]) \/ EndIFG(i[1], i[2])
      PROVE  Moves /\ UNCHANGED <<cpuList, recvList>>
  <2>1. UNCHANGED <<messageCount, sequenceNum, sendList, cpuList, recvList>>
    BY <1>3, InterfaceSteps
  <2>2. \A m \in Node : \A p \in Port(m) : QueueOf(mac'[m][p]) \subseteq Copies
    <3>1. \A m \in Node : \A p \in Port(m) : QueueOf(mac'[m][p]) \subseteq QueueOf(mac[m][p])
      BY <1>3, InterfaceSteps
    <3> QED
      BY <3>1, CopiesBefore
  <2>3. \/ line' = line
        \/ \E c : /\ c.gate # "C" /\ c.frame \in QueueOf(mac[i[1]][i[2]])
                  /\ line' = line (+) SetToBag({c})
    BY <1>3, InterfaceSteps
  <2>4. PICK c : /\ c.gate # "C"
                 /\ c.frame \in Copies \/ line' = line
                 /\ line' = line \/ line' = line (+) SetToBag({c})
    <3>1. CASE line' = line
      <4>1. At(0, "A", 0).gate # "C"
        BY DEF At
      <4> QED
        BY <3>1, <4>1
    <3>2. CASE line' # line
      <4>1. QueueOf(mac[i[1]][i[2]]) \subseteq Copies
        BY CopiesBefore, InterfaceParts
      <4> QED
        BY <2>3, <3>2, <4>1
    <3> QED
      BY <3>1, <3>2
  <2>5. /\ FromCpus' = FromCpus /\ \A d \in FromCpus : line'[d] = line[d]
        /\ \A d \in BagToSet(line') : d \in BagToSet(line) \/ d = c
    BY <2>4, OnlyCopiesMove
  <2>6. \A d \in BagToSet(line') : d.gate # "C" => d.frame \in Copies
    BY <2>4, <2>5, CopiesBefore
  <2> QED
    BY <2>1, <2>2, <2>5, <2>6, CopiesAfter DEF Moves
<1>4. ASSUME NEW c \in BagToSet(line), BitError(c.node, c.gate, c.frame)
      PROVE  Moves /\ UNCHANGED <<cpuList, recvList>>
  <2>1. c = At(c.node, c.gate, c.frame)
    BY DEF NetInv, OnLine
  <2>2. /\ c.gate # "C" /\ line' = line (-) SetToBag({c})
        /\ UNCHANGED <<messageCount, sequenceNum, sendList, mac, cpuList, recvList>>
    BY <1>4, <2>1 DEF BitError
  <2>3. /\ FromCpus' = FromCpus /\ \A d \in FromCpus : line'[d] = line[d]
        /\ \A d \in BagToSet(line') : d \in BagToSet(line) \/ d = c
    BY <2>2, OnlyCopiesMove
  <2>4. \A d \in BagToSet(line') : d.gate # "C" => d.frame \in Copies
    BY <2>3, CopiesBefore
  <2>5. Copies' \subseteq Copies
    BY <2>2, <2>4, CopiesBefore, CopiesAfter
  <2> QED
    BY <2>2, <2>3, <2>5 DEF Moves
<1>5. ASSUME finish \/ UNCHANGED vars
      PROVE  Moves /\ UNCHANGED <<cpuList, recvList>>
  <2>1. UNCHANGED <<line, mac, messageCount, sequenceNum, sendList, cpuList, recvList>>
    BY <1>5 DEF finish, vars
  <2>2. Copies' = Copies /\ FromCpus' = FromCpus
    BY <2>1 DEF Copies, FromCpus
  <2> QED
    BY <2>1, <2>2 DEF Moves
<1> QED
  BY <1>1, <1>2, <1>3, <1>4, <1>5 DEF Next, Work

-----------------------------------------------------------------------------
(* ServiceInv: who has heard what. *)

HeardAt(n) == {r.frame.counter : r \in {r \in BagToSet(recvList) : r.cpu = n}}

(* The counter identifies a frame, and a processor's frame reaches the     *)
(* switch once.                                                            *)
SentInv ==
  /\ \A f \in sendList : f \in UntaggedFrame /\ f.counter < messageCount
  /\ \A f, g \in sendList : f.counter = g.counter => f = g
  /\ \A c \in FromCpus : c.frame \in sendList /\ line[c] = 1

(* All copies of a frame have one tag. *)
CopiesInv ==
  /\ \A h \in Copies : Untagged(h) \in sendList /\ h.seq < sequenceNum[h.src]
  /\ \A h, k \in Copies : h.counter = k.counter => h = k
  /\ \A c \in FromCpus, h \in Copies : h.counter # c.frame.counter

(* What was heard has its copies listed, and nothing else is listed. *)
HeardInv ==
  /\ \A r \in BagToSet(recvList) : r.cpu \in Node /\ r.frame \in sendList /\ recvList[r] = 1
  /\ \A c \in FromCpus, n \in Node : c.frame.counter \notin HeardAt(n)
  /\ \A n \in Node, h \in Copies :
       h.counter \in HeardAt(n) =>
         \E i \in DOMAIN cpuList[n].entries : cpuList[n].entries[i] = ListItemData(h)
  /\ \A n \in Node : Len(cpuList[n].entries) = Cardinality(HeardAt(n))

ServiceInv == NetInv /\ SentInv /\ CopiesInv /\ HeardInv

(* No more frames were sent than a processor's list holds, and no node has *)
(* used up the positive half of the sequence numbers.                      *)
FewFrames ==
  /\ messageCount <= ListSize
  /\ \A n \in Node : 2 * sequenceNum[n] <= SeqModulus

LEMMA HeardCounters ==
  ASSUME ServiceInv, NEW n \in Node
  PROVE  /\ HeardAt(n) \subseteq 0 .. messageCount - 1
         /\ IsFiniteSet(HeardAt(n))
<1>1. messageCount \in Nat
  BY DEF ServiceInv, NetInv
<1>2. \A f \in sendList : f.counter \in 0 .. messageCount - 1
  BY <1>1 DEF ServiceInv, SentInv, UntaggedFrame, ForAnother
<1>3. HeardAt(n) \subseteq 0 .. messageCount - 1
  BY <1>2 DEF HeardAt, ServiceInv, HeardInv
<1>4. IsFiniteSet(0 .. messageCount - 1)
  BY <1>1, FS_Interval
<1> QED
  BY <1>3, <1>4, FS_Subset

(* As long as there are few frames, a copy that the list takes for new is  *)
(* one of a frame not heard yet, and the list forgets nothing to hold it.  *)
LEMMA NewIsNew ==
  ASSUME ServiceInv, FewFrames, NEW n \in Node, NEW h \in Copies, checkFrame(cpuList[n], h) = "new"
  PROVE  /\ h.counter \notin HeardAt(n)
         /\ Len(cpuList[n].entries) < ListSize
<1>1. h \in TaggedFrame /\ h.src \in Node /\ h.seq \in Nat
  BY CopiesAreTagged, TaggedFrameParts DEF ServiceInv
<1>2. ListInv(cpuList[n]) /\ sequenceNum[h.src] \in Nat
  BY <1>1 DEF ServiceInv, NetInv
<1>3. asShort(h.seq) = asUnsigned(h.seq)
  <2>1. h.seq < sequenceNum[h.src] /\ 2 * sequenceNum[h.src] <= SeqModulus
    BY <1>1 DEF ServiceInv, CopiesInv, FewFrames
  <2>2. 2 * h.seq < SeqModulus /\ SeqModulus \in Nat \ {0}
    BY <1>1, <1>2, <2>1, EtherMacAssumption
  <2>3. h.seq % SeqModulus = h.seq
    BY <1>1, <2>2
  <2> QED
    BY <2>2, <2>3 DEF asShort, asUnsigned
<1>4. ~ searchMessage(cpuList[n], h)
  BY <1>1, <1>2, ListsDoNotThrow
<1>5. \A i \in DOMAIN cpuList[n].entries : cpuList[n].entries[i] # ListItemData(h)
  BY <1>1, <1>3, <1>4, TaggedFrameParts DEF searchMessage
<1>6. h.counter \notin HeardAt(n)
  BY <1>5 DEF ServiceInv, HeardInv
<1>7. Untagged(h) \in sendList /\ Untagged(h).counter = h.counter
  BY DEF ServiceInv, CopiesInv, Untagged, Retag, decapsulateMessage, generateEthMessage,
         createETHTag, createDataMessage, dataMessage
<1>8. messageCount \in Nat /\ h.counter \in 0 .. messageCount - 1
  BY <1>7 DEF ServiceInv, NetInv, SentInv, UntaggedFrame, ForAnother
<1>9. Cardinality(HeardAt(n) \cup {h.counter}) = Cardinality(HeardAt(n)) + 1
  BY <1>6, HeardCounters, FS_AddElement
<1>10. Cardinality(HeardAt(n) \cup {h.counter}) <= messageCount
  <2>1. HeardAt(n) \cup {h.counter} \in SUBSET (0 .. messageCount - 1)
    BY <1>8, HeardCounters
  <2>2. /\ IsFiniteSet(0 .. messageCount - 1)
        /\ Cardinality(0 .. messageCount - 1) = messageCount
    BY <1>8, FS_Interval
  <2> QED
    BY <2>1, <2>2, FS_Subset
<1>11. Cardinality(HeardAt(n)) \in Nat /\ Len(cpuList[n].entries) = Cardinality(HeardAt(n))
  BY HeardCounters, FS_CardinalityType DEF ServiceInv, HeardInv
<1>12. messageCount <= ListSize /\ ListSize \in Nat
  BY EtherMacAssumption DEF FewFrames
<1>13. Len(cpuList[n].entries) < ListSize
  BY <1>8, <1>9, <1>10, <1>11, <1>12
<1> QED
  BY <1>6, <1>13

LEMMA InitService ==
  ASSUME PatternsAreAccepted, Init
  PROVE  ServiceInv
<1>1. NetInv
  BY InitNet
<1>2. BagToSet(line) = {} /\ BagToSet(recvList) = {} /\ sendList = {}
  BY EmptyBags DEF Init
<1>3. FromCpus = {}
  BY <1>2 DEF FromCpus
<1>4. Copies = {}
  <2>1. \A i \in Interface : QueueOf(mac[i[1]][i[2]]) = {}
    BY InterfaceParts DEF Init, initialize, QueueOf
  <2> QED
    BY <1>2, <2>1 DEF Copies
<1>5. \A n \in Node : HeardAt(n) = {} /\ Len(cpuList[n].entries) = 0
  BY <1>2 DEF HeardAt, Init, emptyList
<1>6. Cardinality({}) = 0
  BY FS_EmptySet
<1> QED
  BY <1>1, <1>2, <1>3, <1>4, <1>5, <1>6 DEF ServiceInv, SentInv, CopiesInv, HeardInv

LEMMA MakingKeepsService ==
  ASSUME ServiceInv, NEW f, Makes(f)
  PROVE  SentInv' /\ CopiesInv' /\ HeardInv' /\ f \notin sendList
<1> DEFINE c == At(f.src, "C", f)
<1>1. messageCount \in Nat /\ f \in UntaggedFrame /\ f.counter = messageCount
  BY DEF Makes, ServiceInv, NetInv
<1>2. \A g \in sendList : g.counter \in Nat /\ g.counter < messageCount
  BY DEF ServiceInv, SentInv, UntaggedFrame, ForAnother
<1>3. f \notin sendList /\ c \notin FromCpus /\ c.frame = f
  <2>1. f \notin sendList
    BY <1>1, <1>2
  <2> QED
    BY <2>1 DEF ServiceInv, SentInv, At
<1>4. /\ messageCount' = messageCount + 1 /\ sendList' = sendList \cup {f}
      /\ Copies' = Copies /\ FromCpus' = FromCpus \cup {c}
      /\ line'[c] = 1 /\ \A d \in FromCpus : line'[d] = line[d]
      /\ UNCHANGED <<sequenceNum, cpuList, recvList>>
  BY <1>3 DEF Makes
<1> HIDE DEF c
<1>5. SentInv'
  <2>1. \A g \in sendList' : g \in UntaggedFrame /\ g.counter < messageCount'
    BY <1>1, <1>2, <1>4 DEF ServiceInv, SentInv
  <2>2. \A g, k \in sendList' : g.counter = k.counter => g = k
    BY <1>1, <1>2, <1>4 DEF ServiceInv, SentInv
  <2>3. \A d \in FromCpus' : d.frame \in sendList' /\ line'[d] = 1
    BY <1>3, <1>4 DEF ServiceInv, SentInv
  <2> QED
    BY <2>1, <2>2, <2>3 DEF SentInv
<1>6. \A h \in Copies : h.counter < messageCount /\ h.counter \in Nat
  BY <1>2 DEF ServiceInv, CopiesInv, Untagged, Retag, decapsulateMessage, generateEthMessage,
              createETHTag, createDataMessage, dataMessage
<1>7. CopiesInv'
  <2>1. \A d \in FromCpus', h \in Copies : h.counter # d.frame.counter
    BY <1>1, <1>3, <1>4, <1>6 DEF ServiceInv, CopiesInv
  <2> QED
    BY <1>4, <2>1 DEF ServiceInv, CopiesInv
<1>8. HeardInv'
  <2>1. \A n \in Node : HeardAt(n)' = HeardAt(n)
    BY <1>4 DEF HeardAt
  <2>2. \A n \in Node : messageCount \notin HeardAt(n)
    <3>1. \A x \in 0 .. messageCount - 1 : x # messageCount
      BY <1>1
    <3> QED
      BY <3>1, HeardCounters
  <2>3. \A d \in FromCpus', n \in Node : d.frame.counter \notin HeardAt(n)
    BY <1>1, <1>3, <1>4, <2>2 DEF ServiceInv, HeardInv
  <2> QED
    BY <1>4, <2>1, <2>3 DEF ServiceInv, HeardInv
<1> QED
  BY <1>3, <1>5, <1>7, <1>8

LEMMA TaggingKeepsService ==
  ASSUME ServiceInv, NEW c, NEW h, Tags(c, h)
  PROVE  SentInv' /\ CopiesInv' /\ HeardInv'
<1> DEFINE n == c.node
<1>1. /\ c \in FromCpus /\ OnLine(c) /\ n \in Node /\ c.gate = "C" /\ n = c.frame.src
      /\ c = At(c.frame.src, "C", c.frame)
  BY CopiesAreTagged DEF ServiceInv, Tags, OnLine, FromCpus
<1>2. /\ h \in TaggedFrame /\ h.src = n /\ h.counter = c.frame.counter
      /\ Untagged(h) = c.frame /\ h.seq = sequenceNum[n]
  BY <1>1, TaggingIsAll DEF ServiceInv, Tags
<1>3. line[c] = 1 /\ c.frame \in sendList
  BY <1>1 DEF ServiceInv, SentInv
<1>4. /\ Copies' \subseteq Copies \cup {h} /\ FromCpus' = FromCpus \ {c}
      /\ \A d \in FromCpus' : line'[d] = line[d]
      /\ sequenceNum' = [sequenceNum EXCEPT ![n] = @ + 1]
      /\ UNCHANGED <<messageCount, sendList, cpuList, recvList>>
  BY <1>3 DEF Tags
<1>5. SentInv'
  BY <1>4 DEF ServiceInv, SentInv
<1>6. \A m \in Node : sequenceNum[m] \in Nat /\ sequenceNum'[m] = IF m = n THEN sequenceNum[m] + 1
                                                              ELSE sequenceNum[m]
  BY <1>1, <1>4 DEF ServiceInv, NetInv
<1>7. \A k \in Copies : k.src \in Node /\ k.seq \in Nat /\ k.counter # h.counter
  BY <1>1, <1>2, CopiesAreTagged, TaggedFrameParts DEF ServiceInv, CopiesInv
<1>8. CopiesInv'
  <2>1. \A k \in Copies' : Untagged(k) \in sendList' /\ k.seq < sequenceNum'[k.src]
    <3>1. \A k \in Copies : k.seq < sequenceNum'[k.src]
      BY <1>6, <1>7 DEF ServiceInv, CopiesInv
    <3>2. h.seq < sequenceNum'[h.src]
      BY <1>1, <1>2, <1>6
    <3> QED
      BY <1>2, <1>3, <1>4, <3>1, <3>2 DEF ServiceInv, CopiesInv
  <2>2. \A k, l \in Copies' : k.counter = l.counter => k = l
    BY <1>4, <1>7 DEF ServiceInv, CopiesInv
  <2>3. ASSUME NEW d \in FromCpus', NEW k \in Copies'
        PROVE  k.counter # d.frame.counter
    <3>1. d \in FromCpus /\ d # c
      BY <1>4
    <3>2. k \in Copies => k.counter # d.frame.counter
      BY <3>1 DEF ServiceInv, CopiesInv
    <3>3. d.frame # c.frame
      BY <1>1, <3>1, CopiesAreTagged DEF ServiceInv
    <3>4. d.frame.counter # c.frame.counter
      BY <1>3, <3>1, <3>3 DEF ServiceInv, SentInv
    <3> QED
      BY <1>2, <1>4, <3>2, <3>4
  <2> QED
    BY <2>1, <2>2, <2>3 DEF CopiesInv
<1>9. HeardInv'
  <2>1. \A m \in Node : HeardAt(m)' = HeardAt(m)
    BY <1>4 DEF HeardAt
  <2>2. \A m \in Node : h.counter \notin HeardAt(m)
    BY <1>1, <1>2 DEF ServiceInv, HeardInv
  <2> QED
    BY <1>4, <2>1, <2>2 DEF ServiceInv, HeardInv
<1> QED
  BY <1>5, <1>8, <1>9

LEMMA MovingKeepsService ==
  ASSUME ServiceInv, Moves
  PROVE  /\ SentInv' /\ CopiesInv'
         /\ UNCHANGED <<cpuList, recvList>> => HeardInv'
<1>1. /\ Copies' \subseteq Copies /\ FromCpus' = FromCpus
      /\ \A c \in FromCpus : line'[c] = line[c]
      /\ UNCHANGED <<messageCount, sequenceNum, sendList>>
  BY DEF Moves
<1>2. SentInv'
  BY <1>1 DEF ServiceInv, SentInv
<1>3. CopiesInv'
  BY <1>1 DEF ServiceInv, CopiesInv
<1>4. ASSUME UNCHANGED <<cpuList, recvList>>
      PROVE  HeardInv'
  <2>1. \A m \in Node : HeardAt(m)' = HeardAt(m)
    BY <1>4 DEF HeardAt
  <2> QED
    BY <1>1, <1>4, <2>1 DEF ServiceInv, HeardInv
<1> QED
  BY <1>2, <1>3, <1>4

LEMMA HearingKeepsService ==
  ASSUME ServiceInv, FewFrames, NEW n, NEW h, Hears(n, h)
  PROVE  /\ HeardInv'
         /\ Untagged(h) \in sendList /\ n \in Audience(Untagged(h))
         /\ [cpu |-> n, frame |-> Untagged(h)] \notin BagToSet(recvList)
<1> DEFINE r == [cpu |-> n, frame |-> Untagged(h)]
           s == cpuList[n].entries
           t == addMessage(cpuList[n], h).entries
<1>1. /\ Moves /\ n \in Node /\ h \in Copies /\ Mine(n, h)
      /\ checkFrame(cpuList[n], h) = "new"
      /\ cpuList' = [cpuList EXCEPT ![n] = addMessage(@, h)]
      /\ recvList' = recvList (+) SetToBag({r})
  BY DEF Hears
<1>2. h.counter \notin HeardAt(n) /\ Len(s) < ListSize
  BY <1>1, NewIsNew
<1>3. h \in TaggedFrame /\ Untagged(h) \in sendList
  BY <1>1, CopiesAreTagged DEF ServiceInv, CopiesInv
<1>4. r.cpu = n /\ r.frame = Untagged(h) /\ r.frame.counter = h.counter
  BY DEF Untagged, Retag, decapsulateMessage, generateEthMessage, createETHTag, createDataMessage,
         dataMessage
<1>5. n \in Audience(Untagged(h))
  <2>1. Untagged(h).src = h.src /\ Untagged(h).dest = h.dest
    BY DEF Untagged, Retag, decapsulateMessage, generateEthMessage, createETHTag,
           createDataMessage, dataMessage
  <2> QED
    BY <1>1, <2>1 DEF Audience, Mine
<1>6. r \notin BagToSet(recvList)
  BY <1>2, <1>4 DEF HeardAt
<1> HIDE DEF r, s, t
<1>7. /\ Copies' \subseteq Copies /\ FromCpus' = FromCpus
      /\ sendList' = sendList
  BY <1>1 DEF Moves
<1>8. /\ BagToSet(recvList') = BagToSet(recvList) \cup {r}
      /\ \A q \in BagToSet(recvList') : recvList'[q] = IF q = r THEN 1 ELSE recvList[q]
  <2>1. IsABag(recvList)
    BY DEF ServiceInv, NetInv
  <2>2. BagToSet(recvList') = BagToSet(recvList) \cup {r}
    BY <1>1, <2>1, BagAddition
  <2>3. recvList'[r] = 1
    BY <1>1, <1>6, <2>1, BagAddition
  <2>4. ASSUME NEW q \in BagToSet(recvList), q # r
        PROVE  recvList'[q] = recvList[q]
    BY <1>1, <2>1, <2>4, BagAddition
  <2> QED
    BY <1>6, <2>2, <2>3, <2>4
<1>9. \A m \in Node : HeardAt(m)' = IF m = n THEN HeardAt(n) \cup {h.counter} ELSE HeardAt(m)
  <2>1. \A m \in Node : HeardAt(m)' = {q.frame.counter : q \in {q \in BagToSet(recvList') : q.cpu = m}}
    BY DEF HeardAt
  <2>2. {q.frame.counter : q \in {q \in BagToSet(recvList') : q.cpu = n}} = HeardAt(n) \cup {h.counter}
    BY <1>4, <1>8 DEF HeardAt
  <2>3. \A m \in Node : m # n =>
          {q.frame.counter : q \in {q \in BagToSet(recvList') : q.cpu = m}} = HeardAt(m)
    BY <1>4, <1>8 DEF HeardAt
  <2> QED
    BY <2>1, <2>2, <2>3
<1>10. /\ Len(t) = Len(s) + 1 /\ t[1] = ListItemData(h) /\ \A i \in DOMAIN s : t[i + 1] = s[i]
       /\ s \in Seq(Item) /\ t \in Seq(Item)
  <2>1. ListInv(cpuList[n])
    BY <1>1 DEF ServiceInv, NetInv
  <2> QED
    BY <1>2, <1>3, <2>1, AddingKeepsTheList DEF s, t, ListInv
<1>11. \A m \in Node : cpuList'[m].entries = IF m = n THEN t ELSE cpuList[m].entries
  BY <1>1 DEF ServiceInv, NetInv, t
<1>12. ASSUME NEW m \in Node, NEW k \in Copies', k.counter \in HeardAt(m)'
       PROVE  \E i \in DOMAIN cpuList'[m].entries : cpuList'[m].entries[i] = ListItemData(k)
  <2>1. k \in Copies
    BY <1>7
  <2>2. CASE m # n
    BY <1>9, <1>11, <1>12, <2>1, <2>2 DEF ServiceInv, HeardInv
  <2>3. CASE m = n /\ k.counter = h.counter
    <3>1. k = h
      BY <1>1, <2>1, <2>3 DEF ServiceInv, CopiesInv
    <3>2. 1 \in DOMAIN t
      BY <1>10
    <3> QED
      BY <1>10, <1>11, <2>3, <3>1, <3>2
  <2>4. CASE m = n /\ k.counter # h.counter
    <3>1. k.counter \in HeardAt(n)
      BY <1>9, <1>12, <2>4
    <3>2. PICK i \in DOMAIN s : s[i] = ListItemData(k)
      BY <1>1, <2>1, <3>1 DEF ServiceInv, HeardInv, s
    <3>3. i + 1 \in DOMAIN t /\ t[i + 1] = s[i]
      BY <1>10
    <3> QED
      BY <1>11, <2>4, <3>2, <3>3
  <2> QED
    BY <2>2, <2>3, <2>4
<1>13. ASSUME NEW m \in Node
       PROVE  Len(cpuList'[m].entries) = Cardinality(HeardAt(m)')
  <2>1. \A l \in Node : Len(cpuList[l].entries) = Cardinality(HeardAt(l))
    BY DEF ServiceInv, HeardInv
  <2>2. CASE m # n
    BY <1>9, <1>11, <2>1, <2>2
  <2>3. CASE m = n
    <3>1. Cardinality(HeardAt(n) \cup {h.counter}) = Cardinality(HeardAt(n)) + 1
      BY <1>1, <1>2, HeardCounters, FS_AddElement
    <3>2. Len(s) = Cardinality(HeardAt(n))
      BY <1>1, <2>1 DEF s
    <3> QED
      BY <1>9, <1>10, <1>11, <2>3, <3>1, <3>2
  <2> QED
    BY <2>2, <2>3
<1>14. \A q \in BagToSet(recvList') : q.cpu \in Node /\ q.frame \in sendList' /\ recvList'[q] = 1
  BY <1>1, <1>3, <1>4, <1>7, <1>8 DEF ServiceInv, HeardInv
<1>15. \A c \in FromCpus', m \in Node : c.frame.counter \notin HeardAt(m)'
  BY <1>1, <1>7, <1>9 DEF ServiceInv, HeardInv, CopiesInv
<1>16. HeardInv'
  BY <1>12, <1>13, <1>14, <1>15 DEF HeardInv
<1> QED
  BY <1>3, <1>5, <1>6, <1>16 DEF r

LEMMA NextKeepsService ==
  ASSUME TagsAreKept, ServiceInv, FewFrames, [Next]_vars
  PROVE  ServiceInv'
<1>1. NetInv'
  BY NextKeepsNet DEF ServiceInv
<1>2. CASE \E f : Makes(f)
  BY <1>1, <1>2, MakingKeepsService DEF ServiceInv
<1>3. CASE \E c, h : Tags(c, h)
  BY <1>1, <1>3, TaggingKeepsService DEF ServiceInv
<1>4. CASE Moves /\ UNCHANGED <<cpuList, recvList>>
  BY <1>1, <1>4, MovingKeepsService DEF ServiceInv
<1>5. CASE \E n, h : Hears(n, h)
  <2>1. PICK n, h : Hears(n, h)
    BY <1>5
  <2>2. HeardInv'
    BY <2>1, HearingKeepsService
  <2>3. SentInv' /\ CopiesInv'
    BY <2>1, MovingKeepsService DEF Hears
  <2> QED
    BY <1>1, <2>2, <2>3 DEF ServiceInv
<1> QED
  BY <1>2, <1>3, <1>4, <1>5, StepsOfTheNetwork DEF ServiceInv

LEMMA ServiceIsInvariant ==
  ASSUME TagsAreKept, PatternsAreAccepted
  PROVE  Spec /\ []FewFrames => []ServiceInv
<1>1. Init => ServiceInv
  BY InitService
<1>2. ServiceInv /\ FewFrames /\ [Next]_vars => ServiceInv'
  BY NextKeepsService
<1> QED
  BY <1>1, <1>2, PTL DEF Spec

LEMMA StepsOfTheService ==
  ASSUME TagsAreKept, ServiceInv, FewFrames, [Next]_vars
  PROVE  [Service!Next]_(Service!vars)
<1>1. ASSUME NEW f, Makes(f)
      PROVE  Service!Next
  <2>1. f \notin sendList /\ sendList' = sendList \cup {f} /\ recvList' = recvList
    BY <1>1, MakingKeepsService DEF Makes
  <2>2. Service!Send(f) /\ f \in sendList'
    BY <2>1 DEF Service!Send
  <2> QED
    BY <2>2 DEF Service!Next
<1>2. ASSUME NEW c, NEW h, Tags(c, h)
      PROVE  UNCHANGED Service!vars
  BY <1>2 DEF Tags, Service!vars
<1>3. ASSUME Moves, UNCHANGED <<cpuList, recvList>>
      PROVE  UNCHANGED Service!vars
  BY <1>3 DEF Moves, Service!vars
<1>4. ASSUME NEW n, NEW h, Hears(n, h)
      PROVE  Service!Next
  <2>1. /\ Untagged(h) \in sendList /\ n \in Audience(Untagged(h))
        /\ [cpu |-> n, frame |-> Untagged(h)] \notin BagToSet(recvList)
    BY <1>4, HearingKeepsService
  <2>2. /\ n \in Node /\ sendList' = sendList
        /\ recvList' = recvList (+) SetToBag({[cpu |-> n, frame |-> Untagged(h)]})
    BY <1>4 DEF Hears, Moves
  <2>3. Service!Hear(n, Untagged(h))
    BY <2>1, <2>2 DEF Service!Hear, BagIn, BagToSet, SetToBag, (+),
       Service!BagIn, Service!BagToSet, Service!SetToBag, Service!(+)
  <2> QED
    BY <2>1, <2>2, <2>3 DEF Service!Next
<1> QED
  BY <1>1, <1>2, <1>3, <1>4, StepsOfTheNetwork DEF ServiceInv

(* A processor hears only frames that were sent and are for it, and each   *)
(* of them once, although a RedBox or end node sends on everything it sees *)
(* until a list stops it, and however copies are lost or overtake each     *)
(* other: in every network, as long as a processor's duplicate list        *)
(* (ListenErkennung.cc 98-151) need not forget a frame, and no number is   *)
(* negative when it is compared.                                           *)
THEOREM ProcessorsHearOnce ==
  ASSUME TagsAreKept, PatternsAreAccepted
  PROVE  Spec /\ []FewFrames => ImplementsService
<1>1. Init => Service!Init
  BY DEF Init, EmptyBag, SetToBag, Service!Init, Service!EmptyBag, Service!SetToBag
<1>2. ServiceInv /\ FewFrames /\ [Next]_vars => [Service!Next]_(Service!vars)
  BY StepsOfTheService
<1> QED
  BY <1>1, <1>2, ServiceIsInvariant, PTL DEF Spec, ImplementsService, Service!Spec

(* No processor hears a frame twice. *)
THEOREM NoFrameIsHeardTwice ==
  ASSUME TagsAreKept, PatternsAreAccepted
  PROVE  Spec /\ []FewFrames => []HeardOnce
<1>1. ServiceInv => HeardOnce
  BY DEF ServiceInv, HeardInv, HeardOnce
<1> QED
  BY <1>1, ServiceIsInvariant, PTL

-----------------------------------------------------------------------------
(* One lost copy is masked.                                                *)
(*                                                                         *)
(* On one ring of end nodes, as Prozessbus.ned and hsrnetz4.ned wire it, a *)
(* frame goes round both ways.  The frames that have left their processors *)
(* are D below, and T says which tag each has; L holds the ways a copy was *)
(* lost on.                                                                *)

(* As many tags as a list holds, and no two frames have the same. *)
Numbering(D, T) ==
  /\ D \subseteq UntaggedFrame
  /\ IsFiniteSet(D) /\ Cardinality(D) <= ListSize
  /\ T \in [D -> Item]
  /\ \A f, g \in D : T[f] = T[g] => f = g

(* A copy of a frame in D, whose number is positive as a short. *)
CopyOf(D, T, h) ==
  /\ h \in TaggedFrame
  /\ Untagged(h) \in D
  /\ ListItemData(h) = T[Untagged(h)]
  /\ asShort(h.seq) = asUnsigned(h.seq)

Lists(list, x) == \E i \in DOMAIN list.entries : list.entries[i] = x

Queues(m, f) == \E h \in QueueOf(m) : Untagged(h) = f

Sending(m, f) == m.transmitState = "TRANSMITTING" /\ Untagged(Head(m.txQueue)) = f

(* The list of an interface holds the tags of frames in D, each once. *)
ListOf(D, T, list) ==
  /\ \A i \in DOMAIN list.entries : \E f \in D : list.entries[i] = T[f]
  /\ \A i, j \in DOMAIN list.entries : list.entries[i] = list.entries[j] => i = j

(* An interface sleeps on no queue, and lists what it sends. *)
InterfaceOf(D, T, m) ==
  /\ ListOf(D, T, m.list)
  /\ \A h \in QueueOf(m) : CopyOf(D, T, h)
  /\ m.transmitState = "TX_IDLE" => m.txQueue = <<>>
  /\ \A f \in D : Sending(m, f) => Lists(m.list, T[f])

Has(T, m, f) == Queues(m, f) \/ Lists(m.list, T[f])

(* From m to r nothing is forgotten, and what is listed anew is being sent. *)
Keeps(D, T, m, r) ==
  /\ \A y : Lists(m.list, y) => Lists(r.list, y)
  /\ \A f \in D : Has(T, m, f) => Has(T, r, f)
  /\ \A f \in D : Lists(r.list, T[f]) => Lists(m.list, T[f]) \/ Sending(r, f)

(* A copy that leaves node n at port p goes that way all around. *)
Way == {"A", "B"}

RingOf(N) ==
  /\ N >= 2 /\ Node = 0 .. N - 1
  /\ DOMAIN Peer = Node \X Way
  /\ \A n \in Node : /\ Peer[<<n, "A">>] = <<IF n = N - 1 THEN 0 ELSE n + 1, "B">>
                     /\ Peer[<<n, "B">>] = <<IF n = 0 THEN N - 1 ELSE n - 1, "A">>

(* Port A of each node is wired to port B of the next. *)
OneRing == RedBox = {} /\ \E N \in Nat : RingOf(N)

Beyond(n, p) == Peer[<<n, p>>][1]

(* The frames sent whose processor's switch has tagged them. *)
OnRing == sendList \ {c.frame : c \in FromCpus}

Heard(f, n) == [cpu |-> n, frame |-> f] \in BagToSet(recvList)

OnTheLine(f, n, p) ==
  \E c \in BagToSet(line) : c.node = n /\ c.gate = Opposite(p) /\ Untagged(c.frame) = f

(* Node n has heard f if it is for n, and else given it to the next port. *)
Passed(T, f, n, p) ==
  /\ n \in Audience(f) => Heard(f, n)
  /\ n # f.dest /\ n # f.src => Has(T, mac[n][p], f)

TagInv(T) ==
  /\ Numbering(OnRing, T)
  /\ \A f \in OnRing : T[f].source = f.src /\ T[f].sequencenumber < sequenceNum[f.src]
  /\ \A c \in BagToSet(line) : c.gate # "C" => CopyOf(OnRing, T, c.frame)
  /\ \A n \in Node, p \in Way : InterfaceOf(OnRing, T, mac[n][p])
  /\ \A n \in Node : \A i \in DOMAIN cpuList[n].entries :
       \E f \in OnRing : cpuList[n].entries[i] = T[f] /\ Heard(f, n)

LostInv(L) == lost \in Nat /\ IsFiniteSet(L) /\ Cardinality(L) <= lost

(* The copy each way: unless it was lost, it gets to the first port, and   *)
(* from a port that has begun to send it on to the next.                   *)
WayInv(T, L) ==
  \A f \in OnRing, p \in Way : <<f, p>> \notin L =>
    /\ Has(T, mac[f.src][p], f)
    /\ \A n \in Node : Lists(mac[n][p].list, T[f]) =>
         \/ Sending(mac[n][p], f)
         \/ OnTheLine(f, Beyond(n, p), p)
         \/ Passed(T, f, Beyond(n, p), p)

LossInv ==
  ServiceInv /\ \E T, L : TagInv(T) /\ LostInv(L) /\ WayInv(T, L)
-----------------------------------------------------------------------------
(* The duplicate list of a port. *)

(* A list without the tag of one of the few frames is not full. *)
LEMMA ListIsNotFull ==
  ASSUME NEW D, NEW T, Numbering(D, T), NEW list, list.entries \in Seq(Item),
         ListOf(D, T, list), NEW f \in D, ~ Lists(list, T[f])
  PROVE  Len(list.entries) < ListSize
<1> DEFINE s == list.entries
           g == [i \in 1 .. Len(s) |-> CHOOSE x \in D : s[i] = T[x]]
<1>1. s \in Seq(Item) /\ Len(s) \in Nat /\ DOMAIN s = 1 .. Len(s)
  OBVIOUS
<1>2. \A i \in 1 .. Len(s) : \E x \in D : s[i] = T[x]
  BY <1>1 DEF ListOf
<1>3. \A i, j \in 1 .. Len(s) : s[i] = s[j] => i = j
  BY <1>1 DEF ListOf
<1>4. \A i \in 1 .. Len(s) : s[i] # T[f]
  BY <1>1 DEF Lists
<1>5. IsFiniteSet(D) /\ Cardinality(D) <= ListSize
  BY DEF Numbering
<1> HIDE DEF s
<1>6. \A i \in 1 .. Len(s) : g[i] \in D /\ s[i] = T[g[i]]
  BY <1>2
<1> HIDE DEF g
<1>7. g \in Injection(1 .. Len(s), D \ {f})
  <2>1. \A i \in 1 .. Len(s) : g[i] \in D \ {f}
    BY <1>4, <1>6
  <2>2. g = [i \in 1 .. Len(s) |-> g[i]]
    BY DEF g
  <2>3. g \in [1 .. Len(s) -> D \ {f}]
    BY <2>1, <2>2
  <2>4. \A i, j \in 1 .. Len(s) : g[i] = g[j] => i = j
    BY <1>3, <1>6
  <2> QED
    BY <2>3, <2>4 DEF Injection, IsInjective
<1>8. IsFiniteSet(D \ {f}) /\ Cardinality(D \ {f}) = Cardinality(D) - 1
  BY <1>5, FS_RemoveElement
<1>9. Cardinality(1 .. Len(s)) <= Cardinality(D \ {f})
  BY <1>7, <1>8, FS_Injection
<1>10. Cardinality(1 .. Len(s)) = Len(s)
  <2>1. 1 \in Int /\ Len(s) \in Int
    BY <1>1
  <2>2. Cardinality(1 .. Len(s)) = IF 1 > Len(s) THEN 0 ELSE Len(s) - 1 + 1
    BY <2>1, FS_Interval, Zenon
  <2> QED
    BY <1>1, <2>2
<1>11. Cardinality(D) \in Nat /\ ListSize \in Nat
  BY <1>5, FS_CardinalityType, EtherMacAssumption
<1>12. Len(s) < ListSize
  BY <1>1, <1>5, <1>8, <1>9, <1>10, <1>11
<1> QED
  BY <1>12 DEF s

(* A copy is known to a list exactly if the list holds its tag. *)
LEMMA KnownIsListed ==
  ASSUME NEW D, NEW T, NEW h, CopyOf(D, T, h), NEW list, ListInv(list)
  PROVE  /\ checkFrame(list, h) = "new" => ~ Lists(list, T[Untagged(h)])
         /\ checkFrame(list, h) # "new" => Lists(list, T[Untagged(h)])
<1> DEFINE x == ListItemData(h)
<1>1. /\ h \in TaggedFrame /\ x = T[Untagged(h)] /\ asShort(h.seq) = asUnsigned(h.seq)
      /\ x.source = h.src /\ x.sequencenumber = asUnsigned(h.seq) /\ x \in Item
  BY TaggedFrameParts DEF CopyOf
<1>2. checkFrame(list, h) # "new" => searchMessage(list, h)
  BY <1>1, TaggedFrameParts DEF checkFrame, limitCheck
<1>3. checkFrame(list, h) = "new" => ~ searchMessage(list, h)
  BY <1>1, ListsDoNotThrow
<1> HIDE DEF x
<1>4. Lists(list, x) <=> searchMessage(list, h)
  <2>1. ASSUME NEW i \in DOMAIN list.entries, list.entries[i].source = h.src,
               list.entries[i].sequencenumber = asShort(h.seq)
        PROVE  list.entries[i] = x
    <3>1. list.entries[i] \in Item
      BY DEF ListInv
    <3> QED
      BY <1>1, <2>1, <3>1 DEF Item
  <2> QED
    BY <1>1, <2>1 DEF Lists, searchMessage
<1> QED
  BY <1>1, <1>2, <1>3, <1>4

LEMMA NewIsListed ==
  ASSUME NEW D, NEW T, Numbering(D, T), NEW h, CopyOf(D, T, h), NEW list, ListInv(list),
         ListOf(D, T, list), checkFrame(list, h) = "new"
  PROVE  /\ ListOf(D, T, addMessage(list, h))
         /\ \A y : Lists(addMessage(list, h), y) <=> Lists(list, y) \/ y = T[Untagged(h)]
<1> DEFINE x == T[Untagged(h)]
           s == list.entries
           t == addMessage(list, h).entries
<1>1. h \in TaggedFrame /\ Untagged(h) \in D /\ ListItemData(h) = x
  BY DEF CopyOf
<1>2. ~ Lists(list, x)
  BY KnownIsListed
<1>3. s \in Seq(Item)
  BY DEF ListInv
<1>4. Len(s) < ListSize
  BY <1>1, <1>2, <1>3, ListIsNotFull
<1>5. /\ Len(t) = Len(s) + 1 /\ t[1] = x /\ \A i \in DOMAIN s : t[i + 1] = s[i]
      /\ t \in Seq(Item)
  BY <1>1, <1>4, AddingKeepsTheList DEF ListInv
<1>6. /\ \A i \in DOMAIN s : \E f \in D : s[i] = T[f]
      /\ \A i, j \in DOMAIN s : s[i] = s[j] => i = j
      /\ \A i \in DOMAIN s : s[i] # x
  BY <1>2 DEF ListOf, Lists
<1> HIDE DEF s, t
<1>7. /\ 1 \in DOMAIN t
      /\ \A i \in DOMAIN s : i + 1 \in DOMAIN t /\ t[i + 1] = s[i]
      /\ \A i \in DOMAIN t : i = 1 \/ (i - 1 \in DOMAIN s /\ t[i] = s[i - 1])
  BY <1>3, <1>5
<1>8. \A i \in DOMAIN t : \E f \in D : t[i] = T[f]
  BY <1>1, <1>5, <1>6, <1>7
<1>9. ASSUME NEW i \in DOMAIN t, NEW j \in DOMAIN t, t[i] = t[j]
      PROVE  i = j
  <2>1. i \in Nat /\ j \in Nat
    BY <1>5
  <2> QED
    BY <1>5, <1>6, <1>7, <1>9, <2>1
<1>10. ASSUME NEW y
       PROVE  (\E i \in DOMAIN t : t[i] = y) <=> (\E i \in DOMAIN s : s[i] = y) \/ y = x
  BY <1>5, <1>7
<1> QED
  BY <1>8, <1>9, <1>10 DEF ListOf, Lists, s, t

-----------------------------------------------------------------------------
(* The interface: nothing it has is forgotten. *)

(* What is dropped is known, what is left at the head is not. *)
LEMMA OnlyDuplicatesAreDropped ==
  ASSUME NEW q \in Seq(TaggedFrame), NEW list
  PROVE  /\ AfterDuplicates(q, list) # <<>> =>
              checkFrame(list, Head(AfterDuplicates(q, list))) # "duplicate"
         /\ \A i \in DOMAIN q :
              \/ checkFrame(list, q[i]) = "duplicate"
              \/ \E j \in DOMAIN AfterDuplicates(q, list) : AfterDuplicates(q, list)[j] = q[i]
<1> DEFINE fresh == {i \in DOMAIN q : checkFrame(list, q[i]) # "duplicate"}
           first == CHOOSE i \in fresh : \A j \in fresh : i <= j
<1>1. CASE fresh = {}
  BY <1>1 DEF AfterDuplicates
<1>2. CASE fresh # {}
  <2>1. AfterDuplicates(q, list) = SubSeq(q, first, Len(q))
    BY <1>2 DEF AfterDuplicates
  <2>2. fresh \subseteq DOMAIN q /\ DOMAIN q = 1 .. Len(q) /\ Len(q) \in Nat
    OBVIOUS
  <2>3. \A i \in DOMAIN q : i \in fresh \/ checkFrame(list, q[i]) = "duplicate"
    OBVIOUS
  <2>4. \A i \in fresh : checkFrame(list, q[i]) # "duplicate"
    OBVIOUS
  <2> HIDE DEF fresh
  <2>5. \E i \in fresh : \A j \in fresh : i <= j
    BY <1>2, <2>2, LeastElement
  <2>6. first \in fresh /\ \A j \in fresh : first <= j
    BY <2>5
  <2> HIDE DEF first
  <2>7. first \in 1 .. Len(q) /\ first \in Int /\ Len(q) \in Int
    BY <2>2, <2>6
  <2>8. \A i \in first .. Len(q) : q[i] \in TaggedFrame
    BY <2>7
  <2> DEFINE r == SubSeq(q, first, Len(q))
  <2>9. /\ r \in Seq(TaggedFrame)
        /\ Len(r) = Len(q) - first + 1
        /\ \A i \in 1 .. Len(q) - first + 1 : r[i] = q[first + i - 1]
    BY <2>7, <2>8, SubSeqProperties
  <2> HIDE DEF r
  <2>10. Head(r) = q[first]
    <3>1. r # <<>> /\ 1 \in 1 .. Len(q) - first + 1
      BY <2>7, <2>9
    <3>2. r[1] = q[first + 1 - 1] /\ first + 1 - 1 = first
      BY <2>7, <2>9, <3>1
    <3> QED
      BY <2>9, <3>1, <3>2
  <2>11. ASSUME NEW i \in fresh
         PROVE  \E j \in DOMAIN r : r[j] = q[i]
    <3>1. i \in 1 .. Len(q) /\ first <= i
      BY <2>2, <2>6
    <3>2. i - first + 1 \in 1 .. Len(q) - first + 1 /\ first + (i - first + 1) - 1 = i
      BY <2>7, <3>1
    <3>3. r[i - first + 1] = q[i] /\ i - first + 1 \in DOMAIN r
      BY <2>9, <3>2
    <3> QED
      BY <3>3
  <2> QED
    BY <2>1, <2>3, <2>4, <2>6, <2>10, <2>11 DEF r
<1> QED
  BY <1>1, <1>2

LEMMA StartingForgetsNothing ==
  ASSUME NEW D, NEW T, Numbering(D, T), NEW m, m.txQueue \in Seq(TaggedFrame), ListInv(m.list),
         ListOf(D, T, m.list), \A h \in QueueOf(m) : CopyOf(D, T, h),
         NEW r, r = startFrameTransmission(m)
  PROVE  InterfaceOf(D, T, r) /\ Keeps(D, T, m, r)
<1> DEFINE q == AfterDuplicates(m.txQueue, m.list)
<1>1. /\ q \in Seq(TaggedFrame)
      /\ \A i \in DOMAIN q : \E j \in DOMAIN m.txQueue : q[i] = m.txQueue[j]
  BY DroppingDuplicates
<1>2. /\ q # <<>> => checkFrame(m.list, Head(q)) # "duplicate"
      /\ \A i \in DOMAIN m.txQueue :
           \/ checkFrame(m.list, m.txQueue[i]) = "duplicate"
           \/ \E j \in DOMAIN q : q[j] = m.txQueue[i]
  <2> DEFINE u == m.txQueue
             l == m.list
  <2>1. u \in Seq(TaggedFrame)
    OBVIOUS
  <2> HIDE DEF u, l
  <2>2. /\ AfterDuplicates(u, l) # <<>> => checkFrame(l, Head(AfterDuplicates(u, l))) # "duplicate"
        /\ \A i \in DOMAIN u :
             \/ checkFrame(l, u[i]) = "duplicate"
             \/ \E j \in DOMAIN AfterDuplicates(u, l) : AfterDuplicates(u, l)[j] = u[i]
    BY <2>1, OnlyDuplicatesAreDropped
  <2> QED
    BY <2>2 DEF u, l
<1>3. r = SendHead(q, m.list)
  BY DEF startFrameTransmission
<1> HIDE DEF q
<1>4. \A h \in QueueOf(m) : (\E j \in DOMAIN q : q[j] = h) \/ Lists(m.list, T[Untagged(h)])
  BY <1>2, KnownIsListed DEF QueueOf
<1>5. \A i \in DOMAIN q : CopyOf(D, T, q[i])
  BY <1>1 DEF QueueOf
<1>6. CASE q = <<>>
  <2>1. r.txQueue = q /\ r.transmitState = "TX_IDLE" /\ r.list = m.list
    BY <1>3, <1>6 DEF SendHead
  <2>2. DOMAIN q = {} /\ QueueOf(r) = {}
    BY <1>6, <2>1 DEF QueueOf
  <2>3. InterfaceOf(D, T, r)
    BY <1>6, <2>1, <2>2 DEF InterfaceOf, Sending
  <2>4. \A f \in D : Has(T, m, f) => Has(T, r, f)
    BY <1>4, <2>1, <2>2 DEF Has, Queues
  <2> QED
    BY <2>1, <2>3, <2>4 DEF Keeps
<1>7. CASE q # <<>>
  <2> DEFINE k == Head(q)
  <2>1. k = q[1] /\ 1 \in DOMAIN q /\ k \in TaggedFrame
    BY <1>1, <1>7
  <2> HIDE DEF k
  <2>2. CopyOf(D, T, k)
    BY <1>5, <2>1
  <2>3. checkFrame(m.list, k) = "new"
    BY <1>2, <1>7, <2>1, ListsDoNotThrow DEF k
  <2>4. /\ r.txQueue = q /\ r.transmitState = "TRANSMITTING"
        /\ r.list = addMessage(m.list, k)
    BY <1>3, <1>7, <2>3 DEF SendHead, k
  <2>5. /\ ListOf(D, T, r.list)
        /\ \A y : Lists(r.list, y) <=> Lists(m.list, y) \/ y = T[Untagged(k)]
    BY <2>2, <2>3, <2>4, NewIsListed
  <2>6. \A f : Sending(r, f) <=> f = Untagged(k)
    BY <2>4 DEF Sending, k
  <2>7. QueueOf(r) = {q[i] : i \in DOMAIN q}
    BY <2>4 DEF QueueOf
  <2>8. InterfaceOf(D, T, r)
    BY <1>5, <2>4, <2>5, <2>6, <2>7 DEF InterfaceOf
  <2>9. \A f \in D : Has(T, m, f) => Has(T, r, f)
    BY <1>4, <2>5, <2>7 DEF Has, Queues
  <2>10. \A f \in D : T[f] = T[Untagged(k)] => f = Untagged(k)
    BY <2>2 DEF Numbering, CopyOf
  <2> QED
    BY <2>5, <2>6, <2>8, <2>9, <2>10 DEF Keeps
<1> QED
  BY <1>6, <1>7

LEMMA SendingForgetsNothing ==
  ASSUME NEW D, NEW T, Numbering(D, T), NEW m, InterfaceInv(m), InterfaceOf(D, T, m),
         NEW n, NEW h, CopyOf(D, T, h), h.dest # n, ~ QueueFull(m),
         NEW r, r = processFrameFromUpperLayer(m, n, h)
  PROVE  /\ InterfaceOf(D, T, r) /\ Keeps(D, T, m, r)
         /\ Has(T, r, Untagged(h))
         /\ \A f \in D : Sending(m, f) => Sending(r, f)
<1> DEFINE q == Append(m.txQueue, h)
           longer == [m EXCEPT !.txQueue = Append(@, h)]
<1>1. /\ h \in TaggedFrame /\ Untagged(h) \in D
      /\ m.txQueue \in Seq(TaggedFrame) /\ ListInv(m.list)
      /\ m.transmitState # "TX_IDLE" => m.txQueue # <<>>
      /\ m.txQueue = <<>> => m.transmitState = "TX_IDLE"
      /\ ListOf(D, T, m.list)
  BY DEF CopyOf, InterfaceInv, InterfaceOf
<1>2. /\ q \in Seq(TaggedFrame) /\ q # <<>>
      /\ \A i \in DOMAIN q : q[i] = h \/ \E j \in DOMAIN m.txQueue : q[i] = m.txQueue[j]
      /\ \A j \in DOMAIN m.txQueue : j \in DOMAIN q /\ q[j] = m.txQueue[j]
      /\ Len(q) \in DOMAIN q /\ q[Len(q)] = h
      /\ m.txQueue # <<>> => Head(q) = Head(m.txQueue)
  <2>1. q \in Seq(TaggedFrame) /\ q # <<>> /\ Len(q) = Len(m.txQueue) + 1
    BY <1>1
  <2>2. \A j \in 1 .. Len(m.txQueue) : q[j] = m.txQueue[j]
    BY <1>1
  <2>3. q[Len(m.txQueue) + 1] = h
    BY <1>1
  <2>4. \A i \in 1 .. Len(q) : i = Len(m.txQueue) + 1 \/ i \in 1 .. Len(m.txQueue)
    BY <1>1, <2>1
  <2>5. m.txQueue # <<>> => Head(q) = Head(m.txQueue)
    BY <1>1, <2>1, <2>2
  <2> QED
    BY <1>1, <2>1, <2>2, <2>3, <2>4, <2>5
<1>3. longer = [txQueue |-> q, transmitState |-> m.transmitState, list |-> m.list]
  BY DEF InterfaceInv
<1>4. IF m.transmitState = "TX_IDLE" THEN r = startFrameTransmission(longer) ELSE r = longer
  BY DEF processFrameFromUpperLayer
<1> HIDE DEF longer, q
<1>5. longer.txQueue = q /\ longer.transmitState = m.transmitState /\ longer.list = m.list
  BY <1>3
<1>6. QueueOf(longer) = QueueOf(m) \cup {h}
  BY <1>2, <1>5 DEF QueueOf
<1>7. \A k \in QueueOf(longer) : CopyOf(D, T, k)
  BY <1>6 DEF InterfaceOf
<1>8. /\ \A f \in D : Has(T, m, f) => Has(T, longer, f)
      /\ Has(T, longer, Untagged(h))
  BY <1>5, <1>6 DEF Has, Queues
<1>9. CASE m.transmitState = "TX_IDLE"
  <2>1. \A f : ~ Sending(m, f)
    BY <1>9 DEF Sending
  <2>2. r = startFrameTransmission(longer)
    BY <1>4, <1>9
  <2>3. longer.txQueue \in Seq(TaggedFrame) /\ ListInv(longer.list) /\ ListOf(D, T, longer.list)
    BY <1>1, <1>2, <1>5
  <2>4. InterfaceOf(D, T, r) /\ Keeps(D, T, longer, r)
    BY <1>7, <2>2, <2>3, StartingForgetsNothing
  <2> QED
    BY <1>1, <1>5, <1>8, <2>1, <2>4 DEF Keeps
<1>10. CASE m.transmitState # "TX_IDLE"
  <2>1. r = longer
    BY <1>4, <1>10
  <2>2. \A f : Sending(m, f) <=> Sending(r, f)
    BY <1>1, <1>2, <1>5, <1>10, <2>1 DEF Sending
  <2>3. InterfaceOf(D, T, r)
    BY <1>5, <1>7, <1>10, <2>1, <2>2 DEF InterfaceOf
  <2> QED
    BY <1>5, <1>8, <2>1, <2>2, <2>3 DEF Keeps
<1> QED
  BY <1>9, <1>10

LEMMA EndingForgetsNothing ==
  ASSUME NEW D, NEW T, NEW m, InterfaceInv(m), InterfaceOf(D, T, m),
         m.transmitState = "TRANSMITTING", NEW r, r = handleEndTxPeriod(m)
  PROVE  /\ InterfaceOf(D, T, r) /\ Keeps(D, T, m, r)
         /\ r.list = m.list
         /\ CopyOf(D, T, Head(m.txQueue))
<1> DEFINE q == m.txQueue
           shorter == [m EXCEPT !.txQueue = Tail(@)]
<1>1. q \in Seq(TaggedFrame) /\ q # <<>>
  BY DEF InterfaceInv
<1>2. /\ Tail(q) \in Seq(TaggedFrame)
      /\ \A i \in DOMAIN q : IF i = 1 THEN q[i] = Head(q)
                             ELSE i - 1 \in DOMAIN Tail(q) /\ Tail(q)[i - 1] = q[i]
      /\ 1 \in DOMAIN q /\ Head(q) = q[1]
  <2>1. Tail(q) \in Seq(TaggedFrame) /\ Len(Tail(q)) = Len(q) - 1
    BY <1>1
  <2>2. \A i \in 1 .. Len(q) : i = 1 \/ (i - 1 \in 1 .. Len(q) - 1 /\ Tail(q)[i - 1] = q[i])
    BY <1>1
  <2> QED
    BY <1>1, <2>1, <2>2
<1>3. shorter = [txQueue |-> Tail(q), transmitState |-> m.transmitState, list |-> m.list]
  BY DEF InterfaceInv
<1>4. r = beginSendFrames(shorter)
  BY <1>1 DEF handleEndTxPeriod
<1> HIDE DEF shorter
<1>5. /\ r.txQueue = Tail(q) /\ r.list = m.list
      /\ r.transmitState = IF Tail(q) = <<>> THEN "TX_IDLE" ELSE "WAIT_IFG"
  BY <1>3, <1>4 DEF beginSendFrames
<1>6. QueueOf(r) \subseteq QueueOf(m)
  BY EndOfTransmission
<1>7. Head(q) \in QueueOf(m) /\ \A k \in QueueOf(m) : k = Head(q) \/ k \in QueueOf(r)
  <2>1. Head(q) \in QueueOf(m)
    BY <1>2 DEF QueueOf
  <2>2. ASSUME NEW k \in QueueOf(m), k # Head(q)
        PROVE  k \in QueueOf(r)
    <3>1. PICK i \in DOMAIN q : k = q[i]
      BY DEF QueueOf
    <3>2. i - 1 \in DOMAIN Tail(q) /\ Tail(q)[i - 1] = k
      BY <1>2, <2>2, <3>1
    <3> QED
      BY <1>5, <3>2 DEF QueueOf
  <2> QED
    BY <2>1, <2>2
<1>8. CopyOf(D, T, Head(q)) /\ Lists(m.list, T[Untagged(Head(q))])
  <2>1. CopyOf(D, T, Head(q))
    BY <1>7 DEF InterfaceOf
  <2>2. Untagged(Head(q)) \in D
    BY <2>1 DEF CopyOf
  <2> QED
    BY <2>1, <2>2 DEF InterfaceOf, Sending
<1>9. InterfaceOf(D, T, r)
  BY <1>5, <1>6 DEF InterfaceOf, Sending
<1>10. \A f \in D : Has(T, m, f) => Has(T, r, f)
  BY <1>5, <1>7, <1>8 DEF Has, Queues
<1> QED
  BY <1>5, <1>8, <1>9, <1>10 DEF Keeps

(* More frames may get their tags. *)
LEMMA MoreTags ==
  ASSUME NEW D, NEW T, NEW E, NEW U, D \subseteq E, \A f \in D : U[f] = T[f]
  PROVE  /\ \A h : CopyOf(D, T, h) => CopyOf(E, U, h)
         /\ \A list : ListOf(D, T, list) => ListOf(E, U, list)
         /\ \A m : InterfaceInv(m) /\ InterfaceOf(D, T, m) => InterfaceOf(E, U, m)
         /\ \A m : \A f \in D : Has(U, m, f) <=> Has(T, m, f)
<1>1. \A h : CopyOf(D, T, h) => CopyOf(E, U, h)
  BY DEF CopyOf
<1>2. \A list : ListOf(D, T, list) => ListOf(E, U, list)
  BY DEF ListOf
<1>3. ASSUME NEW m, InterfaceInv(m), InterfaceOf(D, T, m)
      PROVE  InterfaceOf(E, U, m)
  <2>1. ASSUME NEW f, Sending(m, f)
        PROVE  f \in D
    <3>1. m.transmitState = "TRANSMITTING" /\ f = Untagged(Head(m.txQueue))
      BY <2>1 DEF Sending
    <3>2. Head(m.txQueue) \in QueueOf(m)
      BY <1>3, <3>1, EndOfTransmission
    <3> QED
      BY <1>3, <3>1, <3>2 DEF InterfaceOf, CopyOf
  <2> QED
    BY <1>1, <1>2, <1>3, <2>1 DEF InterfaceOf
<1>4. \A m : \A f \in D : Has(U, m, f) <=> Has(T, m, f)
  BY DEF Has
<1> QED
  BY <1>1, <1>2, <1>3, <1>4

-----------------------------------------------------------------------------
(* The ring. *)

LEMMA RingParts ==
  ASSUME OneRing, NEW n \in Node, NEW p \in Way
  PROVE  /\ Port(n) = Way /\ Connected(n, p) /\ <<n, p>> \in Interface
         /\ Peer[<<n, p>>] = <<Beyond(n, p), Opposite(p)>>
         /\ Beyond(n, p) \in Node /\ Beyond(n, p) # n
         /\ Opposite(p) \in Way /\ Opposite(Opposite(p)) = p
<1>1. Port(n) = Way
  BY DEF OneRing, Port, Way
<1>2. <<n, p>> \in Interface
  BY <1>1 DEF Interface
<1>3. PICK N \in Nat : RingOf(N)
  BY DEF OneRing
<1>4. Connected(n, p)
  BY <1>3 DEF RingOf, Connected
<1>5. p = "A" \/ p = "B"
  BY DEF Way
<1>6. n \in 0 .. N - 1 /\ N >= 2
  BY <1>3 DEF RingOf
<1>7. CASE p = "A"
  <2>1. Peer[<<n, p>>] = <<IF n = N - 1 THEN 0 ELSE n + 1, "B">>
    BY <1>3, <1>7 DEF RingOf
  <2>2. Beyond(n, p) = IF n = N - 1 THEN 0 ELSE n + 1
    BY <2>1 DEF Beyond
  <2>3. Beyond(n, p) \in 0 .. N - 1 /\ Beyond(n, p) # n
    BY <1>6, <2>2
  <2> QED
    BY <1>1, <1>2, <1>3, <1>4, <1>7, <2>1, <2>2, <2>3 DEF RingOf, Opposite, Way
<1>8. CASE p = "B"
  <2>1. Peer[<<n, p>>] = <<IF n = 0 THEN N - 1 ELSE n - 1, "A">>
    BY <1>3, <1>8 DEF RingOf
  <2>2. Beyond(n, p) = IF n = 0 THEN N - 1 ELSE n - 1
    BY <2>1 DEF Beyond
  <2>3. Beyond(n, p) \in 0 .. N - 1 /\ Beyond(n, p) # n
    BY <1>6, <2>2
  <2> QED
    BY <1>1, <1>2, <1>3, <1>4, <1>8, <2>1, <2>2, <2>3 DEF RingOf, Opposite, Way
<1> QED
  BY <1>5, <1>7, <1>8

LEMMA RingTags == OneRing => TagsAreKept
BY DEF OneRing, TagsAreKept

(* The ports a frame is given to. *)
Takers(c, h) ==
  IF c.gate = "C" THEN Way ELSE IF h.dest # c.node THEN {Opposite(c.gate)} ELSE {}

(* In the step the ports that take h get it, and the others nothing. *)
Gives(c, h) ==
  \A m \in Node, p \in Way :
    mac'[m][p] = IF m = c.node /\ p \in Takers(c, h)
                   THEN processFrameFromUpperLayer(mac[m][p], m, h) ELSE mac[m][p]

(* The switch of an end node: exactly what each port and the processor get. *)
LEMMA RingHandled ==
  ASSUME OneRing, NetInv, NEW c \in BagToSet(line), handleMessage(c.node, c.gate, c.frame),
         NEW h, h = AsTagged(c.node, c.gate, c.frame)
  PROVE  /\ c.node \in Node /\ Takers(c, h) \subseteq Way
         /\ \A p \in Takers(c, h) : h.dest # c.node
         /\ Gives(c, h)
         /\ lost' = lost + Cardinality({p \in Takers(c, h) : QueueFull(mac[c.node][p])})
         /\ c.gate # "C" /\ Mine(c.node, h) /\ checkFrame(cpuList[c.node], h) = "new" =>
              [cpu |-> c.node, frame |-> Untagged(h)] \in BagToSet(recvList')
<1> DEFINE n == c.node
           g == c.gate
           f == c.frame
           out     == PassedOn(n, g, f)
           Sent(p) == {x.frame : x \in {y \in out : y.port = p}}
           taken   == [p \in Port(n) |->
                         IF Sent(p) = {} \/ ~ Connected(n, p) THEN mac[n][p]
                         ELSE processFrameFromUpperLayer(mac[n][p], n, CHOOSE k \in Sent(p) : TRUE)]
           new     == {k \in Sent("C") : checkFrame(cpuList[n], k) = "new"}
           P       == Takers(c, h)
<1>1. /\ OnLine(c) /\ c = At(n, g, f) /\ n \in Node
      /\ g # "C" => g \in Way
      /\ n \notin RedBox
  <2>1. OnLine(c)
    BY DEF NetInv
  <2>2. n \in Node /\ c = At(n, g, f)
    BY <2>1 DEF OnLine
  <2>3. Port(n) = {"A", "B"} /\ n \notin RedBox
    BY DEF OneRing, Port
  <2> QED
    BY <2>1, <2>2, <2>3 DEF OnLine, Way
<1>2. Port(n) = Way /\ \A p \in Way : Connected(n, p) /\ Opposite(p) \in Way
  <2>1. \A p \in Way : Port(n) = Way /\ Connected(n, p) /\ Opposite(p) \in Way
    BY <1>1, RingParts
  <2>2. "A" \in Way
    BY DEF Way
  <2> QED
    BY <2>1, <2>2
<1>3. /\ mac' = [mac EXCEPT ![n] = taken]
      /\ recvList' = recvList (+) SetToBag({[cpu |-> n, frame |-> Untagged(k)] : k \in new})
      /\ lost' = lost + Cardinality({p \in Port(n) : Sent(p) # {} /\ Connected(n, p)
                                                    /\ QueueFull(mac[n][p])})
  BY <1>1, Zenon DEF handleMessage, Deliver, registerRECV, PassedOn
<1>4. out = IF g = "C" THEN {To("A", h), To("B", h)}
            ELSE (IF Mine(n, h) THEN {To("C", h)} ELSE {}) \cup
                 (IF h.dest # n THEN {To(Opposite(g), h)} ELSE {})
  <2>1. CASE g = "C"
    <3>1. f.seq = NoTag
      BY <1>1, <2>1 DEF OnLine, Port, UntaggedFrame
    <3>2. h = Retag(f, createHSRTag(sequenceNum[n]))
      BY <2>1 DEF AsTagged
    <3> QED
      BY <1>1, <2>1, <3>1, <3>2 DEF FromCpu, getNodeMode, EndNodeSwitch, PassedOn
  <2>2. CASE g # "C"
    <3>1. f.seq # NoTag
      BY <1>1, <2>2 DEF OnLine, TaggedFrame
    <3>2. h = f
      BY <2>2 DEF AsTagged
    <3> QED
      BY <1>1, <2>2, <3>1, <3>2 DEF FromRingPort, EndNodeSwitch, PassedOn
  <2> QED
    BY <2>1, <2>2
<1>5. /\ P \subseteq Way /\ \A p \in P : h.dest # n
      /\ \A p \in Way : Sent(p) = IF p \in P THEN {h} ELSE {}
      /\ g # "C" /\ Mine(n, h) => Sent("C") = {h}
  <2>1. \A p, k : To(p, k).port = p /\ To(p, k).frame = k
    BY DEF To
  <2>2. CASE g = "C"
    <3>1. h.dest # n
      BY <1>1, <2>2, TaggingIsAll DEF OnLine, Port, UntaggedFrame, ForAnother
    <3> QED
      BY <1>4, <2>1, <2>2, <3>1 DEF Takers, Way
  <2>3. CASE g # "C"
    <3>1. out = (IF Mine(n, h) THEN {To("C", h)} ELSE {}) \cup
                (IF h.dest # n THEN {To(Opposite(g), h)} ELSE {})
      BY <1>4, <2>3
    <3>2. Opposite(g) \in Way
      BY <1>1, <1>2, <2>3
    <3>3. P = IF h.dest # n THEN {Opposite(g)} ELSE {}
      BY <2>3 DEF Takers
    <3> HIDE DEF out, P
    <3> QED
      BY <2>1, <2>3, <3>1, <3>2, <3>3 DEF Way
  <2> QED
    BY <2>2, <2>3
<1> HIDE DEF n, g, f, out, P, Sent
<1>6. \A p \in Way : taken[p] = IF p \in P THEN processFrameFromUpperLayer(mac[n][p], n, h)
                                ELSE mac[n][p]
  <2>1. ASSUME NEW p \in P
        PROVE  taken[p] = processFrameFromUpperLayer(mac[n][p], n, h)
    <3>1. Sent(p) = {h} /\ p \in Port(n) /\ Connected(n, p)
      BY <1>2, <1>5
    <3>2. (CHOOSE k \in Sent(p) : TRUE) = h
      BY <3>1
    <3> QED
      BY <3>1, <3>2
  <2>2. ASSUME NEW p \in Way, p \notin P
        PROVE  taken[p] = mac[n][p]
    BY <1>2, <1>5, <2>2
  <2> QED
    BY <1>5, <2>1, <2>2
<1> HIDE DEF taken
<1>7. \A m \in Node : mac'[m] = IF m = n THEN taken ELSE mac[m]
  <2>1. mac = [m \in Node |-> [p \in Port(m) |-> mac[m][p]]]
    BY DEF NetInv, MacInv
  <2>2. mac' = [m \in Node |-> IF m = n THEN taken ELSE mac[m]]
    BY <1>3, <2>1
  <2> QED
    BY <2>2
<1>8. \A m \in Node, p \in Way :
        mac'[m][p] = IF m = n /\ p \in P THEN processFrameFromUpperLayer(mac[m][p], m, h)
                     ELSE mac[m][p]
  BY <1>6, <1>7
<1>9. lost' = lost + Cardinality({p \in P : QueueFull(mac[n][p])})
  <2>1. {p \in Port(n) : Sent(p) # {} /\ Connected(n, p) /\ QueueFull(mac[n][p])}
        = {p \in P : QueueFull(mac[n][p])}
    BY <1>2, <1>5
  <2> QED
    BY <1>3, <2>1
<1>10. ASSUME g # "C", Mine(n, h), checkFrame(cpuList[n], h) = "new"
       PROVE  [cpu |-> n, frame |-> Untagged(h)] \in BagToSet(recvList')
  <2> DEFINE r == [cpu |-> n, frame |-> Untagged(h)]
  <2>1. new = {h}
    BY <1>5, <1>10
  <2> HIDE DEF new
  <2>2. {[cpu |-> n, frame |-> Untagged(k)] : k \in new} = {r}
    BY <2>1
  <2> HIDE DEF r
  <2>3. recvList' = recvList (+) SetToBag({r})
    BY <1>3, <2>2, Zenon DEF r
  <2>4. IsABag(recvList)
    BY DEF NetInv
  <2>5. BagToSet(recvList (+) SetToBag({r})) = BagToSet(recvList) \cup {r}
    BY <2>4, BagAddition
  <2> QED
    BY <2>3, <2>5 DEF r
<1> QED
  <2>1. Gives(c, h)
    BY <1>8 DEF Gives, n, P
  <2> QED
    BY <1>1, <1>5, <1>9, <1>10, <2>1 DEF n, g, P

-----------------------------------------------------------------------------
(* What a step has to keep. *)

LEMMA RingMac ==
  ASSUME OneRing, NetInv, NEW n \in Node, NEW p \in Way
  PROVE  InterfaceInv(mac[n][p])
BY RingParts DEF NetInv, MacInv

LEMMA FewOnRing ==
  ASSUME ServiceInv, FewFrames
  PROVE  IsFiniteSet(sendList) /\ Cardinality(sendList) <= ListSize
<1> DEFINE g == [f \in sendList |-> f.counter]
           I == 0 .. messageCount - 1
<1>1. messageCount \in Nat /\ messageCount <= ListSize /\ ListSize \in Nat
  BY EtherMacAssumption DEF ServiceInv, NetInv, FewFrames
<1>2. \A f \in sendList : f.counter \in I
  BY <1>1 DEF ServiceInv, SentInv, UntaggedFrame, ForAnother
<1>3. \A f, k \in sendList : f.counter = k.counter => f = k
  BY DEF ServiceInv, SentInv
<1>4. IsFiniteSet(I) /\ Cardinality(I) = messageCount
  BY <1>1, FS_Interval
<1> HIDE DEF I
<1>5. g \in Injection(sendList, I)
  BY <1>2, <1>3 DEF Injection, IsInjective
<1> HIDE DEF g
<1>6. IsFiniteSet(sendList) /\ Cardinality(sendList) <= Cardinality(I)
  BY <1>4, <1>5, FS_Injection
<1>7. Cardinality(sendList) \in Nat
  BY <1>6, FS_CardinalityType
<1> QED
  BY <1>1, <1>4, <1>6, <1>7

(* A copy each way that is not lost goes on: what has been queued stays    *)
(* queued or gets listed, what has been sent arrives or is lost, and what  *)
(* arrives is heard and queued again.                                      *)
LEMMA WaysGoOn ==
  ASSUME OneRing, NEW T, NEW U, NEW L, NEW K, TagInv(T), WayInv(T, L),
         L \subseteq K, OnRing \subseteq OnRing', Numbering(OnRing', U),
         \A f \in OnRing : U[f] = T[f],
         \A n \in Node, p \in Way : Keeps(OnRing', U, mac[n][p], mac'[n][p]),
         BagToSet(recvList) \subseteq BagToSet(recvList'),
         \A f \in OnRing' \ OnRing, p \in Way : <<f, p>> \notin K => Has(U, mac'[f.src][p], f),
         \A f \in OnRing, n \in Node, p \in Way :
           Sending(mac[n][p], f) => Sending(mac'[n][p], f) \/ OnTheLine(f, Beyond(n, p), p)',
         \A f \in OnRing, n \in Node, p \in Way :
           <<f, p>> \notin K /\ OnTheLine(f, n, p) =>
             OnTheLine(f, n, p)' \/ Passed(U, f, n, p)'
  PROVE  WayInv(U, K)'
<1>1. ASSUME NEW f \in OnRing, NEW n \in Node, NEW p \in Way, Has(T, mac[n][p], f)
      PROVE  Has(U, mac'[n][p], f)
  <2>1. Has(U, mac[n][p], f)
    BY <1>1 DEF Has
  <2> QED
    BY <2>1 DEF Keeps
<1>2. ASSUME NEW f \in OnRing, NEW n \in Node, NEW p \in Way, Passed(T, f, n, p)
      PROVE  Passed(U, f, n, p)'
  BY <1>1, <1>2 DEF Passed, Heard
<1>3. \A f \in OnRing : f.src \in Node
  BY DEF TagInv, Numbering, UntaggedFrame, ForAnother
<1>4. ASSUME NEW f \in OnRing', NEW p \in Way, <<f, p>> \notin K
      PROVE  Has(U, mac'[f.src][p], f)
  <2>1. CASE f \in OnRing
    <3>1. Has(T, mac[f.src][p], f)
      BY <1>4, <2>1 DEF WayInv
    <3> QED
      BY <1>1, <1>3, <2>1, <3>1
  <2>2. CASE f \notin OnRing
    BY <1>4, <2>2
  <2> QED
    BY <2>1, <2>2
<1>5. ASSUME NEW f \in OnRing', NEW n \in Node, NEW p \in Way, Lists(mac[n][p].list, U[f])
      PROVE  f \in OnRing /\ Lists(mac[n][p].list, T[f])
  <2>1. ListOf(OnRing, T, mac[n][p].list)
    BY DEF TagInv, InterfaceOf
  <2>2. PICK i \in DOMAIN mac[n][p].list.entries : mac[n][p].list.entries[i] = U[f]
    BY <1>5 DEF Lists
  <2>3. PICK k \in OnRing : mac[n][p].list.entries[i] = T[k]
    BY <2>1 DEF ListOf
  <2>4. k = f
    BY <2>2, <2>3 DEF Numbering
  <2> QED
    BY <2>2, <2>3, <2>4 DEF Lists
<1>6. ASSUME NEW f \in OnRing', NEW n \in Node, NEW p \in Way, <<f, p>> \notin K,
             Lists(mac'[n][p].list, U[f])
      PROVE  \/ Sending(mac'[n][p], f)
             \/ OnTheLine(f, Beyond(n, p), p)'
             \/ Passed(U, f, Beyond(n, p), p)'
  <2>1. Lists(mac[n][p].list, U[f]) \/ Sending(mac'[n][p], f)
    BY <1>6 DEF Keeps
  <2>2. ASSUME Lists(mac[n][p].list, U[f])
        PROVE  \/ Sending(mac'[n][p], f)
               \/ OnTheLine(f, Beyond(n, p), p)'
               \/ Passed(U, f, Beyond(n, p), p)'
    <3>1. f \in OnRing /\ Lists(mac[n][p].list, T[f])
      BY <1>5, <2>2
    <3>2. Beyond(n, p) \in Node
      BY RingParts
    <3>3. <<f, p>> \notin L
      BY <1>6
    <3>4. \/ Sending(mac[n][p], f)
          \/ OnTheLine(f, Beyond(n, p), p)
          \/ Passed(T, f, Beyond(n, p), p)
      BY <3>1, <3>3 DEF WayInv
    <3>5. CASE Sending(mac[n][p], f)
      BY <3>1, <3>5
    <3>6. CASE OnTheLine(f, Beyond(n, p), p)
      BY <1>6, <3>1, <3>2, <3>6
    <3>7. CASE Passed(T, f, Beyond(n, p), p)
      BY <1>2, <3>1, <3>2, <3>7
    <3> QED
      BY <3>4, <3>5, <3>6, <3>7
  <2> QED
    BY <2>1, <2>2
<1>7. \A n \in Node, p \in Way : Beyond(n, p)' = Beyond(n, p)
  BY DEF Beyond
<1> QED
  BY <1>4, <1>6, <1>7 DEF WayInv

(* The same frames have tags as before. *)
LEMMA TagsStay ==
  ASSUME NEW T, TagInv(T), OnRing' = OnRing, UNCHANGED <<sequenceNum, cpuList>>,
         BagToSet(recvList) \subseteq BagToSet(recvList'),
         \A c \in BagToSet(line') : c.gate # "C" => CopyOf(OnRing, T, c.frame),
         \A n \in Node, p \in Way : InterfaceOf(OnRing, T, mac'[n][p])
  PROVE  TagInv(T)'
BY DEF TagInv, Heard

LEMMA KeepsItself ==
  ASSUME NEW D, NEW T, NEW m
  PROVE  Keeps(D, T, m, m)
BY DEF Keeps

(* Nothing happens to copies: a processor sends, or the simulation ends. *)
LEMMA RestOfTheStep ==
  ASSUME OneRing, NEW T, NEW L, TagInv(T), LostInv(L), WayInv(T, L),
         OnRing' = OnRing, BagToSet(line) \subseteq BagToSet(line'),
         \A c \in BagToSet(line') : c \in BagToSet(line) \/ c.gate = "C",
         UNCHANGED <<sequenceNum, mac, cpuList, recvList, lost>>
  PROVE  TagInv(T)' /\ LostInv(L)' /\ WayInv(T, L)'
<1>1. TagInv(T)'
  <2>1. \A c \in BagToSet(line') : c.gate # "C" => CopyOf(OnRing, T, c.frame)
    BY DEF TagInv
  <2>2. \A n \in Node, p \in Way : InterfaceOf(OnRing, T, mac'[n][p])
    BY DEF TagInv
  <2> QED
    BY <2>1, <2>2, TagsStay
<1>2. \A f, n, p : OnTheLine(f, n, p) => OnTheLine(f, n, p)'
  BY DEF OnTheLine
<1>3. WayInv(T, L)'
  <2>1. \A n \in Node, p \in Way : Keeps(OnRing', T, mac[n][p], mac'[n][p])
    BY KeepsItself
  <2>2. Numbering(OnRing', T)
    BY DEF TagInv
  <2> QED
    BY <1>2, <2>1, <2>2, WaysGoOn
<1> QED
  BY <1>1, <1>3 DEF LostInv

LEMMA CpuKeepsWays ==
  ASSUME OneRing, ServiceInv, NEW T, NEW L, TagInv(T), LostInv(L), WayInv(T, L),
         NEW m \in pending, NEW now, SelfMessage(m, now)
  PROVE  TagInv(T)' /\ LostInv(L)' /\ WayInv(T, L)'
<1>1. UNCHANGED <<sequenceNum, mac, cpuList, recvList, lost>> /\ NetInv
  BY DEF SelfMessage, ServiceInv
<1>2. CASE UNCHANGED <<messageCount, sendList, line>>
  <2>1. OnRing' = OnRing
    BY <1>2 DEF OnRing, FromCpus
  <2> QED
    BY <1>1, <1>2, <2>1, RestOfTheStep
<1>3. ASSUME NEW f \in UntaggedFrame, f.counter = messageCount, sendList' = sendList \cup {f},
             line' = line (+) SetToBag({At(f.src, "C", f)})
      PROVE  TagInv(T)' /\ LostInv(L)' /\ WayInv(T, L)'
  <2> DEFINE c == At(f.src, "C", f)
  <2>1. c.gate = "C" /\ c.frame = f
    BY DEF At
  <2> HIDE DEF c
  <2>2. line' = line (+) SetToBag({c}) /\ IsABag(line)
    BY <1>1, <1>3 DEF c, NetInv
  <2>3. BagToSet(line') = BagToSet(line) \cup {c}
    BY <2>2, BagAddition
  <2>4. FromCpus' = FromCpus \cup {c}
    BY <2>1, <2>3 DEF FromCpus
  <2>5. f \notin sendList
    <3>1. \A g \in sendList : g.counter \in Nat /\ g.counter < messageCount
      BY DEF ServiceInv, SentInv, UntaggedFrame, ForAnother
    <3> QED
      BY <1>3, <3>1
  <2>6. OnRing' = OnRing
    BY <1>3, <2>1, <2>4, <2>5 DEF OnRing
  <2> QED
    BY <1>1, <2>1, <2>3, <2>6, RestOfTheStep
<1> QED
  BY <1>1, <1>2, <1>3, FrameMade

Becomes(n, p, r) == mac' = [mac EXCEPT ![n][p] = r]

LEMMA OneInterface ==
  ASSUME OneRing, NetInv, NEW n \in Node, NEW p \in Way, NEW r, Becomes(n, p, r)
  PROVE  \A m \in Node, q \in Way : mac'[m][q] = IF m = n /\ q = p THEN r ELSE mac[m][q]
<1>1. mac = [m \in Node |-> [q \in Port(m) |-> mac[m][q]]]
  BY DEF NetInv, MacInv
<1>2. \A m \in Node : Port(m) = Way
  BY DEF OneRing, Port, Way
<1>3. \A m \in Node : mac'[m] = IF m = n THEN [mac[n] EXCEPT ![p] = r] ELSE mac[m]
  BY <1>1 DEF Becomes
<1>4. mac[n] = [q \in Way |-> mac[n][q]]
  BY <1>1, <1>2
<1>5. \A q \in Way : [mac[n] EXCEPT ![p] = r][q] = IF q = p THEN r ELSE mac[n][q]
  BY <1>4
<1> QED
  BY <1>3, <1>5

LEMMA EndTxKeepsWays ==
  ASSUME OneRing, NetInv, NEW T, NEW L, TagInv(T), LostInv(L), WayInv(T, L),
         NEW n \in Node, NEW p \in Way, EndTx(n, p)
  PROVE  TagInv(T)' /\ LostInv(L)' /\ WayInv(T, L)'
<1> DEFINE old == mac[n][p]
           r   == handleEndTxPeriod(old)
           c   == At(Beyond(n, p), Opposite(p), Head(old.txQueue))
<1>1. /\ InterfaceInv(old) /\ InterfaceOf(OnRing, T, old)
      /\ \A m \in Node, q \in Way : InterfaceOf(OnRing, T, mac[m][q])
      /\ Numbering(OnRing, T)
  BY RingMac DEF TagInv
<1>2. Peer[<<n, p>>][1] = Beyond(n, p) /\ Peer[<<n, p>>][2] = Opposite(p) /\ Opposite(p) \in Way
  BY RingParts
<1>3. /\ old.transmitState = "TRANSMITTING"
      /\ line' = line (+) SetToBag({c})
      /\ UNCHANGED <<sequenceNum, cpuList, sendList, recvList, lost>>
  BY <1>2 DEF EndTx
<1>4. Becomes(n, p, r)
  <2>1. mac = [m \in Node |-> [q \in Port(m) |-> mac[m][q]]] /\ p \in Port(n)
    BY RingParts DEF NetInv, MacInv
  <2> QED
    BY <2>1 DEF EndTx, Becomes
<1>5. /\ InterfaceOf(OnRing, T, r) /\ Keeps(OnRing, T, old, r)
      /\ r.list = old.list /\ CopyOf(OnRing, T, Head(old.txQueue))
  BY <1>1, <1>3, EndingForgetsNothing
<1>6. c.node = Beyond(n, p) /\ c.gate = Opposite(p) /\ c.frame = Head(old.txQueue) /\ c.gate # "C"
  BY <1>2 DEF At, Way
<1> HIDE DEF r, c
<1>7. \A m \in Node, q \in Way : mac'[m][q] = IF m = n /\ q = p THEN r ELSE mac[m][q]
  BY <1>4, OneInterface
<1>8. BagToSet(line') = BagToSet(line) \cup {c}
  BY <1>3, BagAddition DEF NetInv
<1>9. OnRing' = OnRing
  <2>1. FromCpus' = FromCpus
    BY <1>6, <1>8 DEF FromCpus
  <2> QED
    BY <1>3, <2>1 DEF OnRing
<1>10. TagInv(T)'
  <2>1. \A d \in BagToSet(line') : d.gate # "C" => CopyOf(OnRing, T, d.frame)
    BY <1>5, <1>6, <1>8 DEF TagInv
  <2>2. \A m \in Node, q \in Way : InterfaceOf(OnRing, T, mac'[m][q])
    BY <1>1, <1>5, <1>7
  <2> QED
    BY <1>3, <1>9, <2>1, <2>2, TagsStay
<1>11. \A m \in Node, q \in Way : Keeps(OnRing', T, mac[m][q], mac'[m][q])
  BY <1>5, <1>7, <1>9, KeepsItself
<1>12. \A f, m, q : OnTheLine(f, m, q) => OnTheLine(f, m, q)'
  BY <1>8 DEF OnTheLine
<1>13. ASSUME NEW f \in OnRing, NEW m \in Node, NEW q \in Way, Sending(mac[m][q], f)
       PROVE  Sending(mac'[m][q], f) \/ OnTheLine(f, Beyond(m, q), q)'
  <2>1. CASE m = n /\ q = p
    <3>1. Untagged(c.frame) = f
      BY <1>6, <1>13, <2>1 DEF Sending
    <3>2. Beyond(m, q)' = Beyond(m, q)
      BY DEF Beyond
    <3>3. \E d \in BagToSet(line') :
            d.node = Beyond(m, q) /\ d.gate = Opposite(q) /\ Untagged(d.frame) = f
      BY <1>6, <1>8, <2>1, <3>1
    <3> QED
      BY <3>2, <3>3 DEF OnTheLine
  <2>2. CASE ~ (m = n /\ q = p)
    BY <1>7, <1>13, <2>2
  <2> QED
    BY <2>1, <2>2
<1>14. WayInv(T, L)'
  BY <1>1, <1>3, <1>9, <1>11, <1>12, <1>13, WaysGoOn
<1> QED
  BY <1>3, <1>10, <1>14 DEF LostInv

LEMMA EndIFGKeepsWays ==
  ASSUME OneRing, NetInv, NEW T, NEW L, TagInv(T), LostInv(L), WayInv(T, L),
         NEW n \in Node, NEW p \in Way, EndIFG(n, p)
  PROVE  TagInv(T)' /\ LostInv(L)' /\ WayInv(T, L)'
<1> DEFINE old == mac[n][p]
           r   == handleEndIFGPeriod(old)
<1>1. /\ InterfaceInv(old) /\ InterfaceOf(OnRing, T, old)
      /\ \A m \in Node, q \in Way : InterfaceOf(OnRing, T, mac[m][q])
      /\ Numbering(OnRing, T)
  BY RingMac DEF TagInv
<1>2. /\ old.transmitState = "WAIT_IFG" /\ line' = line
      /\ UNCHANGED <<sequenceNum, cpuList, sendList, recvList, lost>>
  BY DEF EndIFG
<1>3. Becomes(n, p, r)
  <2>1. mac = [m \in Node |-> [q \in Port(m) |-> mac[m][q]]] /\ p \in Port(n)
    BY RingParts DEF NetInv, MacInv
  <2> QED
    BY <2>1 DEF EndIFG, Becomes
<1>4. InterfaceOf(OnRing, T, r) /\ Keeps(OnRing, T, old, r)
  <2>1. /\ old.txQueue \in Seq(TaggedFrame) /\ old.txQueue # <<>>
        /\ ListInv(old.list) /\ ListOf(OnRing, T, old.list)
        /\ \A h \in QueueOf(old) : CopyOf(OnRing, T, h)
    BY <1>1, <1>2 DEF InterfaceInv, InterfaceOf
  <2>2. r = startFrameTransmission(old)
    BY <2>1 DEF handleEndIFGPeriod
  <2> QED
    BY <1>1, <2>1, <2>2, StartingForgetsNothing
<1> HIDE DEF r
<1>5. \A m \in Node, q \in Way : mac'[m][q] = IF m = n /\ q = p THEN r ELSE mac[m][q]
  BY <1>3, OneInterface
<1>6. OnRing' = OnRing
  BY <1>2 DEF OnRing, FromCpus
<1>7. TagInv(T)'
  <2>1. \A d \in BagToSet(line') : d.gate # "C" => CopyOf(OnRing, T, d.frame)
    BY <1>2 DEF TagInv
  <2>2. \A m \in Node, q \in Way : InterfaceOf(OnRing, T, mac'[m][q])
    BY <1>1, <1>4, <1>5
  <2> QED
    BY <1>2, <1>6, <2>1, <2>2, TagsStay
<1>8. \A m \in Node, q \in Way : Keeps(OnRing', T, mac[m][q], mac'[m][q])
  BY <1>4, <1>5, <1>6, KeepsItself
<1>9. \A f, m, q : OnTheLine(f, m, q) => OnTheLine(f, m, q)'
  BY <1>2 DEF OnTheLine
<1>10. \A f \in OnRing, m \in Node, q \in Way : Sending(mac[m][q], f) => Sending(mac'[m][q], f)
  <2>1. \A f : ~ Sending(old, f)
    BY <1>2 DEF Sending
  <2> QED
    BY <1>5, <2>1
<1>11. WayInv(T, L)'
  BY <1>1, <1>2, <1>6, <1>8, <1>9, <1>10, WaysGoOn
<1> QED
  BY <1>2, <1>7, <1>11 DEF LostInv

(* A copy lost on a line is one more lost way. *)
LEMMA BitErrorKeepsWays ==
  ASSUME OneRing, NetInv, NEW T, NEW L, TagInv(T), LostInv(L), WayInv(T, L),
         NEW c \in BagToSet(line), BitError(c.node, c.gate, c.frame)
  PROVE  \E K : TagInv(T)' /\ LostInv(K)' /\ WayInv(T, K)'
<1> DEFINE K == L \cup {<<Untagged(c.frame), Opposite(c.gate)>>}
<1>1. OnLine(c) /\ c = At(c.node, c.gate, c.frame) /\ IsABag(line)
  BY DEF NetInv, OnLine
<1>2. /\ c.gate # "C" /\ line' = line (-) SetToBag({c}) /\ lost' = lost + 1
      /\ UNCHANGED <<sequenceNum, mac, cpuList, sendList, recvList>>
  BY <1>1 DEF BitError
<1>3. c.gate \in Way
  BY <1>1, <1>2 DEF OnLine, OneRing, Port, Way
<1>4. BagToSet(line') = IF line[c] = 1 THEN BagToSet(line) \ {c} ELSE BagToSet(line)
  BY <1>1, <1>2, BagRemoval
<1>5. OnRing' = OnRing
  <2>1. FromCpus' = FromCpus
    BY <1>2, <1>4 DEF FromCpus
  <2> QED
    BY <1>2, <2>1 DEF OnRing
<1>6. TagInv(T)'
  <2>1. \A d \in BagToSet(line') : d.gate # "C" => CopyOf(OnRing, T, d.frame)
    BY <1>4 DEF TagInv
  <2>2. \A m \in Node, q \in Way : InterfaceOf(OnRing, T, mac'[m][q])
    BY <1>2 DEF TagInv
  <2> QED
    BY <1>2, <1>5, <2>1, <2>2, TagsStay
<1>7. LostInv(K)'
  <2>1. /\ IsFiniteSet(K)
        /\ Cardinality(K) = Cardinality(L) \/ Cardinality(K) = Cardinality(L) + 1
    BY FS_AddElement DEF LostInv
  <2>2. Cardinality(L) \in Nat
    BY FS_CardinalityType DEF LostInv
  <2> HIDE DEF K
  <2> QED
    BY <1>2, <2>1, <2>2 DEF LostInv
<1>8. ASSUME NEW f, NEW n, NEW p \in Way, <<f, p>> \notin K, OnTheLine(f, n, p)
      PROVE  OnTheLine(f, n, p)'
  <2>1. PICK d \in BagToSet(line) : d.node = n /\ d.gate = Opposite(p) /\ Untagged(d.frame) = f
    BY <1>8 DEF OnTheLine
  <2>2. d # c
    <3>1. Opposite(c.gate) = p => <<f, p>> # <<Untagged(c.frame), Opposite(c.gate)>> \/ d # c
      BY <1>8
    <3>2. d = c => Opposite(c.gate) = p
      BY <2>1 DEF Opposite, Way
    <3> QED
      BY <2>1, <3>1, <3>2
  <2>3. d \in BagToSet(line')
    BY <1>4, <2>2
  <2> QED
    BY <2>1, <2>3 DEF OnTheLine
<1> HIDE DEF K
<1>9. \A n \in Node, p \in Way : Keeps(OnRing', T, mac[n][p], mac'[n][p])
  BY <1>2, KeepsItself
<1>10. L \subseteq K
  BY DEF K
<1>11. WayInv(T, K)'
  <2>1. Numbering(OnRing', T)
    BY <1>5 DEF TagInv
  <2> QED
    BY <1>2, <1>5, <1>8, <1>9, <1>10, <2>1, WaysGoOn
<1> QED
  BY <1>6, <1>7, <1>11

(* The frame handled has a tag afterwards, and it is its own. *)
LEMMA OneMoreTag ==
  ASSUME OneRing, ServiceInv, FewFrames, FewFrames', NEW T, TagInv(T), NEW c \in BagToSet(line),
         handleMessage(c.node, c.gate, c.frame), NEW h, h = AsTagged(c.node, c.gate, c.frame)
  PROVE  \E U :
           /\ OnRing' = OnRing \cup {Untagged(h)}
           /\ c.gate # "C" => Untagged(h) \in OnRing /\ h = c.frame /\ h \in Copies
           /\ c.gate = "C" => Untagged(h).src = c.node
           /\ \A f \in OnRing : U[f] = T[f]
           /\ Numbering(OnRing', U)
           /\ CopyOf(OnRing', U, h)
           /\ \A f \in OnRing' : U[f].source = f.src /\ U[f].sequencenumber < sequenceNum'[f.src]
<1> DEFINE n == c.node
           k == Untagged(h)
           x == ListItemData(h)
           U == [f \in OnRing' |-> IF f \in OnRing THEN T[f] ELSE x]
<1>1. NetInv /\ OnLine(c) /\ n \in Node /\ IsABag(line) /\ sequenceNum[n] \in Nat
  BY DEF ServiceInv, NetInv, OnLine
<1>2. /\ line' = line (-) SetToBag({c}) /\ sendList' = sendList
      /\ sequenceNum' = IF c.gate = "C" THEN [sequenceNum EXCEPT ![n] = @ + 1] ELSE sequenceNum
  BY <1>1, RingTags, FrameHandled
<1>3. BagToSet(line') = IF line[c] = 1 THEN BagToSet(line) \ {c} ELSE BagToSet(line)
  BY <1>1, <1>2, BagRemoval
<1>4. /\ h \in TaggedFrame /\ h.src = c.frame.src /\ k \in UntaggedFrame
      /\ c.gate = "C" => h.seq = sequenceNum[n] /\ k = c.frame
      /\ c.gate # "C" => h = c.frame
  BY <1>1, TaggingIsAll
<1>5. /\ Numbering(OnRing, T)
      /\ \A f \in OnRing : T[f].source = f.src /\ T[f].sequencenumber < sequenceNum[f.src]
  BY DEF TagInv
<1>6. CASE c.gate # "C"
  <2>1. CopyOf(OnRing, T, h)
    BY <1>4, <1>6 DEF TagInv
  <2>2. FromCpus' = FromCpus
    BY <1>3, <1>6 DEF FromCpus
  <2>3. OnRing' = OnRing /\ k \in OnRing
    BY <1>2, <2>1, <2>2 DEF OnRing, CopyOf
  <2>4. h \in Copies
    BY <1>4, <1>6, CopiesBefore
  <2> QED
    BY <1>2, <1>4, <1>5, <1>6, <2>1, <2>3, <2>4
<1>7. CASE c.gate = "C"
  <2>1. c \in FromCpus /\ line[c] = 1 /\ k \in sendList /\ k = c.frame
    BY <1>4, <1>7 DEF FromCpus, ServiceInv, SentInv
  <2>2. FromCpus' = FromCpus \ {c}
    BY <1>3, <1>7, <2>1 DEF FromCpus
  <2>3. \A d \in FromCpus : d = At(d.frame.src, "C", d.frame) /\ d.node = d.frame.src
    BY <1>1, CopiesAreTagged
  <2>4. OnRing' = OnRing \cup {k} /\ k \notin OnRing /\ k.src = n
    BY <1>2, <2>1, <2>2, <2>3 DEF OnRing
  <2>5. \A m \in Node : /\ sequenceNum[m] \in Nat
                        /\ sequenceNum'[m] = IF m = n THEN sequenceNum[m] + 1 ELSE sequenceNum[m]
    BY <1>1, <1>2, <1>7 DEF NetInv
  <2>6. asShort(h.seq) = asUnsigned(h.seq) /\ asUnsigned(h.seq) = sequenceNum[n]
    <3>1. 2 * (sequenceNum[n] + 1) <= SeqModulus
      BY <1>1, <2>5 DEF FewFrames
    <3>2. SeqModulus \in Nat \ {0}
      BY EtherMacAssumption
    <3>3. sequenceNum[n] % SeqModulus = sequenceNum[n]
      BY <1>1, <3>1, <3>2
    <3>4. 2 * (h.seq % SeqModulus) < SeqModulus
      BY <1>1, <1>4, <1>7, <3>1, <3>2, <3>3
    <3> QED
      BY <1>4, <1>7, <3>3, <3>4 DEF asShort, asUnsigned
  <2>7. x \in Item /\ x.source = n /\ x.sequencenumber = sequenceNum[n]
    BY <1>4, <2>1, <2>4, <2>6, TaggedFrameParts
  <2>8. \A f \in OnRing : T[f] # x
    BY <1>1, <1>5, <2>5, <2>7
  <2> HIDE DEF x
  <2>9. \A f \in OnRing' : U[f] = IF f = k THEN x ELSE T[f]
    BY <2>4
  <2>10. U \in [OnRing' -> Item]
    BY <1>5, <2>4, <2>7 DEF Numbering
  <2> HIDE DEF U
  <2>11. IsFiniteSet(OnRing') /\ Cardinality(OnRing') <= ListSize
    <3>1. OnRing' \in SUBSET sendList
      BY <1>2 DEF OnRing
    <3>2. IsFiniteSet(sendList) /\ Cardinality(sendList) <= ListSize
      BY FewOnRing
    <3>3. IsFiniteSet(OnRing') /\ Cardinality(OnRing') <= Cardinality(sendList)
      BY <3>1, <3>2, FS_Subset
    <3>4. Cardinality(OnRing') \in Nat /\ Cardinality(sendList) \in Nat /\ ListSize \in Nat
      BY <3>2, <3>3, FS_CardinalityType, EtherMacAssumption
    <3> QED
      BY <3>2, <3>3, <3>4
  <2>12. Numbering(OnRing', U)
    <3>1. OnRing' \subseteq UntaggedFrame
      BY <1>4, <1>5, <2>4 DEF Numbering
    <3>2. \A f, g \in OnRing' : U[f] = U[g] => f = g
      BY <1>5, <2>4, <2>8, <2>9 DEF Numbering
    <3> QED
      BY <2>10, <2>11, <3>1, <3>2 DEF Numbering
  <2>13. CopyOf(OnRing', U, h)
    BY <1>4, <2>4, <2>6, <2>9 DEF CopyOf, x
  <2>14. \A f \in OnRing' : U[f].source = f.src /\ U[f].sequencenumber < sequenceNum'[f.src]
    <3>1. \A f \in OnRing : f.src \in Node /\ T[f].sequencenumber \in Nat
      BY <1>5 DEF Numbering, UntaggedFrame, ForAnother, Item
    <3>2. ASSUME NEW f \in OnRing
          PROVE  T[f].sequencenumber < sequenceNum'[f.src]
      BY <1>5, <2>5, <3>1
    <3> QED
      BY <1>1, <1>5, <2>4, <2>5, <2>7, <2>9, <3>2
  <2>15. \A f \in OnRing : U[f] = T[f]
    BY <2>4, <2>9
  <2> QED
    BY <1>7, <2>4, <2>12, <2>13, <2>14, <2>15
<1> QED
  BY <1>6, <1>7

(* The ports that drop the frame because their queues are full. *)
Dropping(c, h) == {p \in Takers(c, h) : QueueFull(mac[c.node][p])}

LEMMA DroppedIsLost ==
  ASSUME OneRing, NetInv, NEW L, LostInv(L), NEW c \in BagToSet(line),
         handleMessage(c.node, c.gate, c.frame), NEW h, h = AsTagged(c.node, c.gate, c.frame),
         NEW K, K = L \cup {<<Untagged(h), p>> : p \in Dropping(c, h)}
  PROVE  LostInv(K)'
<1> DEFINE F == Dropping(c, h)
           g == [p \in F |-> <<Untagged(h), p>>]
           M == {<<Untagged(h), p>> : p \in F}
<1>1. F \subseteq Way /\ lost' = lost + Cardinality(F)
  BY RingHandled DEF Dropping
<1>2. lost \in Nat /\ IsFiniteSet(L) /\ Cardinality(L) <= lost
  BY DEF LostInv
<1>3. IsFiniteSet(Way)
  <2>1. Way = {"A"} \cup {"B"}
    BY DEF Way
  <2>2. IsFiniteSet({"A"}) /\ IsFiniteSet({"B"})
    BY FS_Singleton
  <2> QED
    BY <2>1, <2>2, FS_Union
<1>4. IsFiniteSet(F) /\ Cardinality(F) \in Nat
  BY <1>1, <1>3, FS_Subset, FS_CardinalityType
<1> HIDE DEF F
<1>5. g \in Surjection(F, M)
  BY DEF Surjection
<1> HIDE DEF g, M
<1>6. IsFiniteSet(M) /\ Cardinality(M) <= Cardinality(F)
  BY <1>4, <1>5, FS_Surjection
<1>7. /\ IsFiniteSet(L \cup M)
      /\ Cardinality(L \cup M) = Cardinality(L) + Cardinality(M) - Cardinality(L \cap M)
  BY <1>2, <1>6, FS_Union
<1>8. IsFiniteSet(L \cap M)
  BY <1>2, FS_Subset
<1>9. /\ Cardinality(L) \in Nat /\ Cardinality(M) \in Nat /\ Cardinality(L \cap M) \in Nat
      /\ Cardinality(L \cup M) \in Nat
  BY <1>2, <1>6, <1>7, <1>8, FS_CardinalityType
<1>10. Cardinality(L \cup M) <= lost'
  BY <1>1, <1>2, <1>4, <1>6, <1>7, <1>9
<1>11. lost' \in Nat
  BY <1>1, <1>2, <1>4
<1>12. K = L \cup M
  BY DEF M, F
<1> QED
  BY <1>7, <1>10, <1>11, <1>12 DEF LostInv

LEMMA HandlingKeepsWays ==
  ASSUME OneRing, ServiceInv, FewFrames, FewFrames', NEW T, NEW L, TagInv(T), LostInv(L),
         WayInv(T, L), NEW c \in BagToSet(line), handleMessage(c.node, c.gate, c.frame)
  PROVE  \E U, K : TagInv(U)' /\ LostInv(K)' /\ WayInv(U, K)'
<1>1. NetInv /\ OnLine(c) /\ IsABag(line)
  BY DEF ServiceInv, NetInv
<1>2. PICK h : h = AsTagged(c.node, c.gate, c.frame)
  OBVIOUS
<1>3. PICK U :
        /\ OnRing' = OnRing \cup {Untagged(h)}
        /\ c.gate # "C" => Untagged(h) \in OnRing /\ h = c.frame /\ h \in Copies
        /\ c.gate = "C" => Untagged(h).src = c.node
        /\ \A f \in OnRing : U[f] = T[f]
        /\ Numbering(OnRing', U)
        /\ CopyOf(OnRing', U, h)
        /\ \A f \in OnRing' : U[f].source = f.src /\ U[f].sequencenumber < sequenceNum'[f.src]
  BY <1>2, OneMoreTag
<1>4. PICK K : K = L \cup {<<Untagged(h), p>> : p \in Dropping(c, h)}
  OBVIOUS
<1>5. PICK k : k = Untagged(h)
  OBVIOUS
<1>6. LostInv(K)'
  BY <1>1, <1>2, <1>4, DroppedIsLost
<1>7. /\ c.node \in Node /\ Takers(c, h) \subseteq Way
      /\ \A p \in Takers(c, h) : h.dest # c.node
      /\ \A m \in Node, p \in Way :
           mac'[m][p] = IF m = c.node /\ p \in Takers(c, h)
                          THEN processFrameFromUpperLayer(mac[m][p], m, h) ELSE mac[m][p]
      /\ c.gate # "C" /\ Mine(c.node, h) /\ checkFrame(cpuList[c.node], h) = "new" =>
           [cpu |-> c.node, frame |-> Untagged(h)] \in BagToSet(recvList')
  <2>1. /\ c.node \in Node /\ Takers(c, h) \subseteq Way
        /\ \A p \in Takers(c, h) : h.dest # c.node
    BY <1>1, <1>2, RingHandled
  <2>2. Gives(c, h)
    BY <1>1, <1>2, RingHandled
  <2>3. c.gate # "C" /\ Mine(c.node, h) /\ checkFrame(cpuList[c.node], h) = "new" =>
          [cpu |-> c.node, frame |-> Untagged(h)] \in BagToSet(recvList')
    BY <1>1, <1>2, RingHandled
  <2> QED
    BY <2>1, <2>2, <2>3 DEF Gives
<1>8. /\ line' = line (-) SetToBag({c})
      /\ \/ cpuList' = cpuList /\ recvList' = recvList
         \/ /\ c.gate # "C" /\ Mine(c.node, h) /\ checkFrame(cpuList[c.node], h) = "new"
            /\ cpuList' = [cpuList EXCEPT ![c.node] = addMessage(@, h)]
            /\ recvList' = recvList (+) SetToBag({[cpu |-> c.node, frame |-> Untagged(h)]})
  BY <1>1, <1>2, RingTags, FrameHandled
<1>9. BagToSet(line') = IF line[c] = 1 THEN BagToSet(line) \ {c} ELSE BagToSet(line)
  BY <1>1, <1>8, BagRemoval
<1>10. BagToSet(recvList) \subseteq BagToSet(recvList')
  <2>1. IsABag(recvList)
    BY <1>1 DEF NetInv
  <2>2. \A e : BagToSet(recvList) \subseteq BagToSet(recvList (+) SetToBag({e}))
    BY <2>1, BagAddition
  <2> QED
    BY <1>8, <2>2
<1>11. /\ \A m \in Node, p \in Way : InterfaceInv(mac[m][p]) /\ InterfaceOf(OnRing, T, mac[m][p])
       /\ OnRing \subseteq OnRing'
  BY <1>1, <1>3, RingMac DEF TagInv
<1>12. \A m \in Node, p \in Way : InterfaceOf(OnRing', U, mac[m][p])
  BY <1>3, <1>11, MoreTags
<1>13. ASSUME NEW m \in Node, NEW p \in Way
       PROVE  /\ InterfaceOf(OnRing', U, mac'[m][p])
              /\ Keeps(OnRing', U, mac[m][p], mac'[m][p])
              /\ \A f \in OnRing' : Sending(mac[m][p], f) => Sending(mac'[m][p], f)
              /\ m = c.node /\ p \in Takers(c, h) /\ <<k, p>> \notin K => Has(U, mac'[m][p], k)
  <2>1. CASE m = c.node /\ p \in Takers(c, h) /\ ~ QueueFull(mac[m][p])
    <3>1. mac'[m][p] = processFrameFromUpperLayer(mac[m][p], m, h) /\ h.dest # m
      BY <1>7, <2>1
    <3>2. InterfaceInv(mac[m][p]) /\ InterfaceOf(OnRing', U, mac[m][p])
      BY <1>11, <1>12
    <3> QED
      BY <1>3, <1>5, <2>1, <3>1, <3>2, SendingForgetsNothing
  <2>2. CASE m = c.node /\ p \in Takers(c, h) /\ QueueFull(mac[m][p])
    <3>1. mac'[m][p] = processFrameFromUpperLayer(mac[m][p], m, h) /\ h.dest # m
      BY <1>7, <2>2
    <3>2. mac'[m][p] = mac[m][p]
      BY <2>2, <3>1 DEF processFrameFromUpperLayer
    <3>3. <<k, p>> \in K
      BY <1>4, <1>5, <2>2 DEF Dropping
    <3> QED
      BY <1>12, <3>2, <3>3, KeepsItself
  <2>3. CASE ~ (m = c.node /\ p \in Takers(c, h))
    <3>1. mac'[m][p] = mac[m][p]
      BY <1>7, <2>3
    <3> QED
      BY <1>12, <2>3, <3>1, KeepsItself
  <2> QED
    BY <2>1, <2>2, <2>3
<1>14. TagInv(U)'
  <2>1. \A d \in BagToSet(line') : d.gate # "C" => CopyOf(OnRing', U, d.frame)
    <3>1. \A d \in BagToSet(line) : d.gate # "C" => CopyOf(OnRing, T, d.frame)
      BY DEF TagInv
    <3> QED
      BY <1>3, <1>9, <1>11, <3>1, MoreTags
  <2>2. ASSUME NEW n \in Node, NEW i \in DOMAIN cpuList'[n].entries
        PROVE  \E f \in OnRing' : cpuList'[n].entries[i] = U[f] /\ Heard(f, n)'
    <3>1. ASSUME NEW j \in DOMAIN cpuList[n].entries, cpuList'[n].entries[i] = cpuList[n].entries[j]
          PROVE  \E f \in OnRing' : cpuList'[n].entries[i] = U[f] /\ Heard(f, n)'
      <4>1. PICK f \in OnRing : cpuList[n].entries[j] = T[f] /\ Heard(f, n)
        BY DEF TagInv
      <4>2. Heard(f, n)'
        BY <1>10, <4>1 DEF Heard
      <4> QED
        BY <1>3, <3>1, <4>1, <4>2
    <3>2. CASE cpuList' = cpuList
      BY <3>1, <3>2
    <3>3. CASE /\ c.gate # "C" /\ Mine(c.node, h) /\ checkFrame(cpuList[c.node], h) = "new"
               /\ cpuList' = [cpuList EXCEPT ![c.node] = addMessage(@, h)]
      <4> DEFINE s == cpuList[c.node].entries
                 t == addMessage(cpuList[c.node], h).entries
      <4>1. h \in Copies /\ k \in OnRing /\ h \in TaggedFrame /\ ListItemData(h) = U[k]
        BY <1>3, <1>5, <3>3 DEF CopyOf
      <4>2. Len(s) < ListSize
        BY <1>7, <3>3, <4>1, NewIsNew
      <4>3. ListInv(cpuList[c.node])
        BY <1>1, <1>7 DEF NetInv
      <4>4. /\ Len(t) = Len(s) + 1 /\ t[1] = U[k] /\ \A j \in DOMAIN s : t[j + 1] = s[j]
            /\ s \in Seq(Item) /\ t \in Seq(Item)
        BY <4>1, <4>2, <4>3, AddingKeepsTheList DEF ListInv
      <4>5. cpuList'[n].entries = IF n = c.node THEN t ELSE cpuList[n].entries
        BY <1>1, <3>3 DEF NetInv
      <4> HIDE DEF s, t
      <4>6. CASE n # c.node
        BY <3>1, <4>5, <4>6
      <4>7. CASE n = c.node /\ i = 1
        <5>1. Heard(k, n)'
          BY <1>5, <1>7, <3>3, <4>7 DEF Heard
        <5> QED
          BY <1>11, <4>1, <4>4, <4>5, <4>7, <5>1
      <4>8. CASE n = c.node /\ i # 1
        <5>1. i \in DOMAIN t
          BY <4>5, <4>8
        <5>2. i - 1 \in DOMAIN s /\ t[(i - 1) + 1] = s[i - 1] /\ (i - 1) + 1 = i
          BY <4>4, <4>8, <5>1
        <5>3. cpuList'[n].entries[i] = cpuList[n].entries[i - 1] /\ i - 1 \in DOMAIN cpuList[n].entries
          BY <4>5, <4>8, <5>2 DEF s
        <5> QED
          BY <3>1, <5>3
      <4> QED
        BY <4>6, <4>7, <4>8
    <3> QED
      BY <1>8, <3>2, <3>3
  <2> QED
    BY <1>3, <1>13, <2>1, <2>2 DEF TagInv
<1>15. ASSUME NEW f \in OnRing' \ OnRing, NEW p \in Way, <<f, p>> \notin K
       PROVE  Has(U, mac'[f.src][p], f)
  <2>1. f = k /\ c.gate = "C" /\ f.src = c.node
    BY <1>3, <1>5, <1>15
  <2>2. p \in Takers(c, h)
    BY <2>1 DEF Takers
  <2> QED
    BY <1>7, <1>13, <1>15, <2>1, <2>2
<1>16. ASSUME NEW f \in OnRing, NEW n \in Node, NEW p \in Way, <<f, p>> \notin K,
              OnTheLine(f, n, p)
       PROVE  OnTheLine(f, n, p)' \/ Passed(U, f, n, p)'
  <2>1. PICK d \in BagToSet(line) : d.node = n /\ d.gate = Opposite(p) /\ Untagged(d.frame) = f
    BY <1>16 DEF OnTheLine
  <2>2. CASE d # c
    <3>1. d \in BagToSet(line')
      BY <1>9, <2>2
    <3> QED
      BY <2>1, <3>1 DEF OnTheLine
  <2>3. CASE d = c
    <3>1. /\ c.node = n /\ c.gate = Opposite(p) /\ c.gate # "C"
          /\ Opposite(c.gate) = p
      BY <2>1, <2>3, RingParts DEF Opposite
    <3>2. h = c.frame /\ k = f /\ f.src = h.src /\ f.dest = h.dest
      <4>1. h = c.frame /\ k = f
        BY <1>3, <1>5, <2>1, <2>3, <3>1
      <4>2. Untagged(h).src = h.src /\ Untagged(h).dest = h.dest
        BY DEF Untagged, Retag, decapsulateMessage, generateEthMessage, createETHTag,
               createDataMessage, dataMessage
      <4> QED
        BY <1>5, <4>1, <4>2
    <3>3. ASSUME n \in Audience(f)
          PROVE  Heard(f, n)'
      <4>1. Mine(n, h)
        BY <3>2, <3>3 DEF Audience, Mine
      <4>2. CASE checkFrame(cpuList[n], h) = "new"
        BY <1>5, <1>7, <3>1, <3>2, <4>1, <4>2 DEF Heard
      <4>3. CASE checkFrame(cpuList[n], h) # "new"
        <5>1. CopyOf(OnRing, T, h)
          BY <2>3, <3>1, <3>2 DEF TagInv
        <5>2. ListInv(cpuList[n])
          BY <1>1 DEF NetInv
        <5>3. Lists(cpuList[n], T[f])
          BY <1>5, <3>2, <4>3, <5>1, <5>2, KnownIsListed
        <5>4. PICK i \in DOMAIN cpuList[n].entries : cpuList[n].entries[i] = T[f]
          BY <5>3 DEF Lists
        <5>5. PICK g \in OnRing : T[f] = T[g] /\ Heard(g, n)
          BY <5>4 DEF TagInv
        <5>6. g = f
          BY <5>5 DEF TagInv, Numbering
        <5> QED
          BY <1>10, <5>5, <5>6 DEF Heard
      <4> QED
        BY <4>2, <4>3
    <3>4. ASSUME n # f.dest
          PROVE  Has(U, mac'[n][p], f)
      <4>1. p \in Takers(c, h)
        BY <3>1, <3>2, <3>4 DEF Takers
      <4> QED
        BY <1>13, <1>16, <3>1, <3>2, <4>1
    <3>5. \A m : Audience(m)' = Audience(m)
      BY DEF Audience
    <3> QED
      BY <3>3, <3>4, <3>5 DEF Passed
  <2> QED
    BY <2>2, <2>3
<1>17. WayInv(U, K)'
  <2>1. L \subseteq K
    BY <1>4
  <2>2. \A m \in Node, p \in Way : Keeps(OnRing', U, mac[m][p], mac'[m][p])
    BY <1>13
  <2>3. \A f \in OnRing, n \in Node, p \in Way : Sending(mac[n][p], f) => Sending(mac'[n][p], f)
    BY <1>11, <1>13
  <2> QED
    BY <1>3, <1>10, <1>11, <1>15, <1>16, <2>1, <2>2, <2>3, WaysGoOn
<1> QED
  BY <1>6, <1>14, <1>17

-----------------------------------------------------------------------------
(* LossInv is an invariant on a ring, and all is heard when it comes to    *)
(* rest.                                                                   *)

LEMMA InitWays ==
  ASSUME OneRing, PatternsAreAccepted, Init
  PROVE  LossInv
<1> DEFINE T == [f \in {} |-> f]
<1>1. ServiceInv
  BY RingTags, InitService
<1>2. BagToSet(line) = {}
  BY EmptyBags DEF Init
<1>3. OnRing = {}
  BY DEF OnRing, Init
<1>4. TagInv(T)
  <2>1. Numbering({}, T)
    <3>1. IsFiniteSet({}) /\ Cardinality({}) = 0
      BY FS_EmptySet
    <3>2. ListSize \in Nat
      BY EtherMacAssumption
    <3> QED
      BY <3>1, <3>2 DEF Numbering
  <2>2. ASSUME NEW n \in Node, NEW p \in Way
        PROVE  InterfaceOf({}, T, mac[n][p])
    <3>1. mac[n][p] = initialize
      BY RingParts DEF Init
    <3>2. /\ initialize.txQueue = <<>> /\ initialize.transmitState = "TX_IDLE"
          /\ initialize.list.entries = <<>>
      BY DEF initialize, emptyList
    <3>3. QueueOf(initialize) = {}
      BY <3>2 DEF QueueOf
    <3> HIDE DEF T
    <3> QED
      BY <3>1, <3>2, <3>3 DEF InterfaceOf, ListOf, Sending
  <2>3. \A n \in Node : DOMAIN cpuList[n].entries = {}
    BY DEF Init, emptyList
  <2> HIDE DEF T
  <2> QED
    BY <1>2, <1>3, <2>1, <2>2, <2>3 DEF TagInv
<1>5. LostInv({})
  BY FS_EmptySet DEF LostInv, Init
<1>6. WayInv(T, {})
  BY <1>3 DEF WayInv
<1> HIDE DEF T
<1> QED
  BY <1>1, <1>4, <1>5, <1>6 DEF LossInv

LEMMA NextKeepsWays ==
  ASSUME OneRing, LossInv, FewFrames, FewFrames', [Next]_vars
  PROVE  LossInv'
<1>1. ServiceInv /\ NetInv
  BY DEF LossInv, ServiceInv
<1>2. PICK T, L : TagInv(T) /\ LostInv(L) /\ WayInv(T, L)
  BY DEF LossInv
<1>3. ServiceInv'
  BY <1>1, RingTags, NextKeepsService
<1>4. ASSUME NEW i \in Interface
      PROVE  i[1] \in Node /\ i[2] \in Way
  <2>1. i[1] \in Node /\ i[2] \in Port(i[1])
    BY InterfaceParts
  <2>2. "A" \in Way
    BY DEF Way
  <2> QED
    BY <2>1, <2>2, RingParts
<1>5. \E U, K : TagInv(U)' /\ LostInv(K)' /\ WayInv(U, K)'
  <2>1. CASE \E m \in pending : \E now \in {m.data.startTime, m.data.stopTime} :
               SelfMessage(m, now)
    BY <1>1, <1>2, <2>1, CpuKeepsWays
  <2>2. CASE \E c \in BagToSet(line) : handleMessage(c.node, c.gate, c.frame)
    BY <1>1, <1>2, <2>2, HandlingKeepsWays
  <2>3. CASE \E i \in Interface : EndTx(i[1], i[2])
    BY <1>1, <1>2, <1>4, <2>3, EndTxKeepsWays
  <2>4. CASE \E i \in Interface : EndIFG(i[1], i[2])
    BY <1>1, <1>2, <1>4, <2>4, EndIFGKeepsWays
  <2>5. CASE \E c \in BagToSet(line) : BitError(c.node, c.gate, c.frame)
    BY <1>1, <1>2, <2>5, BitErrorKeepsWays
  <2>6. CASE finish \/ UNCHANGED vars
    <3>1. UNCHANGED <<sequenceNum, line, mac, cpuList, sendList, recvList, lost>>
      BY <2>6 DEF finish, vars
    <3>2. OnRing' = OnRing
      BY <3>1 DEF OnRing, FromCpus
    <3> QED
      BY <1>2, <3>1, <3>2, RestOfTheStep
  <2> QED
    BY <2>1, <2>2, <2>3, <2>4, <2>5, <2>6 DEF Next, Work
<1> QED
  BY <1>3, <1>5 DEF LossInv

(* The j-th node after n on the way p. *)
Along(N, n, p, j) ==
  IF p = "A" THEN IF n + j < N THEN n + j ELSE n + j - N
             ELSE IF n - j >= 0 THEN n - j ELSE n - j + N

(* The way p leads from n to every node, and to none twice. *)
GoesRound(N, n, p) ==
  /\ Along(N, n, p, 0) = n
  /\ \A j \in 0 .. N - 1 : Along(N, n, p, j) \in Node
  /\ \A j \in 0 .. N - 2 : Beyond(Along(N, n, p, j), p) = Along(N, n, p, j + 1)
  /\ \A i, j \in 0 .. N - 1 : Along(N, n, p, i) = Along(N, n, p, j) => i = j
  /\ \A m \in Node : \E j \in 0 .. N - 1 : m = Along(N, n, p, j)

LEMMA AlongTheRing ==
  ASSUME OneRing, NEW N \in Nat, RingOf(N), NEW n \in Node, NEW p \in Way
  PROVE  GoesRound(N, n, p)
<1>1. N >= 2 /\ Node = 0 .. N - 1 /\ n \in 0 .. N - 1
  BY DEF RingOf
<1>2. \A m \in Node : Beyond(m, p) = IF p = "A" THEN IF m = N - 1 THEN 0 ELSE m + 1
                                     ELSE IF m = 0 THEN N - 1 ELSE m - 1
  <2> SUFFICES ASSUME NEW m \in Node
               PROVE  Beyond(m, p) = IF p = "A" THEN IF m = N - 1 THEN 0 ELSE m + 1
                                     ELSE IF m = 0 THEN N - 1 ELSE m - 1
    OBVIOUS
  <2>1. CASE p = "A"
    <3>1. Peer[<<m, p>>] = <<IF m = N - 1 THEN 0 ELSE m + 1, "B">>
      BY <2>1 DEF RingOf
    <3> QED
      BY <2>1, <3>1 DEF Beyond
  <2>2. CASE p = "B"
    <3>1. Peer[<<m, p>>] = <<IF m = 0 THEN N - 1 ELSE m - 1, "A">>
      BY <2>2 DEF RingOf
    <3> QED
      BY <2>2, <3>1 DEF Beyond
  <2> QED
    BY <2>1, <2>2 DEF Way
<1>3. ASSUME NEW j \in 0 .. N - 1
      PROVE  Along(N, n, p, j) \in Node
  BY <1>1 DEF Along
<1>4. ASSUME NEW j \in 0 .. N - 2
      PROVE  Beyond(Along(N, n, p, j), p) = Along(N, n, p, j + 1)
  <2>1. Along(N, n, p, j) \in Node
    BY <1>1, <1>3
  <2> QED
    BY <1>1, <1>2, <2>1 DEF Along
<1>5. ASSUME NEW i \in 0 .. N - 1, NEW j \in 0 .. N - 1, Along(N, n, p, i) = Along(N, n, p, j)
      PROVE  i = j
  BY <1>1, <1>5 DEF Along
<1>6. ASSUME NEW m \in Node
      PROVE  \E j \in 0 .. N - 1 : m = Along(N, n, p, j)
  <2> DEFINE ahead == IF p = "A" THEN m - n ELSE n - m
             j == IF ahead >= 0 THEN ahead ELSE ahead + N
  <2>1. j \in 0 .. N - 1 /\ m = Along(N, n, p, j)
    BY <1>1 DEF Along
  <2> QED
    BY <2>1
<1> QED
  BY <1>1, <1>3, <1>4, <1>5, <1>6 DEF GoesRound, Along

(* At rest the copy that was not lost has passed everyone it is for. *)
LEMMA MaskedAtRest ==
  ASSUME OneRing, LossInv
  PROVE  OneLossIsMasked
<1> SUFFICES ASSUME Quiet, lost <= 1, NEW f \in sendList, NEW n \in Audience(f)
             PROVE  Heard(f, n)
  BY DEF OneLossIsMasked, Heard, BagIn, BagToSet
<1>1. PICK T, L : TagInv(T) /\ LostInv(L) /\ WayInv(T, L)
  BY DEF LossInv
<1>2. f \in OnRing /\ f.src \in Node /\ n \in Node /\ f.dest \in {n, Group} /\ f.src # n
  <2>1. BagToSet(line) = {}
    BY DEF Quiet
  <2>2. f \in OnRing
    BY <2>1 DEF OnRing, FromCpus
  <2>3. f \in UntaggedFrame
    BY DEF LossInv, ServiceInv, SentInv
  <2> QED
    BY <2>2, <2>3 DEF UntaggedFrame, ForAnother, Audience, Mine
<1>3. ASSUME NEW m \in Node, NEW p \in Way
      PROVE  ~ Sending(mac[m][p], f) /\ ~ Queues(mac[m][p], f) /\ ~ OnTheLine(f, m, p)
  <2>1. mac[m][p].transmitState = "TX_IDLE"
    <3>1. <<m, p>> \in Interface
      BY RingParts
    <3> QED
      BY <3>1 DEF Quiet
  <2>2. mac[m][p].txQueue = <<>>
    BY <1>1, <2>1 DEF TagInv, InterfaceOf
  <2>3. QueueOf(mac[m][p]) = {}
    BY <2>2 DEF QueueOf
  <2> QED
    BY <2>1, <2>3 DEF Sending, Queues, OnTheLine, Quiet
<1>4. PICK p \in Way : <<f, p>> \notin L
  <2>1. ASSUME <<f, "A">> \in L, <<f, "B">> \in L
        PROVE  FALSE
    <3> DEFINE M == {<<f, "A">>} \cup {<<f, "B">>}
    <3>1. <<f, "A">> # <<f, "B">>
      OBVIOUS
    <3>2. IsFiniteSet({<<f, "A">>}) /\ Cardinality({<<f, "A">>}) = 1
      BY FS_Singleton
    <3>3. <<f, "B">> \notin {<<f, "A">>}
      BY <3>1
    <3>4. Cardinality(M) = 2
      <4>1. Cardinality(M) = Cardinality({<<f, "A">>}) + 1
        BY <3>2, <3>3, FS_AddElement
      <4> HIDE DEF M
      <4> QED
        BY <3>2, <4>1
    <3>5. M \in SUBSET L
      BY <2>1
    <3> HIDE DEF M
    <3>6. Cardinality(M) <= Cardinality(L) /\ IsFiniteSet(L)
      BY <1>1, <3>5, FS_Subset DEF LostInv
    <3>7. Cardinality(L) \in Nat
      BY <3>6, FS_CardinalityType
    <3> QED
      BY <1>1, <3>4, <3>6, <3>7 DEF LostInv
  <2> QED
    BY <2>1 DEF Way
<1>5. Lists(mac[f.src][p].list, T[f])
  BY <1>1, <1>2, <1>3, <1>4 DEF WayInv, Has
<1>6. ASSUME NEW m \in Node, Lists(mac[m][p].list, T[f])
      PROVE  Passed(T, f, Beyond(m, p), p)
  <2>1. Beyond(m, p) \in Node
    BY RingParts
  <2> QED
    BY <1>1, <1>2, <1>3, <1>4, <1>6, <2>1 DEF WayInv
<1>7. PICK N \in Nat : RingOf(N)
  BY DEF OneRing
<1>8. /\ N >= 2 /\ Along(N, f.src, p, 0) = f.src
      /\ \A j \in 0 .. N - 1 : Along(N, f.src, p, j) \in Node
      /\ \A j \in 0 .. N - 2 :
           Beyond(Along(N, f.src, p, j), p) = Along(N, f.src, p, j + 1)
      /\ \A i, j \in 0 .. N - 1 : Along(N, f.src, p, i) = Along(N, f.src, p, j) => i = j
      /\ \A m \in Node : \E j \in 0 .. N - 1 : m = Along(N, f.src, p, j)
  <2>1. N >= 2
    BY <1>7 DEF RingOf
  <2>2. GoesRound(N, f.src, p)
    BY <1>2, <1>7, AlongTheRing
  <2> QED
    BY <2>1, <2>2 DEF GoesRound
<1>9. PICK k \in 0 .. N - 1 : n = Along(N, f.src, p, k)
  BY <1>2, <1>8
<1>10. k \in 1 .. N - 1
  BY <1>2, <1>8, <1>9
<1>11. \A j \in 1 .. k : Passed(T, f, Along(N, f.src, p, j), p)
  <2> DEFINE S == {j \in 1 .. k : ~ Passed(T, f, Along(N, f.src, p, j), p)}
  <2> SUFFICES ASSUME S # {}
               PROVE  FALSE
    OBVIOUS
  <2>1. S \subseteq Nat
    BY <1>10
  <2>2. PICK j \in S : \A i \in S : j <= i
    BY <2>1, LeastElement
  <2>3. j \in 1 .. k /\ j - 1 \in 0 .. N - 2 /\ (j - 1) + 1 = j
    BY <1>8, <1>10, <2>2
  <2>4. Beyond(Along(N, f.src, p, j - 1), p) = Along(N, f.src, p, j) /\ Along(N, f.src, p, j - 1) \in Node
    BY <1>8, <2>3
  <2>5. CASE j = 1
    BY <1>5, <1>6, <1>8, <2>2, <2>4, <2>5
  <2>6. CASE j # 1
    <3>1. j - 1 \in 1 .. k /\ j - 1 \notin S /\ j - 1 \in 0 .. N - 1 /\ j - 1 # k /\ j - 1 # 0
      BY <2>2, <2>3, <2>6, <1>10
    <3>2. Passed(T, f, Along(N, f.src, p, j - 1), p)
      BY <3>1
    <3>3. Along(N, f.src, p, j - 1) # n /\ Along(N, f.src, p, j - 1) # f.src
      BY <1>8, <1>9, <1>10, <3>1
    <3>4. Along(N, f.src, p, j - 1) # f.dest
      <4>1. Group \notin Node
        BY <1>7 DEF Group, RingOf
      <4> QED
        BY <1>2, <2>4, <3>3, <4>1
    <3>5. Lists(mac[Along(N, f.src, p, j - 1)][p].list, T[f])
      BY <1>3, <2>4, <3>2, <3>3, <3>4 DEF Passed, Has
    <3> QED
      BY <1>6, <2>2, <2>4, <3>5
  <2> QED
    BY <2>5, <2>6
<1>12. Passed(T, f, n, p)
  BY <1>9, <1>10, <1>11
<1> QED
  BY <1>12 DEF Passed

(* On a ring of any number of end nodes, whatever the order of events: as  *)
(* long as a list need not forget a frame and no number is negative when   *)
(* it is compared, everyone has heard everything when all has come to      *)
(* rest, although one copy was lost by a bit error (ModifiedEtherMAC.cc,   *)
(* processReceivedDataFrame) or in front of a full queue.                  *)
THEOREM OneLossIsMaskedOnARing ==
  ASSUME OneRing, PatternsAreAccepted
  PROVE  Spec /\ []FewFrames => []OneLossIsMasked
<1>1. Init => LossInv
  BY InitWays
<1>2. LossInv /\ FewFrames /\ FewFrames' /\ [Next]_vars => LossInv'
  BY NextKeepsWays
<1>3. LossInv => OneLossIsMasked
  BY MaskedAtRest
<1> QED
  BY <1>1, <1>2, <1>3, PTL DEF Spec

-----------------------------------------------------------------------------
(* TestControl's account. *)

(* One step of the sum that BagCardinality is. *)
Summed(B, D) ==
  [S \in SUBSET DOMAIN B |->
     LET e == CHOOSE x \in S : TRUE
     IN IF S = {} THEN 0 ELSE B[e] + D[S \ {e}]]

LEMMA BagOfOnes ==
  ASSUME NEW B, IsFiniteSet(DOMAIN B), \A e \in DOMAIN B : B[e] = 1
  PROVE  BagCardinality(B) = Cardinality(DOMAIN B)
<1> DEFINE g == [S \in SUBSET DOMAIN B |-> Cardinality(S)]
           Rest(S) == S \ {CHOOSE x \in S : TRUE}
<1>1. /\ IsFiniteSet({}) /\ Cardinality({}) = 0
      /\ \A S \in SUBSET DOMAIN B : Cardinality(S) \in Nat
      /\ \A S \in SUBSET DOMAIN B : S # {} =>
           Rest(S) \in SUBSET DOMAIN B /\ Cardinality(S) = 1 + Cardinality(Rest(S))
  <2>1. IsFiniteSet({}) /\ Cardinality({}) = 0
    BY FS_EmptySet
  <2>2. \A S \in SUBSET DOMAIN B : IsFiniteSet(S)
    BY FS_Subset
  <2>3. \A S \in SUBSET DOMAIN B : Cardinality(S) \in Nat
    BY <2>2, FS_CardinalityType
  <2>4. ASSUME NEW S \in SUBSET DOMAIN B, S # {}
        PROVE  Rest(S) \in SUBSET DOMAIN B /\ Cardinality(S) = 1 + Cardinality(Rest(S))
    <3>1. PICK e : e = (CHOOSE x \in S : TRUE)
      OBVIOUS
    <3>2. e \in S /\ Rest(S) = S \ {e}
      BY <2>4, <3>1
    <3>3. Cardinality(S \ {e}) = Cardinality(S) - 1
      BY <2>2, <3>2, FS_RemoveElement
    <3>4. Cardinality(S) \in Nat /\ S \ {e} \in SUBSET DOMAIN B
      BY <2>3
    <3> HIDE DEF Rest
    <3> QED
      BY <3>2, <3>3, <3>4
  <2> QED
    BY <2>1, <2>3, <2>4
<1>2. \A D : Summed(B, D) = [S \in SUBSET DOMAIN B |->
                               IF S = {} THEN 0 ELSE B[CHOOSE x \in S : TRUE] + D[Rest(S)]]
  BY DEF Summed
<1>3. \A D : \A S \in SUBSET DOMAIN B :
        Summed(B, D)[S] = IF S = {} THEN 0 ELSE 1 + D[Rest(S)]
  <2> SUFFICES ASSUME NEW D, NEW S \in SUBSET DOMAIN B
               PROVE  Summed(B, D)[S] = IF S = {} THEN 0 ELSE 1 + D[Rest(S)]
    OBVIOUS
  <2>1. PICK e : e = (CHOOSE x \in S : TRUE)
    OBVIOUS
  <2>2. Summed(B, D)[S] = IF S = {} THEN 0 ELSE B[e] + D[Rest(S)]
    BY <1>2, <2>1
  <2>3. S # {} => e \in S /\ B[e] = 1
    BY <2>1
  <2> QED
    BY <2>2, <2>3
<1>4. PICK D : D = (CHOOSE x : x = Summed(B, x))
  OBVIOUS
<1>5. BagCardinality(B) = D[DOMAIN B]
  BY <1>4 DEF BagCardinality, Summed
<1> HIDE DEF Rest
<1>6. g = Summed(B, g)
  <2>1. \A S \in SUBSET DOMAIN B : g[S] = Summed(B, g)[S]
    BY <1>1, <1>3
  <2>2. g = [S \in SUBSET DOMAIN B |-> g[S]]
    OBVIOUS
  <2>3. Summed(B, g) = [S \in SUBSET DOMAIN B |-> Summed(B, g)[S]]
    BY DEF Summed
  <2> HIDE DEF g
  <2> QED
    BY <2>1, <2>2, <2>3
<1> HIDE DEF g
<1>7. D = Summed(B, D)
  BY <1>4, <1>6
<1>8. \A S \in SUBSET DOMAIN B : D[S] = Cardinality(S)
  <2> DEFINE Wrong == {S \in SUBSET DOMAIN B : D[S] # Cardinality(S)}
             C     == {Cardinality(S) : S \in Wrong}
  <2> SUFFICES ASSUME Wrong # {}
               PROVE  FALSE
    OBVIOUS
  <2>1. C \subseteq Nat /\ C # {}
    BY <1>1
  <2>2. PICK k \in C : \A i \in C : k <= i
    BY <2>1, LeastElement
  <2>3. PICK S \in Wrong : k = Cardinality(S)
    BY <2>2
  <2>4. D[S] = IF S = {} THEN 0 ELSE 1 + D[Rest(S)]
    BY <1>3, <1>7
  <2>5. CASE S = {}
    BY <1>1, <2>4, <2>5
  <2>6. CASE S # {}
    <3>1. Rest(S) \in SUBSET DOMAIN B /\ k = 1 + Cardinality(Rest(S)) /\ Cardinality(Rest(S)) \in Nat
      BY <1>1, <2>3, <2>6
    <3>2. Cardinality(Rest(S)) \notin C
      BY <2>1, <2>2, <3>1
    <3>3. D[Rest(S)] = Cardinality(Rest(S))
      BY <3>1, <3>2
    <3> QED
      BY <2>3, <2>4, <2>6, <3>1, <3>3
  <2> QED
    BY <2>5, <2>6
<1> QED
  BY <1>5, <1>8

(* Only those hear a frame that it is for. *)
AudienceInv ==
  \A r \in BagToSet(recvList) : r = [cpu |-> r.cpu, frame |-> r.frame] /\ r.cpu \in Audience(r.frame)

LEMMA OnlyTheAudienceHears ==
  ASSUME TagsAreKept, ServiceInv, FewFrames, AudienceInv, [Next]_vars
  PROVE  AudienceInv'
<1>1. \A f : Audience(f)' = Audience(f)
  BY DEF Audience
<1>2. CASE recvList' = recvList
  BY <1>1, <1>2 DEF AudienceInv
<1>3. ASSUME NEW n, NEW h, Hears(n, h)
      PROVE  AudienceInv'
  <2> DEFINE e == [cpu |-> n, frame |-> Untagged(h)]
  <2>1. n \in Audience(Untagged(h))
    BY <1>3, HearingKeepsService
  <2>2. e = [cpu |-> e.cpu, frame |-> e.frame] /\ e.cpu \in Audience(e.frame)
    BY <2>1
  <2>3. recvList' = recvList (+) SetToBag({e}) /\ IsABag(recvList)
    BY <1>3 DEF Hears, ServiceInv, NetInv
  <2> HIDE DEF e
  <2>4. BagToSet(recvList') = BagToSet(recvList) \cup {e}
    BY <2>3, BagAddition
  <2> QED
    BY <1>1, <2>2, <2>4 DEF AudienceInv
<1>4. \/ \E f : Makes(f)
      \/ \E c, h : Tags(c, h)
      \/ Moves /\ UNCHANGED <<cpuList, recvList>>
      \/ \E n, h : Hears(n, h)
  BY StepsOfTheNetwork DEF ServiceInv
<1> QED
  BY <1>2, <1>3, <1>4 DEF Makes, Tags

(* What finish counts: an entry of recvList for each frame and processor   *)
(* it looks for, and for no loss a frame at each.                          *)
LEMMA FinishCounts ==
  ASSUME OneRing, LossInv, FewFrames, AudienceInv, finish
  PROVE  AccountIsTrue'
<1> DEFINE pairs == {q \in sendList \X Node : Searched(q[1], q[2])}
           hits  == {q \in pairs : Received(q[1], q[2])}
           M     == BagToSet(recvList)
           Entry(q) == [cpu |-> q[2], frame |-> q[1]]
<1>1. /\ numFrames' = [OK   |-> Cardinality(hits),
                       FAIL |-> Cardinality(pairs) - Cardinality(hits),
                       DUP  |-> BagCardinality(recvList) - Cardinality(hits)]
      /\ recvList' = recvList /\ lost' = lost /\ Quiet
  BY DEF finish
<1>2. /\ \A r \in M : r.cpu \in Node /\ r.frame \in sendList /\ recvList[r] = 1
      /\ \A r \in M : r = [cpu |-> r.cpu, frame |-> r.frame] /\ r.cpu \in Audience(r.frame)
      /\ \A s \in sendList : s \in UntaggedFrame
      /\ \A s, t \in sendList : s.counter = t.counter => s = t
  BY DEF LossInv, ServiceInv, HeardInv, SentInv, AudienceInv
<1>3. \A s \in sendList, c \in Node : Received(s, c) <=> [cpu |-> c, frame |-> s] \in M
  <2>1. \A s \in sendList, c \in Node : Received(s, c) => [cpu |-> c, frame |-> s] \in M
    BY <1>2 DEF Received, mdCompare
  <2>2. ASSUME NEW s \in sendList, NEW c \in Node, [cpu |-> c, frame |-> s] \in M
        PROVE  Received(s, c)
    <3>1. PICK r \in M : r.cpu = c /\ r.frame = s
      BY <2>2
    <3> QED
      BY <3>1 DEF Received, mdCompare
  <2> QED
    BY <2>1, <2>2
<1>4. \A s \in sendList, c \in Node : Searched(s, c) <=> c \in Audience(s)
  BY <1>2 DEF Searched, Audience, Mine, UntaggedFrame, ForAnother
<1>5. IsFiniteSet(pairs) /\ IsFiniteSet(hits)
  <2>1. IsFiniteSet(sendList)
    BY FewOnRing DEF LossInv
  <2>2. IsFiniteSet(Node)
    <3>1. PICK N \in Nat : Node = 0 .. N - 1
      BY DEF OneRing, RingOf
    <3> QED
      BY <3>1, FS_Interval
  <2>3. IsFiniteSet(sendList \X Node)
    BY <2>1, <2>2, FS_Product
  <2>4. pairs \in SUBSET (sendList \X Node) /\ hits \in SUBSET (sendList \X Node)
    OBVIOUS
  <2> HIDE DEF pairs, hits
  <2> QED
    BY <2>3, <2>4, FS_Subset
<1>6. IsFiniteSet(M) /\ Cardinality(M) = Cardinality(hits)
  <2> DEFINE g == [q \in hits |-> Entry(q)]
  <2>1. \A q \in hits : q = <<q[1], q[2]>> /\ q[1] \in sendList /\ q[2] \in Node /\ Entry(q) \in M
    BY <1>3
  <2>2. \A q, r \in hits : g[q] = g[r] => q = r
    <3>1. \A q : Entry(q).cpu = q[2] /\ Entry(q).frame = q[1]
      OBVIOUS
    <3> HIDE DEF Entry
    <3>2. \A q \in hits : g[q] = Entry(q)
      OBVIOUS
    <3> HIDE DEF hits, g
    <3> QED
      BY <2>1, <3>1, <3>2
  <2>3. \A r \in M : \E q \in hits : g[q] = r
    <3> SUFFICES ASSUME NEW r \in M
                 PROVE  \E q \in hits : g[q] = r
      OBVIOUS
    <3> DEFINE q == <<r.frame, r.cpu>>
    <3>1. q \in hits /\ Entry(q) = r
      BY <1>2, <1>3, <1>4
    <3> QED
      BY <3>1
  <2>4. g \in Bijection(hits, M)
    <3>1. g \in [hits -> M]
      BY <2>1
    <3> HIDE DEF hits, g, M
    <3> QED
      BY <2>2, <2>3, <3>1 DEF Bijection, Injection, Surjection, IsInjective
  <2> HIDE DEF hits, M, g
  <2> QED
    BY <1>5, <2>4, FS_Bijection DEF ExistsBijection
<1>7. BagCardinality(recvList) = Cardinality(hits)
  <2>1. DOMAIN recvList = M
    BY DEF BagToSet
  <2>2. IsFiniteSet(DOMAIN recvList) /\ \A e \in DOMAIN recvList : recvList[e] = 1
    BY <1>2, <1>6, <2>1
  <2>3. BagCardinality(recvList) = Cardinality(DOMAIN recvList)
    BY <2>2, BagOfOnes
  <2> HIDE DEF hits, M
  <2> QED
    BY <1>6, <2>1, <2>3
<1>8. lost <= 1 => hits = pairs
  <2>1. lost <= 1 => \A s \in sendList : \A c \in Audience(s) : [cpu |-> c, frame |-> s] \in M
    BY <1>1, MaskedAtRest DEF OneLossIsMasked, BagIn, BagToSet
  <2> HIDE DEF M
  <2> QED
    BY <1>3, <1>4, <2>1
<1>9. Cardinality(hits) \in Nat /\ Cardinality(pairs) \in Nat
  BY <1>5, FS_CardinalityType
<1> HIDE DEF hits, pairs
<1>10. numFrames'.DUP = 0
  BY <1>1, <1>7, <1>9
<1>11. lost' <= 1 => numFrames'.FAIL = 0
  BY <1>1, <1>8, <1>9
<1>12. numFrames'.OK = BagCardinality(recvList')
  BY <1>1, <1>7
<1> QED
  BY <1>10, <1>11, <1>12 DEF AccountIsTrue

(* TestControl's account on a ring is true (finish and searchMessage,      *)
(* TestControl.cc): as long as there are few frames it counts no frame     *)
(* twice, every frame received as such, and none as missing unless more    *)
(* than one copy was lost.                                                 *)
THEOREM AccountIsTrueOnARing ==
  ASSUME OneRing, PatternsAreAccepted
  PROVE  Spec /\ []FewFrames => []AccountIsTrue
<1>1. Init => LossInv /\ AudienceInv /\ AccountIsTrue
  <2> SUFFICES ASSUME Init
               PROVE  LossInv /\ AudienceInv /\ AccountIsTrue
    OBVIOUS
  <2>1. BagToSet(recvList) = {} /\ numFrames = NotFinished
    BY EmptyBags DEF Init
  <2> QED
    BY <2>1, InitWays DEF AudienceInv, AccountIsTrue
<1>2. LossInv /\ AudienceInv /\ AccountIsTrue /\ FewFrames /\ FewFrames' /\ [Next]_vars =>
        LossInv' /\ AudienceInv' /\ AccountIsTrue'
  <2> SUFFICES ASSUME LossInv, AudienceInv, AccountIsTrue, FewFrames, FewFrames', [Next]_vars
               PROVE  LossInv' /\ AudienceInv' /\ AccountIsTrue'
    OBVIOUS
  <2>1. LossInv'
    BY NextKeepsWays
  <2>2. AudienceInv'
    BY RingTags, OnlyTheAudienceHears DEF LossInv
  <2>3. CASE finish
    BY <2>1, <2>2, <2>3, FinishCounts
  <2>4. CASE UNCHANGED vars
    BY <2>1, <2>2, <2>4 DEF vars, AccountIsTrue
  <2>5. CASE numFrames' = NotFinished
    BY <2>1, <2>2, <2>5 DEF AccountIsTrue
  <2>6. finish \/ UNCHANGED vars \/ numFrames' = NotFinished
    BY DEF Next, Work, SelfMessage, handleMessage, BitError, EndTx, EndIFG, Running
  <2> QED
    BY <2>3, <2>4, <2>5, <2>6
<1> QED
  BY <1>1, <1>2, PTL DEF Spec
=============================================================================
