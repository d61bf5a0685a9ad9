------------------------------- MODULE EtherNet -------------------------------
(***************************************************************************)
(* A network of project ethernetHSR: end nodes and RedBoxes with their     *)
(* switches, processors and interfaces (module EtherMac), wired as a ring  *)
(* or as rings coupled by pairs of RedBoxes, and the module TestControl    *)
(* that keeps the account of what was sent and received.                   *)
(*                                                                         *)
(* Here nobody takes a frame off the ring but its receiver: a broadcast    *)
(* goes round until each port has sent it and the port's duplicate list    *)
(* stops it.  A frame may be lost, by a bit error or in a full queue; that *)
(* is what the second copy is for.                                         *)
(*                                                                         *)
(* A channel delivers a frame when its last bit has arrived, and has a     *)
(* delay of its own (MyFastChannel): a frame is on the line from its end   *)
(* of transmission.  A cable, the interface that receives and the          *)
(* ForwardDelay behind it are one step: the receiver changes nothing but   *)
(* counters, and the delay of a frame may depend on its length, so frames  *)
(* arrive in any order.                                                    *)
(* Interfaces are promiscuous, as EndNode3 and Redbox3 set them.           *)
(***************************************************************************)
EXTENDS EtherMac, EtherCpu, FiniteSets, Bags

CONSTANTS
  Node,
  RedBox,     \* the nodes that are RedBoxes
  redBoxCfg,  \* parameter of the RedBoxes
  Peer,       \* the cables: a function on connected <<node, port>>
  Configuration,  \* the XML configurations: sequences of [source, lastmuster]
  MaxFrames,  \* bound: load generators stop when so many frames were sent
  MaxErrors   \* bound: frames with a bit error in a behaviour

Group  == -1  \* the broadcast address
Absent == -2  \* an address no node has

Port(n)   == IF n \in RedBox THEN {"A", "B", "I"} ELSE {"A", "B"}
Interface == UNION {{n} \X Port(n) : n \in Node}

ASSUME EtherNetAssumption ==
  /\ Node \subseteq Nat /\ RedBox \subseteq Node
  /\ redBoxCfg \in {"REGULAR", "HSR", "PRP_A", "PRP_B"}
  /\ DOMAIN Peer \subseteq Interface
  /\ \A i \in DOMAIN Peer : Peer[i] \in DOMAIN Peer /\ Peer[Peer[i]] = i /\ Peer[i] # i
  /\ MaxErrors \in Nat /\ MaxFrames \in Nat

VARIABLES
  pending,       \* the self messages of the processors
  messageCount,  \* CPU::messageCount: static, shared by all processors
  sequenceNum,   \* [Node -> Nat]: the switch's next sequence number
  line,          \* bag of frames on the way to a gate: [node, gate, frame]
  mac,           \* [Node -> [Port -> interface]]
  cpuList,       \* [Node -> duplicate list before the processor]
  sendList,      \* TestControl: the frames sent
  recvList,      \* TestControl: bag of [cpu, frame] received
  numFrames,     \* TestControl: its counters, NotFinished before finish
  lost,          \* history: frames lost on a line or in front of a full queue
  thrown         \* the simulation has ended with an error

vars == <<pending, messageCount, sequenceNum, line, mac, cpuList,
          sendList, recvList, numFrames, lost, thrown>>

NotFinished == [OK |-> -1, FAIL |-> -1, DUP |-> -1]

(* A frame's identity for TestControl: the HSR tag is not compared. *)
Untagged(f) == Retag(f, NoTag)

At(n, g, f) == [node |-> n, gate |-> g, frame |-> f]

Init ==
  /\ \E rootelement \in Configuration :
       pending = UNION {loadXMLFile(n, rootelement) : n \in Node}
  /\ messageCount = 0
  /\ sequenceNum = [n \in Node |-> 0]
  /\ line = EmptyBag
  /\ mac = [n \in Node |-> [p \in Port(n) |-> initialize]]
  /\ cpuList = [n \in Node |-> emptyList]
  /\ sendList = {} /\ recvList = EmptyBag
  /\ numFrames = NotFinished
  /\ lost = 0
  /\ thrown = \E m \in pending : ~ scheduleMessage(m.data) \/ m.data.startTime < 0

Running == ~ thrown /\ numFrames = NotFinished

-----------------------------------------------------------------------------
generateOnePacket(n, d) ==
  generateEthMessage(createETHTag(d.destination, n),
                     IF d.vlan # 0 THEN createVLANTag ELSE NoVlan,
                     NoTag, createDataMessage(messageCount))

registerSEND(f) == sendList' = sendList \cup {f}
registerRECV(n, frames) ==
  recvList' = recvList (+) SetToBag({[cpu |-> n, frame |-> Untagged(f)] : f \in frames})

(* CPU::handleMessage with a self message: registerSEND and send, when the *)
(* pattern is not over.  The clock is abstracted to before or after its    *)
(* stopTime.                                                               *)
SelfMessage(m, now) ==
  LET f == generateOnePacket(m.cpu, m.data)
  IN /\ Running
     /\ m \in pending
     /\ messageCount < MaxFrames \/ ~ Again(m.data, now)
     /\ pending' = IF Again(m.data, now) THEN pending ELSE pending \ {m}
     /\ IF Sends(m.data, now)
          THEN /\ messageCount' = messageCount + 1
               /\ registerSEND(f)
               /\ line' = line (+) SetToBag({At(m.cpu, "C", f)})
          ELSE UNCHANGED <<messageCount, sendList, line>>
     /\ UNCHANGED <<sequenceNum, mac, cpuList, recvList, numFrames, lost, thrown>>

To(p, f) == [port |-> p, frame |-> f]

Opposite(g) == IF g = "A" THEN "B" ELSE "A"

Mine(n, f) == f.dest \in {n, Group} /\ f.src # n

(* Mutant: only one copy is made. *)
MutFromCpuOnce(n, f) ==
  {To("A", IF f.seq # NoTag THEN f ELSE Retag(f, createHSRTag(sequenceNum[n])))}

(* The node table keeps nothing of what pushNode tells it. *)
getNodeMode(src) == "NODETYPE_HSR"

(* DANH_receiving_from_its_link_layer_interface *)
FromCpu(n, f) ==
  LET h == IF f.seq # NoTag \/ getNodeMode(f.src) # "NODETYPE_HSR" THEN f ELSE Retag(f, createHSRTag(sequenceNum[n]))
  IN {To("A", h), To("B", h)}

(* Mutant: a node hears what it has sent itself. *)
MutRingPortEchoes(n, g, f) ==
  (IF f.dest \in {n, Group} THEN {To("C", f)} ELSE {}) \cup
  (IF f.seq # NoTag /\ f.dest # n THEN {To(Opposite(g), f)} ELSE {})

(* DANH_receiving_from_an_HSR_port *)
FromRingPort(n, g, f) ==
  (IF Mine(n, f) THEN {To("C", f)} ELSE {}) \cup
  (IF f.seq # NoTag /\ f.dest # n THEN {To(Opposite(g), f)} ELSE {})

EndNodeSwitch(n, g, f) ==
  IF g = "C" THEN FromCpu(n, f) ELSE FromRingPort(n, g, f)

forwardToInterlink(f) ==
  CASE redBoxCfg = "REGULAR" -> {To("I", Untagged(f))}
    [] redBoxCfg = "HSR"     -> {To("I", f)}
    [] OTHER                 -> {}

(* Mutant: a frame given to the processor is not passed on. *)
MutRedBoxConsumes(n, g, f) ==
  CASE g = "C" -> FromCpu(n, f) \cup
                  UNION {forwardToInterlink(x.frame) : x \in FromCpu(n, f)}
    [] Mine(n, f) -> {To("C", f)}
    [] OTHER -> IF g = "I" THEN {To("A", f), To("B", f)}
                ELSE forwardToInterlink(f) \cup {To(Opposite(g), f)}

RedBoxSwitch(n, g, f) ==
  CASE g = "C" -> FromCpu(n, f) \cup
                  UNION {forwardToInterlink(x.frame) : x \in FromCpu(n, f)}
    [] f.dest = n /\ f.src # n -> {To("C", f)}
    [] OTHER -> (IF Mine(n, f) THEN {To("C", f)} ELSE {}) \cup
                (IF g = "I" THEN {To("A", f), To("B", f)}
                 ELSE forwardToInterlink(f) \cup {To(Opposite(g), f)})

Connected(n, p) == <<n, p>> \in DOMAIN Peer

(* ListenErkennung::handleMessage before the processor, then               *)
(* CPU::handleMessage with registerRECV.                                   *)
Deliver(n, frames) ==
  LET new == {f \in frames : checkFrame(cpuList[n], f) = "new"}
  IN /\ cpuList' = IF new = {} THEN cpuList
                   ELSE [cpuList EXCEPT ![n] = addMessage(@, CHOOSE f \in new : TRUE)]
     /\ registerRECV(n, new)

(* A frame comes to gate g of the switch of n, which is an EndNodeSwitch   *)
(* or a RedBoxSwitch, and is passed to interfaces and processor.           *)
handleMessage(n, g, f) ==
  LET out     == IF n \in RedBox THEN RedBoxSwitch(n, g, f) ELSE EndNodeSwitch(n, g, f)
      Sent(p) == {x.frame : x \in {y \in out : y.port = p}}
      taken   == [p \in Port(n) |->
                    IF Sent(p) = {} \/ ~ Connected(n, p) THEN mac[n][p]
                    ELSE processFrameFromUpperLayer(mac[n][p], n, CHOOSE h \in Sent(p) : TRUE)]
  IN /\ Running
     /\ BagIn(At(n, g, f), line)
     /\ sequenceNum' =
          IF g = "C" /\ f.seq = NoTag THEN [sequenceNum EXCEPT ![n] = @ + 1] ELSE sequenceNum
     /\ mac' = [mac EXCEPT ![n] = taken]
     /\ line' = line (-) SetToBag({At(n, g, f)})
     /\ Deliver(n, Sent("C"))
     /\ lost' = lost + Cardinality({p \in Port(n) : Sent(p) # {} /\ Connected(n, p)
                                                    /\ QueueFull(mac[n][p])})
     /\ thrown' = \/ \E p \in Port(n) : taken[p].transmitState = "error"
                  \/ \E h \in Sent("C") : checkFrame(cpuList[n], h) = "error"
     /\ UNCHANGED <<pending, messageCount, sendList, numFrames>>

(* processReceivedDataFrame with hasBitError: the frame is dropped. *)
BitError(n, g, f) ==
  /\ Running
  /\ g # "C"
  /\ BagIn(At(n, g, f), line)
  /\ lost < MaxErrors
  /\ line' = line (-) SetToBag({At(n, g, f)})
  /\ lost' = lost + 1
  /\ UNCHANGED <<pending, messageCount, sequenceNum, mac, cpuList, sendList, recvList, numFrames, thrown>>

(* The self messages of an interface.  The copy sent is the head of the    *)
(* queue, which nothing changes while it is being transmitted.             *)
EndTx(n, p) ==
  LET peer == Peer[<<n, p>>]
  IN /\ Running
     /\ mac[n][p].transmitState = "TRANSMITTING"
     /\ mac' = [mac EXCEPT ![n][p] = handleEndTxPeriod(@)]
     /\ line' = line (+) SetToBag({At(peer[1], peer[2], Head(mac[n][p].txQueue))})
     /\ thrown' = (mac'[n][p].transmitState = "error")
     /\ UNCHANGED <<pending, messageCount, sequenceNum, cpuList, sendList, recvList, numFrames, lost>>

EndIFG(n, p) ==
  /\ Running
  /\ mac[n][p].transmitState = "WAIT_IFG"
  /\ mac' = [mac EXCEPT ![n][p] = handleEndIFGPeriod(@)]
  /\ thrown' = (mac'[n][p].transmitState = "error")
  /\ UNCHANGED <<pending, messageCount, sequenceNum, line, cpuList, sendList, recvList, numFrames, lost>>

-----------------------------------------------------------------------------
(* No event is left: the simulation is over. *)
Quiet ==
  /\ pending = {} /\ BagToSet(line) = {}
  /\ \A i \in Interface : mac[i[1]][i[2]].transmitState = "TX_IDLE"

(* mdCompare; a frame is sent before it is received. *)
mdCompare(s, r) == s.src = r.src /\ s.dest = r.dest /\ s.counter = r.counter
                   /\ s.vlan = r.vlan

(* TestControl::searchMessage finds frame s in recvList at processor c. *)
Received(s, c) == \E r \in BagToSet(recvList) : r.cpu = c /\ mdCompare(s, r.frame)

(* Mutant: TestControl looks for a broadcast at its sender as well. *)
MutSearchedSender(s, c) == IF s.dest = Group THEN TRUE ELSE c = s.dest

(* The processors finish looks for a frame at. *)
Searched(s, c) == IF s.dest = Group THEN c # s.src ELSE c = s.dest

(* finish calls searchMessage for each frame and processor, which takes    *)
(* one entry out of recvList; no two frames have the same counter, so the  *)
(* order of the lists does not matter.                                     *)
finish ==
  LET pairs == {q \in sendList \X Node : Searched(q[1], q[2])}
      hits  == {q \in pairs : Received(q[1], q[2])}
  IN /\ Running /\ Quiet
     /\ numFrames' = [OK   |-> Cardinality(hits),
                      FAIL |-> Cardinality(pairs) - Cardinality(hits),
                      DUP  |-> BagCardinality(recvList) - Cardinality(hits)]
     /\ UNCHANGED <<pending, messageCount, sequenceNum, line, mac, cpuList,
                    sendList, recvList, lost, thrown>>

Work ==
  \/ \E m \in pending : \E now \in {m.data.startTime, m.data.stopTime} : SelfMessage(m, now)
  \/ \E c \in BagToSet(line) : handleMessage(c.node, c.gate, c.frame)
  \/ \E i \in Interface : EndTx(i[1], i[2]) \/ EndIFG(i[1], i[2])

Next ==
  \/ Work
  \/ \E c \in BagToSet(line) : BitError(c.node, c.gate, c.frame)
  \/ finish

(* The kernel delivers every event that is due, and ends when none is left. *)
Spec == Init /\ [][Next]_vars /\ WF_vars(Work) /\ WF_vars(finish)

-----------------------------------------------------------------------------
Frame == [src : Node, dest : Node \cup {Group, Absent}, vlan : BOOLEAN,
          counter : Nat, seq : Nat \cup {NoTag}]

Audience(f) == {n \in Node : Mine(n, f)}

(* No frame without tag reaches a duplicate list (ListenErkennung.cc 112), *)
(* no interface is given a frame for its own node (ModifiedEtherMACBase.cc *)
(* 321), none finds its queue empty at the end of a transmission or gap    *)
(* (445, 483).                                                             *)
NothingIsThrown == ~ thrown

(* The reason for two rings of copies (RedBoxSwitch, EndNodeSwitch): when  *)
(* everything has come to rest and no more than one copy was lost, on a    *)
(* line or in front of a full queue, everyone has heard everything.        *)
OneLossIsMasked ==
  Quiet /\ lost <= 1 =>
    \A f \in sendList : \A n \in Audience(f) :
      BagIn([cpu |-> n, frame |-> f], recvList)

(* TestControl's account is true: nothing is counted as missing or twice   *)
(* unless it is, and what is lost twice over is counted as missing.        *)
AccountIsTrue ==
  numFrames # NotFinished =>
    /\ numFrames.DUP = 0
    /\ lost <= 1 => numFrames.FAIL = 0
    /\ numFrames.OK = BagCardinality(recvList)

Service ==
  INSTANCE EtherService WITH sent <- sendList, heard <- recvList

(* A processor hears only what is for it, and once, whatever is lost. *)
ImplementsService == Service!Spec

(* No processor hears a frame twice. *)
HeardOnce == \A h \in BagToSet(recvList) : recvList[h] = 1

(* The copies do not circulate for ever, though only duplicate lists that  *)
(* forget stop them, and no interface sleeps on a queue: TestControl gets  *)
(* to finish.                                                              *)
ComesToRest == <>[](numFrames # NotFinished)
=============================================================================
