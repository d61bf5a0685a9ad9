------------------------------- MODULE EtherMac -------------------------------
(***************************************************************************)
(* The Ethernet interface of project ethernetHSR (ModifiedEtherMACBase, at *)
(* 100 Mbit/s and full duplex as initialize sets it) with the duplicate    *)
(* list it asks: its handlers as operators from the state of one interface *)
(* to the next.  They are the steps of an interface of module EtherNet.    *)
(*                                                                         *)
(* The frame being transmitted stays at the head of txQueue until its end  *)
(* of transmission; a frame is shown to the duplicate list when its        *)
(* transmission starts, never when it is enqueued.  transmitState tells    *)
(* which of the two self messages is scheduled.                            *)
(*                                                                         *)
(* Left out: statistics, display, subscribers (the notification calls are  *)
(* commented out) and the gigabit variants, which txrate switches off.     *)
(***************************************************************************)
EXTENDS EtherPacker, Sequences

CONSTANTS
  txQueueLimit,  \* parameter of the interface; 0 is no limit
  ListSize,      \* parameter ListSize of a duplicate list
  SeqModulus     \* 2^16: what a short can count

ASSUME EtherMacAssumption ==
  /\ txQueueLimit \in Nat
  /\ ListSize \in Nat \ {0}
  /\ SeqModulus \in Nat \ {0} /\ SeqModulus % 2 = 0

TransmitState == {"TX_IDLE", "WAIT_IFG", "TRANSMITTING", "error"}

-----------------------------------------------------------------------------
(* The duplicate list: entries, newest first (DupList is the same array),  *)
(* and the checking map backup, which forgets nothing.  The sequence       *)
(* number is passed as a short, but stored as an unsigned one in both; the *)
(* array compares the two as ints, the map converts the one it looks for.  *)
(* How often an identity was added is left out: the limit is always 1.     *)
asShort(s)    == IF 2 * (s % SeqModulus) < SeqModulus THEN s % SeqModulus
                 ELSE (s % SeqModulus) - SeqModulus
asUnsigned(s) == s % SeqModulus

ListItemData(f) == [source |-> f.src, sequencenumber |-> asUnsigned(f.seq)]
keyMSG(f)       == <<f.src, asUnsigned(f.seq)>>

emptyList == [entries |-> <<>>, backup |-> {}]

searchMessage(list, f) ==
  \E i \in DOMAIN list.entries :
    list.entries[i].source = f.src /\ list.entries[i].sequencenumber = asShort(f.seq)

backupLimitCheck(list, f) == keyMSG(f) \in list.backup

addMessage(list, f) ==
  [entries |-> SubSeq(<<ListItemData(f)>> \o list.entries, 1,
                      IF Len(list.entries) < ListSize THEN Len(list.entries) + 1 ELSE ListSize),
   backup  |-> list.backup \cup {keyMSG(f)}]

(* A hit that the map denies is an error; a miss that it denies is not. *)
limitCheck(list, f) ==
  IF ~ searchMessage(list, f) THEN "new"
  ELSE IF backupLimitCheck(list, f) THEN "duplicate" ELSE "error"

(* A frame without HSR tag is an error as well. *)
checkFrame(list, f) == IF f.seq = NoTag THEN "error" ELSE limitCheck(list, f)

-----------------------------------------------------------------------------
initialize == [txQueue |-> <<>>, transmitState |-> "TX_IDLE", list |-> emptyList]

(* Known duplicates at the head of the queue are dropped first. *)
AfterDuplicates(q, list) ==
  LET fresh == {i \in DOMAIN q : checkFrame(list, q[i]) # "duplicate"}
  IN IF fresh = {} THEN <<>>
     ELSE SubSeq(q, CHOOSE i \in fresh : \A j \in fresh : i <= j, Len(q))

(* What is left of the queue, q, is sent, or there is nothing to send. *)
SendHead(q, list) ==
  IF q = <<>> THEN [txQueue |-> q, transmitState |-> "TX_IDLE", list |-> list]
  ELSE IF checkFrame(list, Head(q)) = "error"
         THEN [txQueue |-> q, transmitState |-> "error", list |-> list]
  ELSE [txQueue |-> q, transmitState |-> "TRANSMITTING", list |-> addMessage(list, Head(q))]

(* Mutant: the state is left as it was when only duplicates were queued. *)
MutStartStaysBusy(mac) ==
  LET q == AfterDuplicates(mac.txQueue, mac.list)
  IN IF q = <<>> THEN [mac EXCEPT !.txQueue = q] ELSE SendHead(q, mac.list)

startFrameTransmission(mac) == SendHead(AfterDuplicates(mac.txQueue, mac.list), mac.list)

(* The queue holds the frame in transmission too, and the limit is tested  *)
(* before the insertion: limit + 1 frames fit.                             *)
QueueFull(mac) == txQueueLimit # 0 /\ Len(mac.txQueue) > txQueueLimit

(* A frame of the node's own for itself is an error of the layer above. *)
processFrameFromUpperLayer(mac, address, f) ==
  IF f.dest = address THEN [mac EXCEPT !.transmitState = "error"]
  ELSE IF QueueFull(mac) THEN mac
  ELSE IF mac.transmitState = "TX_IDLE"
         THEN startFrameTransmission([mac EXCEPT !.txQueue = Append(@, f)])
  ELSE [mac EXCEPT !.txQueue = Append(@, f)]

(* With a frame queued the gap is waited for, otherwise the interface is   *)
(* idle at once: a frame that comes within the gap starts without one.     *)
beginSendFrames(mac) ==
  [mac EXCEPT !.transmitState = IF mac.txQueue = <<>> THEN "TX_IDLE" ELSE "WAIT_IFG"]

(* endTxMsg *)
handleEndTxPeriod(mac) ==
  IF mac.txQueue = <<>> THEN [mac EXCEPT !.transmitState = "error"]
  ELSE beginSendFrames([mac EXCEPT !.txQueue = Tail(@)])

(* endIFGMsg *)
handleEndIFGPeriod(mac) ==
  IF mac.txQueue = <<>> THEN [mac EXCEPT !.transmitState = "error"]
  ELSE startFrameTransmission(mac)
=============================================================================
