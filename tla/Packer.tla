-------------------------------- MODULE Packer --------------------------------
(***************************************************************************)
(* The frames of project PA14 (MessagePacker): a data message in an HSR    *)
(* tag in a VLAN tag in an Ethernet frame, each message encapsulated in    *)
(* the next, as CPU, switch and delay logger build and open them.          *)
(*                                                                         *)
(* A message knows its length with all it encapsulates, and holds what it  *)
(* encapsulates in a sequence of at most one message.  EtherTypes are      *)
(* named.  A pointer that is NULL is NULL; a failed check_and_cast is      *)
(* BadCast.  Left out: fields nobody sets to anything but 0, and memory.   *)
(***************************************************************************)
EXTENDS Integers, Sequences

NULL    == [class |-> "NULL", length |-> 0, inside |-> <<>>]
BadCast == [class |-> "BadCast", length |-> 0, inside |-> <<>>]

(* What the message compiler generates for a packet, by its fields. *)
dataMessage(length, counter) ==
  [class |-> "dataMessage", length |-> length, inside |-> <<>>, counter |-> counter]
vlanMessage(user_priority) ==
  [class |-> "vlanMessage", length |-> 0, inside |-> <<>>,
   ownEtherType |-> "0x8100", user_priority |-> user_priority, preemptionDelay |-> 0]
hsrMessage(path, sequencenumber) ==
  [class |-> "hsrMessage", length |-> 0, inside |-> <<>>,
   ownEtherType |-> "0x88FB", path |-> path, sequencenumber |-> sequencenumber]

(* cPacket::encapsulate and decapsulate, and check_and_cast. *)
encapsulate(outer, inner) ==
  [outer EXCEPT !.inside = <<inner>>, !.length = @ + inner.length]
content(outer) == IF outer.inside = <<>> THEN NULL ELSE outer.inside[1]
decapsulate(outer) ==
  [outer EXCEPT !.inside = <<>>, !.length = @ - content(outer).length]
cast(m, class) == IF m.class = class THEN m ELSE BadCast

-----------------------------------------------------------------------------
createDataMessage(length, messageCounter) == dataMessage(length, messageCounter)

(* 18 bytes: addresses, type and checksum. *)
createETHTag(dest, src, now) ==
  [class |-> "EthernetIIFrame", length |-> 18, inside |-> <<>>, etherType |-> "none",
   dest |-> dest, src |-> src, creationTime |-> now]

(* Its length stays 0: a VLAN tag costs no time on a line. *)
createVLANTag(user_priority) == vlanMessage(user_priority)

createHSRTag(ringID, sequenceNum) ==
  [hsrMessage(2 * ringID, sequenceNum) EXCEPT !.length = 6]

(* Mutant: with a VLAN tag, the tag always tells of data to come. *)
MutGenerateVlanTellsData(ethTag, vlanTag, hsrTag, messageData) ==
  LET hsr    == IF hsrTag = NULL THEN messageData
                ELSE encapsulate([hsrTag EXCEPT !.ownEtherType = "0x0800"], messageData)
      tagged == IF vlanTag = NULL THEN hsr
                ELSE encapsulate([vlanTag EXCEPT !.ownEtherType = "0x0800"], hsr)
      type   == IF vlanTag # NULL THEN "0x8100" ELSE IF hsrTag # NULL THEN "0x88FB" ELSE "0x0800"
  IN encapsulate([ethTag EXCEPT !.etherType = type], tagged)

(* The type of what follows goes into ownEtherType of the VLAN tag, for    *)
(* nextEtherType is not used.                                              *)
generateEthMessage(ethTag, vlanTag, hsrTag, messageData) ==
  LET hsr    == IF hsrTag = NULL THEN messageData
                ELSE encapsulate([hsrTag EXCEPT !.ownEtherType = "0x0800"], messageData)
      next   == IF hsrTag = NULL THEN "0x0800" ELSE "0x88FB"
      tagged == IF vlanTag = NULL THEN hsr
                ELSE encapsulate([vlanTag EXCEPT !.ownEtherType = next], hsr)
      type   == IF vlanTag = NULL THEN next ELSE "0x8100"
  IN encapsulate([ethTag EXCEPT !.etherType = type], tagged)

(* The messages of a frame as its EtherTypes tell, still encapsulating. *)
openMessage(f) ==
  LET hasVlan == f.etherType = "0x8100"
      vlan    == IF hasVlan THEN cast(content(f), "vlanMessage") ELSE NULL
      above   == IF hasVlan THEN vlan ELSE f
      hasHsr  == IF hasVlan THEN vlan # BadCast /\ vlan.ownEtherType = "0x88FB"
                 ELSE f.etherType = "0x88FB"
      hsr     == IF hasHsr THEN cast(content(above), "hsrMessage") ELSE NULL
  IN [ethTag |-> f, vlanTag |-> vlan, hsrTag |-> hsr,
      messageData |-> cast(content(IF hasHsr THEN hsr ELSE above), "dataMessage")]

(* The same, each message taken out of the one around it. *)
decapsulateMessage(f) ==
  LET m == openMessage(f)
  IN [m EXCEPT !.ethTag = decapsulate(@), !.vlanTag = decapsulate(@), !.hsrTag = decapsulate(@)]

(* What a switch does to a frame on its way (hsrTagReceiveFromRingRoutine  *)
(* and hsrTagSendToRingRoutine).                                           *)
Forwarded(f) ==
  LET m == decapsulateMessage(f)
  IN generateEthMessage(m.ethTag, m.vlanTag, m.hsrTag, m.messageData)

(* Modules EncapsulateMessage and DecapsulateMessage, wired in no network. *)
EncapsulateMessage(f, ringID, sequenceNum) ==
  LET m == decapsulateMessage(f)
  IN generateEthMessage(m.ethTag, m.vlanTag,
       IF m.hsrTag = NULL THEN createHSRTag(ringID, sequenceNum) ELSE m.hsrTag,
       m.messageData)

DecapsulateMessage(f) ==
  LET m == decapsulateMessage(f)
  IN generateEthMessage(m.ethTag, m.vlanTag, NULL, m.messageData)
=============================================================================
