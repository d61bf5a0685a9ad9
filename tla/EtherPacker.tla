------------------------------ MODULE EtherPacker ------------------------------
(***************************************************************************)
(* The frames of project ethernetHSR (MessagePacker): a frame is flat, a   *)
(* tag that is NULL is a value of its own.  Lengths, EtherTypes and memory *)
(* are left out; module Packer has them for the same code in project PA14. *)
(***************************************************************************)
EXTENDS Integers

NoTag  == -1     \* hsrTag is NULL
NoVlan == FALSE  \* vlanTag is NULL

(* What the message compiler generates for a packet: of a VLAN tag nothing *)
(* but its presence is ever read, of the others one field.                 *)
dataMessage(counter)       == [counter |-> counter]
vlanMessage                == TRUE
hsrMessage(sequencenumber) == sequencenumber

createETHTag(dest, src)    == [dest |-> dest, src |-> src]
createDataMessage(counter) == dataMessage(counter)
createVLANTag              == vlanMessage

(* The path of the tag is the ring's number, which nothing reads. *)
createHSRTag(sequenceNum)  == hsrMessage(sequenceNum)

generateEthMessage(ethTag, vlanTag, hsrTag, messageData) ==
  [src |-> ethTag.src, dest |-> ethTag.dest, vlan |-> vlanTag, seq |-> hsrTag,
   counter |-> messageData.counter]

decapsulateMessage(f) ==
  [ethTag |-> createETHTag(f.dest, f.src), vlanTag |-> f.vlan, hsrTag |-> f.seq,
   messageData |-> createDataMessage(f.counter)]

(* The same frame with another HSR tag, or with none. *)
Retag(f, hsrTag) ==
  LET m == decapsulateMessage(f)
  IN generateEthMessage(m.ethTag, m.vlanTag, hsrTag, m.messageData)
=============================================================================
