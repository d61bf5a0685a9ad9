---------------------------- MODULE MCPreemption ----------------------------
(* Frames for Preemption, with lengths in bytes: the longest frame that     *)
(* must not be cut, the shortest one that may be, one that can be cut       *)
(* twice and leaves the least behind its first cut, a frame of the CPU that *)
(* gives way to all these of the ring, and the smallest express frame.      *)
EXTENDS Preemption

TimedKinds ==
  [prio : {"LOW"}, cpu : {FALSE}, len : {127, 128, 181}]
    \cup [prio : {"LOW"}, cpu : {TRUE}, len : {64}]
    \cup [prio : {"EXPRESS"}, cpu : {FALSE}, len : {64}]

(* The shortest frame that may be cut, and an express frame. *)
ShortestKinds == [prio : {"LOW"}, cpu : {FALSE}, len : {128}]
                   \cup [prio : {"EXPRESS"}, cpu : {FALSE}, len : {64}]

NoLimit == -1
=============================================================================
