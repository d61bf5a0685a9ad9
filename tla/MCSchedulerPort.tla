--------------------------- MODULE MCSchedulerPort ---------------------------
(* Small values for the constants of SchedulerPort, chosen in the cfg files. *)
EXTENDS SchedulerPort

(* Low frames of the CPU of three lengths, the first too short to be cut,  *)
(* the last above the limit of 3; one of the ring; high frames of both     *)
(* sides; an express frame.                                                *)
LimitedKinds == [prio : {"LOW"}, cpu : {TRUE}, len : {1, 2, 4}]
                  \cup [prio : {"LOW"}, cpu : {FALSE}, len : {2}]
                  \cup [prio : {"HIGH"}, cpu : BOOLEAN, len : {2}]
                  \cup [prio : {"EXPRESS"}, cpu : {TRUE}, len : {2}]

(* The shortest low frame of the CPU. *)
OneLowFrame == [prio : {"LOW"}, cpu : {TRUE}, len : {72}]

(* The least limit: no limit at all. *)
NoLimit == -1
=============================================================================
