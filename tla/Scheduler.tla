------------------------------ MODULE Scheduler ------------------------------
(***************************************************************************)
(* The scheduler of one output port of the HSR switch (class Scheduler,    *)
(* with the SendingStatus it owns), as operators on a scheduler state.     *)
(* A switch has three: "A" and "B" feed the two ring interfaces, "C" the   *)
(* node's own CPU.  Every operator is one method; each takes the state     *)
(* before the call and returns the state after it, so that the modules     *)
(* built on this one compose whole event handlers from them.               *)
(*                                                                         *)
(* A scheduler state is a record:                                          *)
(*   queues             the six cQueues, [queueName -> sequence of frames] *)
(*   transmitLock       a frame was given to the normal interface          *)
(*   transmitLockExp    a frame was given to the express interface         *)
(*   nextUpAnotherExp   another express frame follows the one just sent    *)
(*   curQueueState      side the ZIPPER mode serves first next time        *)
(*   framebytecontainer bytes of CPU low-priority traffic allowed now      *)
(*   credit             floor(elapsed * framebyteLimit / 8), elapsed being *)
(*                      the time since lowSendTime                         *)
(*   notifiedToken, notifiedTimeslot   a wake-up was already asked for     *)
(*   timerToken, timerTimeslot         that wake-up: the 'o' and 'i' self  *)
(*                      messages in the future event set                   *)
(*   sendingStatus      the attached frame                                 *)
(*   out, outExp        frames sent on schedOutGate and schedOutGateExp    *)
(*                      that have not left the interface yet               *)
(*   failed             a cRuntimeError was thrown                         *)
(*                                                                         *)
(* Time is abstracted to what the code's decisions read of it: whether the *)
(* time slot is the high one (phase), the credit, and whether 64 bytes of  *)
(* the frame being sent are left (fits).  sendingStatus.len is the length  *)
(* the frame was attached with: addPreemptionDelay makes it longer each    *)
(* time, but only for a frame that is long enough already.  Left out: the  *)
(* statistics, and the preemption delay itself, which is added to a copy   *)
(* nobody reads.                                                           *)
(***************************************************************************)
EXTENDS Integers, Sequences

CONSTANTS
  schedID,         \* "A", "B" or "C"
  schedmode,       \* one of the schedulerMode values
  framebyteLimit,  \* limit on CPU low-priority traffic, -1: none
  TimeslotsOn,     \* timeslotPhaseSize # 0
  FragmentMin      \* 128 in the code: shorter frames are never preempted

ASSUME SchedulerAssumption ==
  /\ schedID \in {"A", "B", "C"}
  /\ schedmode \in {"FCFS", "RING_FIRST", "INTERNAL_FIRST", "ZIPPER", "TOKENS"}
  /\ framebyteLimit \in Nat \cup {-1}
  /\ TimeslotsOn \in BOOLEAN
  /\ FragmentMin \in Nat

Priority == {"EXPRESS", "HIGH", "LOW"}
Side     == {"RING", "INTERNAL"}

(* EXPRESS_RING is <<"EXPRESS", "RING">>, and so on. *)
queueName == Priority \X Side

(* A frame as the scheduler sees it; cpu: its arrival gate is the CPU's,   *)
(* id: it is the id-th frame enqueued here.                                *)
Frame == [id : Nat, prio : Priority, cpu : BOOLEAN, len : Nat]

NoFrame == [id |-> 0, prio |-> "LOW", cpu |-> FALSE, len |-> 0]

SchedulerState ==
  [queues             : [queueName -> Seq(Frame)],
   transmitLock       : BOOLEAN,
   transmitLockExp    : BOOLEAN,
   nextUpAnotherExp   : BOOLEAN,
   curQueueState      : Side,
   framebytecontainer : IF framebyteLimit = -1 THEN {-1, 0} ELSE 0 .. framebyteLimit,
   credit             : 0 .. framebyteLimit + 1,
   notifiedToken      : BOOLEAN,
   notifiedTimeslot   : BOOLEAN,
   timerToken         : BOOLEAN,
   timerTimeslot      : BOOLEAN,
   sendingStatus      : Frame,
   out                : Seq(Frame),
   outExp             : Seq(Frame),
   failed             : BOOLEAN]

initScheduler ==
  [queues             |-> [q \in queueName |-> <<>>],
   transmitLock       |-> FALSE,
   transmitLockExp    |-> FALSE,
   nextUpAnotherExp   |-> FALSE,
   curQueueState      |-> "RING",
   framebytecontainer |-> 0,
   credit             |-> 0,
   notifiedToken      |-> FALSE,
   notifiedTimeslot   |-> FALSE,
   timerToken         |-> FALSE,
   timerTimeslot      |-> FALSE,
   sendingStatus      |-> NoFrame,
   out                |-> <<>>,
   outExp             |-> <<>>,
   failed             |-> FALSE]

-----------------------------------------------------------------------------
(* Mutant: FCFS keeps the ring queues apart. *)
MutEnqueueKeepsSide(s, f, q) == [s EXCEPT !.queues[q] = Append(@, f)]

enqueueMessage(s, f, q) ==
  LET side == IF schedmode = "FCFS" THEN "INTERNAL" ELSE q[2]
  IN [s EXCEPT !.queues[<<q[1], side>>] = Append(@, f)]

timeslotIsValid(q, phase) ==
  \/ ~ TimeslotsOn
  \/ q[1] # "HIGH"
  \/ phase = "high"

-----------------------------------------------------------------------------
(* Mutant: credit is collected without an upper bound. *)
MutCreditedUncapped(s, f) ==
  IF f.prio # "LOW" THEN s.framebytecontainer
  ELSE IF framebyteLimit = -1 THEN -1
  ELSE s.framebytecontainer + s.credit

(* containerHasEnoughBytes, in three parts: what the container holds after *)
(* the credit is added (with the limiter off it ends at -1, whatever it    *)
(* was), whether that is enough for frame f, and the state afterwards.     *)
(* Only a CPU frame that passes moves lowSendTime forward, so the same     *)
(* elapsed time is credited again at the next look at any other LOW frame. *)
Credited(s, f) ==
  IF f.prio # "LOW" THEN s.framebytecontainer
  ELSE IF framebyteLimit = -1 THEN -1
  ELSE IF s.framebytecontainer + s.credit > framebyteLimit THEN framebyteLimit
  ELSE s.framebytecontainer + s.credit

Limited(f) == f.prio = "LOW" /\ f.cpu /\ framebyteLimit # -1

(* Mutant: one byte too many is let through. *)
MutEnoughOffByOne(s, f) == Limited(f) => Credited(s, f) + 1 >= f.len

containerHasEnoughBytes(s, f) == Limited(f) => Credited(s, f) >= f.len

CreditContainer(s, f) ==
  [s EXCEPT !.framebytecontainer = Credited(s, f),
            !.credit = IF Limited(f) /\ Credited(s, f) >= f.len THEN 0 ELSE @]

(* subtractFromByteContainer: throws when a limited frame exceeds it. *)
subtractFromByteContainer(s, f) ==
  IF f.prio # "LOW" \/ ~ f.cpu THEN s
  ELSE IF s.framebytecontainer >= f.len
    THEN [s EXCEPT !.framebytecontainer = @ - f.len]
    ELSE [s EXCEPT !.failed = @ \/ framebyteLimit # -1]

-----------------------------------------------------------------------------
(* Sending the front of queue q: the normal interface, or the express one. *)
SendFront(s, q) ==
  LET f == Head(s.queues[q])
  IN subtractFromByteContainer(
       [s EXCEPT !.queues[q] = Tail(@), !.transmitLock = TRUE,
                 !.sendingStatus = f, !.out = Append(@, f)], f)

sendExpressFrame(s, q) ==
  LET f == Head(s.queues[q])
  IN subtractFromByteContainer(
       [s EXCEPT !.queues[q] = Tail(@), !.transmitLockExp = TRUE,
                 !.outExp = Append(@, f)], f)

(* Mutant: short frames are preempted too. *)
MutExpressAnyLength(s, fits) == s.nextUpAnotherExp \/ fits

(* Mutant: the shortest frame that may be preempted is not. *)
MutExpressLonger(s, fits) == s.sendingStatus.len > FragmentMin /\ (s.nextUpAnotherExp \/ fits)

(* getExpressSendTime # SIMTIME_ZERO: the frame being sent can be cut now  *)
(* or at a later point.                                                    *)
getExpressSendTime(s, fits) ==
  /\ s.sendingStatus.len >= FragmentMin
  /\ s.nextUpAnotherExp \/ fits

(* Mutant: an express frame in flight does not hold back a normal one. *)
MutIdleIgnoresExpress(s) == ~ s.transmitLock

BothIdle(s) == ~ s.transmitLock /\ ~ s.transmitLockExp

(* Mutant: no wake-up is asked for while the other kind is outstanding. *)
MutNotifyOnce(s, q, phase, enough) ==
  IF s.notifiedToken \/ s.notifiedTimeslot THEN s
  ELSE IF ~ enough THEN [s EXCEPT !.notifiedToken = TRUE, !.timerToken = TRUE]
  ELSE IF ~ timeslotIsValid(q, phase)
    THEN [s EXCEPT !.notifiedTimeslot = TRUE, !.timerTimeslot = TRUE]
  ELSE s

(* The last branch of processOneQueue: ask to be woken up. *)
LookLater(s, q, phase, enough) ==
  IF ~ enough /\ ~ s.notifiedToken
    THEN [s EXCEPT !.notifiedToken = TRUE, !.timerToken = TRUE]
  ELSE IF ~ timeslotIsValid(q, phase) /\ ~ s.notifiedTimeslot
    THEN [s EXCEPT !.notifiedTimeslot = TRUE, !.timerTimeslot = TRUE]
  ELSE s

(* What processOneQueue does with the frame at the front of queue q; the   *)
(* CPU port sends whatever the locks, the time slot and the limiter say.   *)
processFront(s, q, phase, fits, enough) ==
  LET express == q[1] = "EXPRESS"
  IN IF (BothIdle(s) /\ timeslotIsValid(q, phase) /\ enough) \/ schedID = "C"
       THEN IF express THEN sendExpressFrame(s, q) ELSE SendFront(s, q)
     ELSE IF express /\ s.transmitLock /\ ~ s.transmitLockExp /\ enough
       THEN IF getExpressSendTime(s, fits) THEN sendExpressFrame(s, q) ELSE s
     ELSE LookLater(s, q, phase, enough)

processOneQueue(s, q, phase, fits) ==
  IF s.queues[q] = <<>> THEN s
  ELSE LET f == Head(s.queues[q])
       IN processFront(CreditContainer(s, f), q, phase, fits, containerHasEnoughBytes(s, f))

-----------------------------------------------------------------------------
OtherSide(side) == IF side = "RING" THEN "INTERNAL" ELSE "RING"

(* Mutant: the two lists of sort orders name the high queues first. *)
MutLoopHighFirst(s0, first, phase, fits) ==
  LET second == OtherSide(first)
      s1 == processOneQueue(s0, <<"HIGH", first>>, phase, fits)
      s2 == processOneQueue(s1, <<"HIGH", second>>, phase, fits)
      s3 == processOneQueue(s2, <<"EXPRESS", first>>, phase, fits)
      s4 == processOneQueue(s3, <<"EXPRESS", second>>, phase, fits)
      s5 == processOneQueue(s4, <<"LOW", first>>, phase, fits)
  IN processOneQueue(s5, <<"LOW", second>>, phase, fits)

(* loopQueues over ringFirstSortOrder (first = "RING") or                  *)
(* internalFirstSortOrder: all six queues, at most one frame from each.    *)
loopQueues(s0, first, phase, fits) ==
  LET second == OtherSide(first)
      s1 == processOneQueue(s0, <<"EXPRESS", first>>, phase, fits)
      s2 == processOneQueue(s1, <<"EXPRESS", second>>, phase, fits)
      s3 == processOneQueue(s2, <<"HIGH", first>>, phase, fits)
      s4 == processOneQueue(s3, <<"HIGH", second>>, phase, fits)
      s5 == processOneQueue(s4, <<"LOW", first>>, phase, fits)
  IN processOneQueue(s5, <<"LOW", second>>, phase, fits)

(* Mutant: the two modes use each other's list. *)
MutSortOrdersSwapped(s, phase, fits) ==
  loopQueues(s, IF schedmode = "INTERNAL_FIRST" THEN "RING" ELSE "INTERNAL", phase, fits)

(* processQueues; the TOKENS mode has an empty case. *)
processQueues(s, phase, fits) ==
  IF schedmode \in {"FCFS", "RING_FIRST"} THEN loopQueues(s, "RING", phase, fits)
  ELSE IF schedmode = "INTERNAL_FIRST" THEN loopQueues(s, "INTERNAL", phase, fits)
  ELSE IF schedmode = "ZIPPER"
    THEN [loopQueues(s, s.curQueueState, phase, fits)
            EXCEPT !.curQueueState = OtherSide(@)]
  ELSE s

-----------------------------------------------------------------------------
unlock(s) == [s EXCEPT !.transmitLock = FALSE, !.nextUpAnotherExp = FALSE]

(* Mutant: the flag is left as it was when no express frame waits. *)
MutUnlockExpKeepsFlag(s) ==
  [s EXCEPT !.transmitLockExp = FALSE,
            !.nextUpAnotherExp = @ \/ \E side \in Side : s.queues[<<"EXPRESS", side>>] # <<>>]

(* With updateSendtime, which restarts the byte count behind "fits". *)
unlockExp(s) ==
  [s EXCEPT !.transmitLockExp = FALSE,
            !.nextUpAnotherExp = \E side \in Side : s.queues[<<"EXPRESS", side>>] # <<>>]

(* Mutant: the scheduler goes on believing that the wake-up will come. *)
MutResetNothing(s) == s

resetNotifiedToken(s)    == [s EXCEPT !.notifiedToken = FALSE]
resetNotifiedTimeslot(s) == [s EXCEPT !.notifiedTimeslot = FALSE]
=============================================================================
