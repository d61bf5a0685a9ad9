---------------------------- MODULE SchedulerPort ----------------------------
(***************************************************************************)
(* One output port of the switch at work: a scheduler, the events the      *)
(* switch delivers to it (EndNodeSwitch::handleMessage), the two network   *)
(* interfaces it feeds and the passing of time.                            *)
(*                                                                         *)
(* The simulator runs one event handler at a time; every action below is   *)
(* one whole handler.  What may vary is the order of the events: frames    *)
(* from the ring and from the CPU, the self messages that call             *)
(* processQueues, the idle notifications of the interfaces and the timers. *)
(* Events of one instant are taken in any order, a superset of the         *)
(* simulator's.                                                            *)
(***************************************************************************)
EXTENDS Scheduler, SequencesExt

CONSTANTS
  FrameKind,  \* the frames that arrive: [prio, cpu, len]
  MaxFrames   \* bound: frames enqueued in one behaviour

ASSUME SchedulerPortAssumption ==
  /\ FrameKind \subseteq [prio : Priority, cpu : BOOLEAN, len : Nat \ {0}]
  /\ MaxFrames \in Nat

VARIABLES
  sched,      \* the scheduler
  pending,    \* self messages of scheduleProcessQueues not delivered yet
  notify,     \* the normal interface has announced that it is idle
  notifyExp,  \* the express interface has announced that it is idle
  phase,      \* the current time slot phase
  tokenDue,   \* the time of the 'o' self message has come
  slotDue,    \* the time of the 'i' self message has come
  enqueued    \* number of frames enqueued so far

vars == <<sched, pending, notify, notifyExp, phase, tokenDue, slotDue, enqueued>>

Init ==
  /\ sched = initScheduler
  /\ pending = 0
  /\ notify = FALSE
  /\ notifyExp = FALSE
  /\ phase = "high"
  /\ tokenDue = FALSE
  /\ slotDue = FALSE
  /\ enqueued = 0

(* The queue side the switch uses (EndNodeSwitch.cc 224-506): the ring     *)
(* ports keep CPU frames on the internal side; the CPU port gets           *)
(* multicasts on the ring side and frames for or from this node on the     *)
(* internal side, and never a frame of its own CPU.                        *)
SideAllowed(kind, side) ==
  IF schedID = "C" THEN ~ kind.cpu
                   ELSE side = IF kind.cpu THEN "INTERNAL" ELSE "RING"

(* A data frame reaches the switch and is routed to this port. *)
EnqueueFrame(kind, side) ==
  LET f == [id |-> enqueued + 1, prio |-> kind.prio, cpu |-> kind.cpu, len |-> kind.len]
  IN /\ enqueued < MaxFrames
     /\ SideAllowed(kind, side)
     /\ sched' = enqueueMessage(sched, f, <<kind.prio, side>>)
     /\ pending' = pending + 1
     /\ enqueued' = enqueued + 1
     /\ UNCHANGED <<notify, notifyExp, phase, tokenDue, slotDue>>

(* The self message of scheduleProcessQueues is delivered. *)
ProcessSelfMessage(fits) ==
  /\ pending > 0
  /\ pending' = pending - 1
  /\ sched' = processQueues(sched, phase, fits)
  /\ UNCHANGED <<notify, notifyExp, phase, tokenDue, slotDue, enqueued>>

(* An 'o' self message: the container may have filled up. *)
TokenSelfMessage(fits) ==
  /\ tokenDue
  /\ tokenDue' = FALSE
  /\ sched' = processQueues(resetNotifiedToken([sched EXCEPT !.timerToken = FALSE]), phase, fits)
  /\ UNCHANGED <<pending, notify, notifyExp, phase, slotDue, enqueued>>

(* An 'i' self message, at the phase boundary it was scheduled for. *)
TimeslotSelfMessage(fits) ==
  /\ slotDue
  /\ slotDue' = FALSE
  /\ sched' = processQueues(resetNotifiedTimeslot([sched EXCEPT !.timerTimeslot = FALSE]), phase, fits)
  /\ UNCHANGED <<pending, notify, notifyExp, phase, tokenDue, enqueued>>

(* Mutant: the freed interface is not given the next frame. *)
MutInterfaceIdle(fits) ==
  /\ notify
  /\ notify' = FALSE
  /\ sched' = unlock(sched)
  /\ UNCHANGED <<pending, notifyExp, phase, tokenDue, slotDue, enqueued>>

(* The SchedulerSelfMessage of the normal interface arrives. *)
InterfaceIdle(fits) ==
  /\ notify
  /\ notify' = FALSE
  /\ sched' = processQueues(unlock(sched), phase, fits)
  /\ UNCHANGED <<pending, notifyExp, phase, tokenDue, slotDue, enqueued>>

(* The SchedulerSelfMessage of the express interface arrives. *)
ExpressInterfaceIdle(fits) ==
  /\ notifyExp
  /\ notifyExp' = FALSE
  /\ sched' = processQueues(unlockExp(sched), phase, fits)
  /\ UNCHANGED <<pending, notify, phase, tokenDue, slotDue, enqueued>>

-----------------------------------------------------------------------------
(* Outside the scheduler. *)

(* NetworkInterfaceCard::handleMessage on the end of the interframe gap:   *)
(* the frame at the head has been sent; an interface with nothing left in  *)
(* its own queue announces that it is idle.  The CPU announces nothing.    *)
Transmitted ==
  /\ sched.out # <<>>
  /\ sched' = [sched EXCEPT !.out = Tail(@)]
  /\ notify' = IF Tail(sched.out) = <<>> /\ schedID # "C" THEN TRUE ELSE notify
  /\ UNCHANGED <<pending, notifyExp, phase, tokenDue, slotDue, enqueued>>

ExpressTransmitted ==
  /\ sched.outExp # <<>>
  /\ sched' = [sched EXCEPT !.outExp = Tail(@)]
  /\ notifyExp' = IF Tail(sched.outExp) = <<>> /\ schedID # "C" THEN TRUE ELSE notifyExp
  /\ UNCHANGED <<pending, notify, phase, tokenDue, slotDue, enqueued>>

(* Time moves on only when nothing is left to do at the present instant. *)
InstantIsOver == pending = 0 /\ ~ notify /\ ~ notifyExp /\ ~ tokenDue /\ ~ slotDue

(* The next phase of the time slot begins; an 'i' message becomes due. *)
PhaseBoundary ==
  /\ TimeslotsOn
  /\ InstantIsOver
  /\ phase' = IF phase = "high" THEN "low" ELSE "high"
  /\ slotDue' = sched.timerTimeslot
  /\ UNCHANGED <<sched, pending, notify, notifyExp, tokenDue, enqueued>>

(* The time an 'o' message was scheduled for is reached. *)
TokenTime ==
  /\ sched.timerToken
  /\ InstantIsOver
  /\ tokenDue' = TRUE
  /\ UNCHANGED <<sched, pending, notify, notifyExp, phase, slotDue, enqueued>>

(* Another byte of credit since lowSendTime.  More than framebyteLimit + 1 *)
(* makes no difference: the container is cut to the limit then.            *)
CreditGrows ==
  /\ framebyteLimit # -1
  /\ InstantIsOver
  /\ sched.credit <= framebyteLimit
  /\ sched' = [sched EXCEPT !.credit = @ + 1]
  /\ UNCHANGED <<pending, notify, notifyExp, phase, tokenDue, slotDue, enqueued>>

Next ==
  \/ \E kind \in FrameKind, side \in Side : EnqueueFrame(kind, side)
  \/ \E fits \in BOOLEAN :
       \/ ProcessSelfMessage(fits)
       \/ TokenSelfMessage(fits)
       \/ TimeslotSelfMessage(fits)
       \/ InterfaceIdle(fits)
       \/ ExpressInterfaceIdle(fits)
  \/ Transmitted
  \/ ExpressTransmitted
  \/ PhaseBoundary
  \/ TokenTime
  \/ CreditGrows

(* The simulator delivers every event it holds, an interface finishes what *)
(* it started, and time goes on.  The first five say that the handler of   *)
(* a message that is due runs: each takes its message away.  The last      *)
(* three are strong: simulation time grows without bound, so phases end,   *)
(* timers expire and credit grows, although each is disabled while the     *)
(* events of an instant are handled.                                       *)
Fairness ==
  /\ WF_pending(pending > 0 /\ pending' = pending - 1)
  /\ WF_tokenDue(tokenDue /\ tokenDue' = FALSE)
  /\ WF_slotDue(slotDue /\ slotDue' = FALSE)
  /\ WF_notify(notify /\ notify' = FALSE)
  /\ WF_notifyExp(notifyExp /\ notifyExp' = FALSE)
  /\ WF_vars(Transmitted)
  /\ WF_vars(ExpressTransmitted)
  /\ SF_vars(PhaseBoundary)
  /\ SF_vars(TokenTime)
  /\ SF_vars(CreditGrows)

SafeSpec == Init /\ [][Next]_vars
Spec     == SafeSpec /\ Fairness

-----------------------------------------------------------------------------
TypeOK ==
  /\ sched \in SchedulerState
  /\ pending \in Nat
  /\ notify \in BOOLEAN
  /\ notifyExp \in BOOLEAN
  /\ phase \in {"high", "low"}
  /\ tokenDue \in BOOLEAN
  /\ slotDue \in BOOLEAN
  /\ enqueued \in Nat

(* The lock of a ring port is set exactly while its interface has a frame  *)
(* of it, or has reported the end but was not heard yet, and there is      *)
(* never more than one such frame: the port can neither get stuck locked   *)
(* nor hand over a second frame (processOneQueue and the two unlock calls).*)
LockTracksInterface ==
  /\ sched.transmitLock <=> sched.out # <<>> \/ notify
  /\ sched.transmitLockExp <=> sched.outExp # <<>> \/ notifyExp
  /\ Len(sched.out) <= IF notify THEN 0 ELSE 1
  /\ Len(sched.outExp) <= IF notifyExp THEN 0 ELSE 1

(* While an express frame interrupts a frame, the attached frame is the    *)
(* interrupted one and is long enough to be cut (getExpressSendTime).      *)
OnlyLongFramesArePreempted ==
  sched.transmitLock /\ sched.transmitLockExp =>
    /\ sched.sendingStatus.len >= FragmentMin
    /\ sched.out # <<>> => Head(sched.out) = sched.sendingStatus

(* nextUpAnotherExp, which lets an express frame skip the checks on the    *)
(* fragment, never outlives the chain of express frames it was set for: it *)
(* cannot be found set when another normal frame is being sent.            *)
ExpressFlagIsFresh == sched.nextUpAnotherExp => sched.transmitLockExp

(* A wake-up is outstanding exactly when the scheduler believes so. *)
TimersMatchFlags ==
  /\ sched.notifiedToken <=> sched.timerToken
  /\ sched.notifiedTimeslot <=> sched.timerTimeslot
  /\ tokenDue => sched.timerToken
  /\ slotDue => sched.timerTimeslot

(* The traffic limitation exception (Scheduler.cc 488) is not thrown: what *)
(* containerHasEnoughBytes let through is still there when the frame is    *)
(* subtracted, although several queues draw on it in one processing.       *)
LimiterNeverThrows == ~ sched.failed

(* No wakeup is lost: whenever a queue of a ring port holds a frame, some  *)
(* event that will look at the queue again is on its way - the end of a    *)
(* transmission, a scheduled processing, or, for what only time or credit  *)
(* can release, the timer for just that.                                   *)
NoLostWakeup ==
  \A q \in queueName : sched.queues[q] # <<>> =>
    \/ sched.transmitLock
    \/ sched.transmitLockExp
    \/ pending > 0
    \/ q[1] = "HIGH" /\ sched.timerTimeslot
    \/ Limited(Head(sched.queues[q])) /\ sched.timerToken

Starts == Len(sched'.out) > Len(sched.out)

Rank(p) == CASE p = "EXPRESS" -> 1 [] p = "HIGH" -> 2 [] p = "LOW" -> 3

StartsExpress == Len(sched'.outExp) > Len(sched.outExp)

StartRespectsPriority ==
  Starts =>
    LET f == Last(sched'.out)
    IN \A q \in queueName :
         sched'.queues[q] # <<>> /\ Rank(q[1]) < Rank(f.prio) =>
           q[1] = "HIGH" /\ ~ timeslotIsValid(q, phase)

(* Strict priority: when a normal frame starts on a ring port, no express  *)
(* frame waits, and a high frame waits only if the time slot forbids it    *)
(* and the frame that starts is not a high one.                            *)
StrictPriority == [][StartRespectsPriority]_vars

StartRespectsSide ==
  Starts =>
    LET f == Last(sched'.out)
    IN /\ schedmode = "RING_FIRST" /\ f.cpu => sched'.queues[<<f.prio, "RING">>] = <<>>
       /\ schedmode = "INTERNAL_FIRST" /\ ~ f.cpu =>
            LET waiting == sched'.queues[<<f.prio, "INTERNAL">>]
            IN waiting = <<>> \/ Limited(Head(waiting))

(* With ring frames first, a frame of the CPU starts only when no ring     *)
(* frame of its class waits; with internal frames first a ring frame       *)
(* starts only when no CPU frame of its class waits, except low ones held  *)
(* back by the limiter.                                                    *)
SideOrder == [][StartRespectsSide]_vars

StartRespectsArrival ==
  \A f \in (IF Starts THEN {Last(sched'.out)} ELSE {})
           \cup (IF StartsExpress THEN {Last(sched'.outExp)} ELSE {}) :
    \A q \in queueName :
      q[1] = f.prio => \A i \in DOMAIN sched'.queues[q] : sched'.queues[q][i].id > f.id

(* In FCFS mode a frame starts only when no earlier frame of its class     *)
(* waits, whichever side either came from.                                 *)
FirstComeFirstServed == [][StartRespectsArrival]_vars

(* The CPU port takes one frame from each queue per processing and nothing *)
(* ever unlocks it, so every waiting frame needs a processing of its own:  *)
(* no queue is longer than the number of processings still to come.        *)
EveryFrameHasAProcessing == \A q \in queueName : Len(sched.queues[q]) <= pending

(* Every frame is sent in the end: whenever frames wait, the queues are    *)
(* all empty some time later (the arrivals being finitely many), but for   *)
(* one whose front the limiter can never afford: a low frame of the CPU    *)
(* longer than framebyteLimit (Scheduler.cc 424) holds up all behind it,   *)
(* and nothing else ever holds up a queue, its wake-ups included.          *)
Unaffordable(f) == Limited(f) /\ f.len > framebyteLimit

EveryFrameIsSent ==
  (\E q \in queueName : sched.queues[q] # <<>>) ~>
    (\A q \in queueName : sched.queues[q] = <<>> \/ Unaffordable(Head(sched.queues[q])))
=============================================================================
