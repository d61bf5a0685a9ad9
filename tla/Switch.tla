-------------------------------- MODULE Switch --------------------------------
(***************************************************************************)
(* The switch of an end node: the three schedulers of HsrSwitch and the    *)
(* dispatcher EndNodeSwitch::handleMessage, which routes a frame to the    *)
(* queues of one or two of them, names a scheduler in each self message    *)
(* and finds the scheduler of an interface by the arrival gate of its      *)
(* report.                                                                 *)
(*                                                                         *)
(* SchedulerPort describes one port whose events are its own.  This module *)
(* mixes the events of three ports in one handler, and the property is     *)
(* that each port still sees exactly what SchedulerPort promises: what is  *)
(* checked and proved there holds of each port of the whole switch.        *)
(***************************************************************************)
EXTENDS Integers, Sequences

CONSTANTS
  schedmode, framebyteLimit, TimeslotsOn, FragmentMin,  \* as in Scheduler
  Traffic,   \* the frames that come in: [gate, src, dest, prio, len]
  MaxFrames  \* bound: frames that come in during one behaviour

Port     == {"A", "B", "C"}
RingPort == {"A", "B"}
Address  == {"me", "group", "other"}

VARIABLES
  sched,      \* [Port -> scheduler state]
  selfMessages,  \* [HsrSwitchSelfMessage -> how many of them are due now]
  reports,       \* the SchedulerSelfMessages under way
  phase,         \* the current time slot phase
  enqueued,      \* [Port -> number of frames enqueued so far]
  arrived        \* number of frames that have come in

vars == <<sched, selfMessages, reports, phase, enqueued, arrived>>

(* The messages of the switch to itself: type 0 from scheduleProcessQueues *)
(* and the timers of limiter ('o') and time slots ('i').                   *)
HsrSwitchSelfMessage == [schedulerName : Port, type : {"0", "o", "i"}]
selfMessage(p, type) == [schedulerName |-> p, type |-> type]

(* The message of an interface, told apart by the gate it comes in at. *)
SchedulerSelfMessage == [arrivalGate : RingPort \X {"normal", "Exp"}]
report(p, line) == [arrivalGate |-> <<p, line>>]

(* The frames as a port sees them. *)
FrameKind == {[prio |-> t.prio, cpu |-> t.gate = "C", len |-> t.len] : t \in Traffic}

(* The three schedulers: each is the port of SchedulerPort with its own    *)
(* part of the state and its own messages.                                 *)
PortA ==
  INSTANCE SchedulerPort WITH
    schedID   <- "A",
    sched     <- sched["A"],
    pending   <- selfMessages[selfMessage("A", "0")],
    tokenDue  <- selfMessages[selfMessage("A", "o")] > 0,
    slotDue   <- selfMessages[selfMessage("A", "i")] > 0,
    notify    <- report("A", "normal") \in reports,
    notifyExp <- report("A", "Exp") \in reports,
    enqueued  <- enqueued["A"]

PortB ==
  INSTANCE SchedulerPort WITH
    schedID   <- "B",
    sched     <- sched["B"],
    pending   <- selfMessages[selfMessage("B", "0")],
    tokenDue  <- selfMessages[selfMessage("B", "o")] > 0,
    slotDue   <- selfMessages[selfMessage("B", "i")] > 0,
    notify    <- report("B", "normal") \in reports,
    notifyExp <- report("B", "Exp") \in reports,
    enqueued  <- enqueued["B"]

PortC ==
  INSTANCE SchedulerPort WITH
    schedID   <- "C",
    sched     <- sched["C"],
    pending   <- selfMessages[selfMessage("C", "0")],
    tokenDue  <- selfMessages[selfMessage("C", "o")] > 0,
    slotDue   <- selfMessages[selfMessage("C", "i")] > 0,
    notify    <- report("C", "normal") \in reports,
    notifyExp <- report("C", "Exp") \in reports,
    enqueued  <- enqueued["C"]

(* The methods of a scheduler that do not ask for its name. *)
AnyPort == INSTANCE Scheduler WITH schedID <- "A"

(* processQueues does: the scheduler of the CPU heeds no lock. *)
processQueues(p, s, fits) ==
  CASE p = "A" -> PortA!processQueues(s, phase, fits)
    [] p = "B" -> PortB!processQueues(s, phase, fits)
    [] p = "C" -> PortC!processQueues(s, phase, fits)

ASSUME SwitchAssumption ==
  /\ Traffic \subseteq [gate : Port, src : {"me", "other"}, dest : Address,
                        prio : {"EXPRESS", "HIGH", "LOW"}, len : Nat \ {0}]
  /\ \A t \in Traffic : t.gate = "C" => t.src = "me"
  /\ MaxFrames \in Nat
  /\ schedmode \in {"FCFS", "RING_FIRST", "INTERNAL_FIRST", "ZIPPER", "TOKENS"}
  /\ framebyteLimit \in Nat \cup {-1}
  /\ TimeslotsOn \in BOOLEAN
  /\ FragmentMin \in Nat

(* HsrSwitch::initialize. *)
Init ==
  /\ sched        = [p \in Port |-> AnyPort!initScheduler]
  /\ selfMessages = [m \in HsrSwitchSelfMessage |-> 0]
  /\ reports      = {}
  /\ phase        = "high"
  /\ enqueued     = [p \in Port |-> 0]
  /\ arrived      = 0

-----------------------------------------------------------------------------
Opposite(p) == IF p = "A" THEN "B" ELSE "A"

(* The queues that frame t is put in: <<scheduler, side>>.  A frame of     *)
(* this node that has gone round goes to the CPU like one addressed to it. *)
Destinations(t) ==
  IF t.gate # "C" /\ (t.src = "me" \/ t.dest = "me") THEN {<<"C", "INTERNAL">>}
  ELSE IF t.dest = "me" THEN {}
  ELSE IF t.gate = "C"  THEN {<<p, "INTERNAL">> : p \in RingPort}
  ELSE IF t.dest = "group" THEN {<<Opposite(t.gate), "RING">>, <<"C", "RING">>}
  ELSE {<<Opposite(t.gate), "RING">>}

(* Mutant: of two schedulers that got the frame only one is called. *)
MutScheduleProcessQueues(D) ==
  selfMessages' = [m \in HsrSwitchSelfMessage |->
    IF m.type = "0" /\ m.schedulerName \in D /\ (m.schedulerName = "A" => "B" \notin D)
      THEN selfMessages[m] + 1 ELSE selfMessages[m]]

scheduleProcessQueues(D) ==
  selfMessages' = [m \in HsrSwitchSelfMessage |->
    IF m.type = "0" /\ m.schedulerName \in D THEN selfMessages[m] + 1 ELSE selfMessages[m]]

(* A frame arrives at a gate; frames with no destination are deleted. *)
handleFrame(t) ==
  LET D == Destinations(t)
      Got(p) == {d \in D : d[1] = p}
      f(p) == [id |-> enqueued[p] + 1, prio |-> t.prio, cpu |-> t.gate = "C", len |-> t.len]
  IN /\ arrived < MaxFrames
     /\ arrived' = arrived + 1
     /\ sched' = [p \in Port |->
          IF Got(p) = {} THEN sched[p]
          ELSE AnyPort!enqueueMessage(sched[p], f(p), <<t.prio, (CHOOSE d \in D : d[1] = p)[2]>>)]
     /\ enqueued' = [p \in Port |-> IF Got(p) = {} THEN enqueued[p] ELSE enqueued[p] + 1]
     /\ scheduleProcessQueues({d[1] : d \in D})
     /\ UNCHANGED <<reports, phase>>

(* s is the scheduler of port p after its flags or locks were reset. *)
Process(p, s, fits) ==
  sched' = [sched EXCEPT ![p] = processQueues(p, s, fits)]

(* A self message arrives; one of a timer takes back the scheduler's flag. *)
SelfMessage(m, fits) ==
  LET p == m.schedulerName
      s == CASE m.type = "o" -> AnyPort!resetNotifiedToken([sched[p] EXCEPT !.timerToken = FALSE])
             [] m.type = "i" -> AnyPort!resetNotifiedTimeslot([sched[p] EXCEPT !.timerTimeslot = FALSE])
             [] OTHER        -> sched[p]
  IN /\ selfMessages[m] > 0
     /\ selfMessages' = [selfMessages EXCEPT ![m] = @ - 1]
     /\ Process(p, s, fits)
     /\ UNCHANGED <<reports, phase, enqueued, arrived>>

(* Mutant: what the express interface of B reports reaches A. *)
MutInterfaceReports(m, fits) ==
  LET p == m.arrivalGate[1]
  IN /\ m \in reports
     /\ reports' = reports \ {m}
     /\ IF m.arrivalGate[2] = "normal" THEN Process(p, AnyPort!unlock(sched[p]), fits)
        ELSE Process("A", AnyPort!unlockExp(sched["A"]), fits)
     /\ UNCHANGED <<selfMessages, phase, enqueued, arrived>>

(* The report of an interface arrives at its gate. *)
InterfaceReports(m, fits) ==
  LET p == m.arrivalGate[1]
  IN /\ m \in reports
     /\ reports' = reports \ {m}
     /\ Process(p, IF m.arrivalGate[2] = "normal" THEN AnyPort!unlock(sched[p])
                   ELSE AnyPort!unlockExp(sched[p]), fits)
     /\ UNCHANGED <<selfMessages, phase, enqueued, arrived>>

-----------------------------------------------------------------------------
(* The interfaces behind the ports; the CPU reports nothing. *)
Transmitted(p) ==
  /\ \/ /\ sched[p].out # <<>>
        /\ sched' = [sched EXCEPT ![p].out = Tail(@)]
        /\ reports' = IF p # "C" /\ Tail(sched[p].out) = <<>>
                        THEN reports \cup {report(p, "normal")} ELSE reports
     \/ /\ sched[p].outExp # <<>>
        /\ sched' = [sched EXCEPT ![p].outExp = Tail(@)]
        /\ reports' = IF p # "C" /\ Tail(sched[p].outExp) = <<>>
                        THEN reports \cup {report(p, "Exp")} ELSE reports
  /\ UNCHANGED <<selfMessages, phase, enqueued, arrived>>

(* Time moves on when nothing is left to do in the whole switch. *)
InstantIsOver == reports = {} /\ \A m \in HsrSwitchSelfMessage : selfMessages[m] = 0

PhaseBoundary ==
  /\ TimeslotsOn
  /\ InstantIsOver
  /\ phase' = IF phase = "high" THEN "low" ELSE "high"
  /\ selfMessages' = [m \in HsrSwitchSelfMessage |->
       IF m.type = "i" /\ sched[m.schedulerName].timerTimeslot THEN 1 ELSE 0]
  /\ UNCHANGED <<sched, reports, enqueued, arrived>>

TokenTime(p) ==
  /\ sched[p].timerToken
  /\ InstantIsOver
  /\ selfMessages' = [selfMessages EXCEPT ![selfMessage(p, "o")] = 1]
  /\ UNCHANGED <<sched, reports, phase, enqueued, arrived>>

(* One clock: the credit of all schedulers grows by the same byte. *)
CreditGrows ==
  /\ framebyteLimit # -1
  /\ InstantIsOver
  /\ \E p \in Port : sched[p].credit <= framebyteLimit
  /\ sched' = [p \in Port |-> IF sched[p].credit <= framebyteLimit
                                THEN [sched[p] EXCEPT !.credit = @ + 1]
                                ELSE sched[p]]
  /\ UNCHANGED <<selfMessages, reports, phase, enqueued, arrived>>

Next ==
  \/ \E t \in Traffic : handleFrame(t)
  \/ \E m \in HsrSwitchSelfMessage, fits \in BOOLEAN : SelfMessage(m, fits)
  \/ \E m \in SchedulerSelfMessage, fits \in BOOLEAN : InterfaceReports(m, fits)
  \/ \E p \in Port : Transmitted(p)
  \/ PhaseBoundary
  \/ \E p \in Port : TokenTime(p)
  \/ CreditGrows

Spec == Init /\ [][Next]_vars

-----------------------------------------------------------------------------

(* Each port of the switch is a SchedulerPort: the frames come in on the   *)
(* sides that module allows, and no event of one port is taken for another *)
(* port's, lost, or delivered twice (EndNodeSwitch.cc 59-160).             *)
PortsAreSchedulerPorts == PortA!SafeSpec /\ PortB!SafeSpec /\ PortC!SafeSpec

(* No frame is forgotten in either copy: whatever port a frame was routed  *)
(* to, some event that will look at its queue again is on its way there;   *)
(* on the CPU's port one event for every frame.                            *)
NoPortForgets ==
  PortA!NoLostWakeup /\ PortB!NoLostWakeup /\ PortC!EveryFrameHasAProcessing
=============================================================================
