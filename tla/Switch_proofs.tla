---------------------------- MODULE Switch_proofs ----------------------------
(***************************************************************************)
(* For any traffic, mode, limit and slot setting: the switch is the        *)
(* composition of three ports (PortsAreSchedulerPorts), and so everything  *)
(* proved of one port in SchedulerPort_proofs holds of each port of the    *)
(* whole switch.                                                           *)
(*                                                                         *)
(* PA, PB and PC are the ports once more, with the theorems about them;    *)
(* that their definitions are those of PortA, PortB and PortC is said      *)
(* method by method (SameProcessing, SamePort, SamePromises).              *)
(***************************************************************************)
EXTENDS Switch, TLAPS

(* The switch as a whole: what holds of its messages and counters.         *)

(* No timer message is due twice, and a port gets at most one copy of a    *)
(* frame.                                                                  *)
SwitchInv ==
  /\ sched = [p \in Port |-> sched[p]]
  /\ selfMessages \in [HsrSwitchSelfMessage -> Nat]
  /\ enqueued \in [Port -> Nat]
  /\ arrived \in Nat
  /\ \A p \in Port : /\ enqueued[p] <= arrived
                     /\ selfMessages[selfMessage(p, "o")] <= 1
                     /\ selfMessages[selfMessage(p, "i")] <= 1

(* A self message is told apart by its scheduler and type. *)
LEMMA MessageNames ==
  /\ \A p \in Port, type \in {"0", "o", "i"} : selfMessage(p, type) \in HsrSwitchSelfMessage
  /\ \A m \in HsrSwitchSelfMessage : /\ m.schedulerName \in Port
                                     /\ m.type \in {"0", "o", "i"}
                                     /\ m = selfMessage(m.schedulerName, m.type)
  /\ \A p, q, type, kind : selfMessage(p, type) = selfMessage(q, kind) => p = q /\ type = kind
  /\ \A p, type : selfMessage(p, type).schedulerName = p /\ selfMessage(p, type).type = type
BY DEF HsrSwitchSelfMessage, selfMessage

(* The same of the interfaces' reports. *)
LEMMA ReportNames ==
  /\ \A m \in SchedulerSelfMessage : /\ m.arrivalGate[1] \in RingPort
                                     /\ m.arrivalGate[2] \in {"normal", "Exp"}
                                     /\ m = report(m.arrivalGate[1], m.arrivalGate[2])
  /\ \A p, q, line, other : report(p, line) = report(q, other) => p = q /\ line = other
BY DEF SchedulerSelfMessage, report

(* The three schedulers start alike. *)
LEMMA SwitchInit == ASSUME Init PROVE SwitchInv
BY MessageNames DEF Init, SwitchInv

(* The invariant is inductive. *)
LEMMA SwitchInductive ==
  ASSUME SwitchInv, [Next]_vars
  PROVE  SwitchInv'
<1> USE MessageNames DEF SwitchInv
<1>1. ASSUME NEW t \in Traffic, handleFrame(t)
      PROVE  SwitchInv'
  <2>1. /\ sched' = [p \in Port |-> sched'[p]]
        /\ arrived' = arrived + 1
        /\ UNCHANGED <<reports, phase>>
    BY <1>1 DEF handleFrame
  <2>2. \A p \in Port : enqueued'[p] = enqueued[p] \/ enqueued'[p] = enqueued[p] + 1
    BY <1>1 DEF handleFrame
  <2>3. enqueued' \in [Port -> Nat]
    <3>1. enqueued' = [p \in Port |-> enqueued'[p]]
      BY <1>1 DEF handleFrame
    <3>2. QED
      BY <2>2, <3>1
  <2>4. /\ selfMessages' = [m \in HsrSwitchSelfMessage |-> selfMessages'[m]]
        /\ \A m \in HsrSwitchSelfMessage :
             \/ selfMessages'[m] = selfMessages[m]
             \/ m.type = "0" /\ selfMessages'[m] = selfMessages[m] + 1
    BY <1>1 DEF handleFrame, scheduleProcessQueues
  <2>5. selfMessages' \in [HsrSwitchSelfMessage -> Nat]
    BY <2>4
  <2>6. \A p \in Port : /\ selfMessages'[selfMessage(p, "o")] <= 1
                        /\ selfMessages'[selfMessage(p, "i")] <= 1
    BY <2>4
  <2>7. arrived' \in Nat /\ \A p \in Port : enqueued'[p] <= arrived'
    BY <2>1, <2>2
  <2>8. QED
    BY <2>1, <2>3, <2>5, <2>6, <2>7, Zenon
<1>2. ASSUME NEW m \in HsrSwitchSelfMessage, NEW fits \in BOOLEAN, SelfMessage(m, fits)
      PROVE  SwitchInv'
  <2>1. \E s : sched' = [sched EXCEPT ![m.schedulerName] = s]
    BY <1>2, Zenon DEF SelfMessage, Process
  <2>2. sched' = [p \in Port |-> sched'[p]]
    BY <2>1
  <2>3. /\ selfMessages[m] > 0
        /\ selfMessages' = [selfMessages EXCEPT ![m] = @ - 1]
        /\ UNCHANGED <<enqueued, arrived>>
    BY <1>2, Zenon DEF SelfMessage
  <2>4. selfMessages' \in [HsrSwitchSelfMessage -> Nat]
    BY <2>3
  <2>5. \A p \in Port : /\ selfMessages'[selfMessage(p, "o")] <= 1
                        /\ selfMessages'[selfMessage(p, "i")] <= 1
    BY <2>3
  <2>6. QED
    BY <2>2, <2>3, <2>4, <2>5, Zenon
<1>3. ASSUME NEW m \in SchedulerSelfMessage, NEW fits \in BOOLEAN, InterfaceReports(m, fits)
      PROVE  SwitchInv'
  BY <1>3 DEF InterfaceReports, Process
<1>4. ASSUME NEW p \in Port, Transmitted(p)
      PROVE  SwitchInv'
  BY <1>4 DEF Transmitted
<1>5. CASE PhaseBoundary
  BY <1>5 DEF PhaseBoundary
<1>6. ASSUME NEW p \in Port, TokenTime(p)
      PROVE  SwitchInv'
  BY <1>6 DEF TokenTime
<1>7. CASE CreditGrows
  BY <1>7 DEF CreditGrows
<1>8. CASE UNCHANGED vars
  BY <1>8 DEF vars
<1>9. QED
  BY <1>1, <1>2, <1>3, <1>4, <1>5, <1>6, <1>7, <1>8 DEF Next

-----------------------------------------------------------------------------
(* What each action of the switch does to one port.                        *)

(* Nothing of port p changes but, perhaps, its scheduler. *)
SameMessages(p) ==
  /\ \A type \in {"0", "o", "i"} :
       selfMessages'[selfMessage(p, type)] = selfMessages[selfMessage(p, type)]
  /\ enqueued'[p] = enqueued[p]
  /\ phase' = phase

SameReports(p) ==
  \A line \in {"normal", "Exp"} : (report(p, line) \in reports') = (report(p, line) \in reports)

Untouched(p) == SameMessages(p) /\ SameReports(p) /\ sched'[p] = sched[p]

(* A frame is routed past port p, or is put into one of its queues on the  *)
(* side SchedulerPort allows, with one processing scheduled for it.        *)
LEMMA FrameRouted ==
  ASSUME SwitchInv, NEW t \in Traffic, handleFrame(t), NEW p \in Port
  PROVE  \/ Untouched(p)
         \/ /\ enqueued[p] < MaxFrames
            /\ \E side \in {"RING", "INTERNAL"} :
                 /\ IF p = "C" THEN t.gate # "C"
                               ELSE side = IF t.gate = "C" THEN "INTERNAL" ELSE "RING"
                 /\ sched'[p] = AnyPort!enqueueMessage(sched[p],
                      [id |-> enqueued[p] + 1, prio |-> t.prio, cpu |-> t.gate = "C", len |-> t.len],
                      <<t.prio, side>>)
            /\ selfMessages'[selfMessage(p, "0")] = selfMessages[selfMessage(p, "0")] + 1
            /\ selfMessages'[selfMessage(p, "o")] = selfMessages[selfMessage(p, "o")]
            /\ selfMessages'[selfMessage(p, "i")] = selfMessages[selfMessage(p, "i")]
            /\ enqueued'[p] = enqueued[p] + 1
            /\ UNCHANGED <<reports, phase>>
<1> DEFINE D   == Destinations(t)
           Got == {d \in D : d[1] = p}
           f   == [id |-> enqueued[p] + 1, prio |-> t.prio, cpu |-> t.gate = "C", len |-> t.len]
<1>1. /\ arrived < MaxFrames
      /\ sched'[p] = IF Got = {} THEN sched[p]
                     ELSE AnyPort!enqueueMessage(sched[p], f, <<t.prio, (CHOOSE d \in D : d[1] = p)[2]>>)
      /\ enqueued'[p] = IF Got = {} THEN enqueued[p] ELSE enqueued[p] + 1
      /\ scheduleProcessQueues({d[1] : d \in D})
      /\ UNCHANGED <<reports, phase>>
  BY DEF handleFrame
<1>2. enqueued[p] < MaxFrames
  BY <1>1, SwitchAssumption DEF SwitchInv
<1>3. \A type \in {"0", "o", "i"} :
        selfMessages'[selfMessage(p, type)] =
          IF type = "0" /\ p \in {d[1] : d \in D} THEN selfMessages[selfMessage(p, type)] + 1
          ELSE selfMessages[selfMessage(p, type)]
  BY <1>1, MessageNames DEF scheduleProcessQueues
<1>4. CASE Got = {}
  <2>1. p \notin {d[1] : d \in D}
    BY <1>4
  <2>2. QED
    BY <1>1, <1>3, <1>4, <2>1 DEF Untouched, SameMessages, SameReports
<1>5. CASE Got # {}
  <2> DEFINE e == CHOOSE d \in D : d[1] = p
  <2>1. e \in D /\ e[1] = p
    BY <1>5
  <2>2. p \in {d[1] : d \in D}
    BY <2>1
  <2>3. /\ e[2] \in {"RING", "INTERNAL"}
        /\ IF p = "C" THEN t.gate # "C"
                      ELSE e[2] = IF t.gate = "C" THEN "INTERNAL" ELSE "RING"
    <3>1. t.gate \in Port /\ (t.gate = "C" => t.src = "me")
      BY SwitchAssumption
    <3>2. QED
      BY <2>1, <3>1 DEF Destinations, Port, RingPort, Opposite
  <2>4. sched'[p] = AnyPort!enqueueMessage(sched[p], f, <<t.prio, e[2]>>)
    BY <1>1, <1>5
  <2>5. enqueued'[p] = enqueued[p] + 1
    BY <1>1, <1>5
  <2> HIDE DEF D, Got, e
  <2>6. QED
    BY <1>1, <1>2, <1>3, <2>2, <2>3, <2>4, <2>5
<1>6. QED
  BY <1>4, <1>5

(* The scheduler a self message is for, as its handler finds it. *)
Woken(m) ==
  LET s == sched[m.schedulerName]
  IN CASE m.type = "o" -> AnyPort!resetNotifiedToken([s EXCEPT !.timerToken = FALSE])
       [] m.type = "i" -> AnyPort!resetNotifiedTimeslot([s EXCEPT !.timerTimeslot = FALSE])
       [] OTHER        -> s

(* A self message wakes the scheduler it names, and no other.              *)
LEMMA SelfMessageDelivered ==
  ASSUME SwitchInv, NEW p \in Port, NEW type \in {"0", "o", "i"}, NEW fits,
         SelfMessage(selfMessage(p, type), fits)
  PROVE  /\ selfMessages[selfMessage(p, type)] > 0
         /\ selfMessages'[selfMessage(p, type)] = selfMessages[selfMessage(p, type)] - 1
         /\ \A other \in {"0", "o", "i"} : other # type =>
              selfMessages'[selfMessage(p, other)] = selfMessages[selfMessage(p, other)]
         /\ sched'[p] = processQueues(p, Woken(selfMessage(p, type)), fits)
         /\ UNCHANGED <<reports, phase, enqueued>>
         /\ \A q \in Port : q # p => Untouched(q)
<1> DEFINE m == selfMessage(p, type)
<1>1. /\ m \in HsrSwitchSelfMessage /\ m.schedulerName = p /\ m.type = type
      /\ \A q \in Port, other \in {"0", "o", "i"} :
           (q # p \/ other # type) => selfMessage(q, other) # m
  BY MessageNames
<1>2. /\ selfMessages[m] > 0
      /\ selfMessages' = [selfMessages EXCEPT ![m] = @ - 1]
      /\ sched' = [sched EXCEPT ![p] = processQueues(p, Woken(m), fits)]
      /\ UNCHANGED <<reports, phase, enqueued>>
  <2> HIDE DEF m
  <2>1. QED
    BY <1>1 DEF SelfMessage, Process, Woken, m
<1> HIDE DEF m
<1>3. \A k \in HsrSwitchSelfMessage :
        selfMessages'[k] = IF k = m THEN selfMessages[m] - 1 ELSE selfMessages[k]
  BY <1>2 DEF SwitchInv
<1>4. \A q \in Port : sched'[q] = IF q = p THEN processQueues(p, Woken(m), fits) ELSE sched[q]
  BY <1>2 DEF SwitchInv
<1>5. \A q \in Port, other \in {"0", "o", "i"} : selfMessage(q, other) \in HsrSwitchSelfMessage
  BY MessageNames
<1>6. \A q \in Port : q # p => Untouched(q)
  BY <1>1, <1>2, <1>3, <1>4, <1>5 DEF Untouched, SameMessages, SameReports
<1>7. QED
  BY <1>1, <1>2, <1>3, <1>4, <1>5, <1>6 DEF m

(* The report of an interface unlocks the port whose gate it comes in at,  *)
(* and no other.                                                           *)
LEMMA ReportDelivered ==
  ASSUME SwitchInv, NEW p \in RingPort, NEW line \in {"normal", "Exp"}, NEW fits,
         InterfaceReports(report(p, line), fits)
  PROVE  /\ report(p, line) \in reports
         /\ reports' = reports \ {report(p, line)}
         /\ sched'[p] = processQueues(p, IF line = "normal" THEN AnyPort!unlock(sched[p])
                                         ELSE AnyPort!unlockExp(sched[p]), fits)
         /\ SameMessages(p)
         /\ \A q \in Port : q # p => Untouched(q)
<1> DEFINE m == report(p, line)
<1>1. m.arrivalGate[1] = p /\ m.arrivalGate[2] = line /\ p \in Port
  BY DEF report, RingPort, Port
<1>2. /\ m \in reports
      /\ reports' = reports \ {m}
      /\ sched' = [sched EXCEPT ![p] =
                     processQueues(p, IF line = "normal" THEN AnyPort!unlock(sched[p])
                                      ELSE AnyPort!unlockExp(sched[p]), fits)]
      /\ UNCHANGED <<selfMessages, phase, enqueued>>
  <2> HIDE DEF m
  <2>1. QED
    BY <1>1 DEF InterfaceReports, Process, m
<1>3. \A q \in Port : q # p => sched'[q] = sched[q] /\ SameReports(q)
  <2>1. \A q, other : q # p => report(q, other) # m
    BY ReportNames
  <2> HIDE DEF m
  <2>2. QED
    BY <1>2, <2>1 DEF SwitchInv, SameReports
<1>4. sched'[p] = processQueues(p, IF line = "normal" THEN AnyPort!unlock(sched[p])
                                   ELSE AnyPort!unlockExp(sched[p]), fits)
  BY <1>1, <1>2 DEF SwitchInv
<1>5. \A q \in Port : SameMessages(q)
  BY <1>2 DEF SameMessages
<1>6. QED
  BY <1>1, <1>2, <1>3, <1>4, <1>5 DEF Untouched

(* An interface is done with a frame: only its own port hears of it.       *)
LEMMA TransmittedBy ==
  ASSUME SwitchInv, NEW p \in Port, Transmitted(p), NEW q \in Port, q # p
  PROVE  Untouched(q)
<1>1. sched'[q] = sched[q]
  BY DEF Transmitted, SwitchInv
<1>2. \A line \in {"normal", "Exp"} : (report(q, line) \in reports') = (report(q, line) \in reports)
  BY ReportNames DEF Transmitted
<1>3. QED
  BY <1>1, <1>2 DEF Transmitted, Untouched, SameMessages, SameReports

(* Every step of the switch is a step of port A, or does not concern it.   *)
LEMMA PortAStep ==
  ASSUME SwitchInv, sched["A"].timerTimeslot \in BOOLEAN, [Next]_vars
  PROVE  [PortA!Next]_(PortA!vars)
<1>0. "A" \in Port
  BY DEF Port
<1>1. ASSUME Untouched("A")
      PROVE  UNCHANGED PortA!vars
  BY <1>1 DEF Untouched, SameMessages, SameReports, PortA!vars
<1>2. ASSUME NEW t \in Traffic, handleFrame(t)
      PROVE  [PortA!Next]_(PortA!vars)
  <2>1. CASE Untouched("A")
    BY <1>1, <2>1
  <2>2. CASE ~ Untouched("A")
    <3> DEFINE kind == [prio |-> t.prio, cpu |-> t.gate = "C", len |-> t.len]
    <3>1. kind \in FrameKind
      BY DEF FrameKind
    <3>2. kind.prio = t.prio /\ kind.len = t.len /\ kind.cpu = (t.gate = "C")
      OBVIOUS
    <3> HIDE DEF kind
    <3>3. PICK side \in {"RING", "INTERNAL"} :
            /\ IF "A" = "C" THEN t.gate # "C"
                            ELSE side = IF t.gate = "C" THEN "INTERNAL" ELSE "RING"
            /\ sched'["A"] = AnyPort!enqueueMessage(sched["A"],
                 [id |-> enqueued["A"] + 1, prio |-> t.prio, cpu |-> t.gate = "C", len |-> t.len],
                 <<t.prio, side>>)
      BY <1>0, <1>2, <2>2, FrameRouted
    <3>4. PortA!SideAllowed(kind, side)
      BY <3>2, <3>3 DEF PortA!SideAllowed
    <3>5. sched'["A"] = PortA!enqueueMessage(sched["A"],
            [id |-> enqueued["A"] + 1, prio |-> kind.prio, cpu |-> kind.cpu, len |-> kind.len],
            <<kind.prio, side>>)
      BY <3>2, <3>3, Zenon DEF PortA!enqueueMessage, AnyPort!enqueueMessage
    <3>6. /\ enqueued["A"] < MaxFrames
          /\ selfMessages'[selfMessage("A", "0")] = selfMessages[selfMessage("A", "0")] + 1
          /\ selfMessages'[selfMessage("A", "o")] = selfMessages[selfMessage("A", "o")]
          /\ selfMessages'[selfMessage("A", "i")] = selfMessages[selfMessage("A", "i")]
          /\ enqueued'["A"] = enqueued["A"] + 1
          /\ UNCHANGED <<reports, phase>>
      BY <1>0, <1>2, <2>2, FrameRouted
    <3>7. PortA!EnqueueFrame(kind, side)
      BY <3>4, <3>5, <3>6 DEF PortA!EnqueueFrame
    <3>8. QED
      BY <3>1, <3>7 DEF PortA!Next, PortA!Side
  <2>3. QED
    BY <2>1, <2>2
<1>3. ASSUME NEW m \in HsrSwitchSelfMessage, NEW fits \in BOOLEAN, SelfMessage(m, fits)
      PROVE  [PortA!Next]_(PortA!vars)
  <2>1. PICK p \in Port, type \in {"0", "o", "i"} : m = selfMessage(p, type)
    BY MessageNames
  <2>2. CASE p # "A"
    BY <1>0, <1>1, <1>3, <2>1, <2>2, SelfMessageDelivered
  <2>3. CASE p = "A"
    <3>1. processQueues("A", Woken(m), fits) = PortA!processQueues(Woken(m), phase, fits)
      BY DEF processQueues
    <3>2. m.schedulerName = "A" /\ m.type = type
      BY <2>1, <2>3, MessageNames
    <3>3. CASE type = "0"
      <4>1. Woken(m) = sched["A"]
        BY <3>2, <3>3 DEF Woken
      <4>2. PortA!ProcessSelfMessage(fits)
        BY <1>0, <1>3, <2>1, <2>3, <3>1, <3>3, <4>1, SelfMessageDelivered
        DEF PortA!ProcessSelfMessage
      <4>3. QED
        BY <4>2 DEF PortA!Next
    <3>4. CASE type = "o"
      <4>1. Woken(m) = PortA!resetNotifiedToken([sched["A"] EXCEPT !.timerToken = FALSE])
        BY <3>2, <3>4 DEF Woken, AnyPort!resetNotifiedToken, PortA!resetNotifiedToken
      <4>2. selfMessages[m] = 1
        BY <1>0, <1>3, <2>1, <2>3, <3>4, SelfMessageDelivered, MessageNames DEF SwitchInv
      <4>3. PortA!TokenSelfMessage(fits)
        BY <1>0, <1>3, <2>1, <2>3, <3>1, <3>4, <4>1, <4>2, SelfMessageDelivered
        DEF PortA!TokenSelfMessage
      <4>4. QED
        BY <4>3 DEF PortA!Next
    <3>5. CASE type = "i"
      <4>1. Woken(m) = PortA!resetNotifiedTimeslot([sched["A"] EXCEPT !.timerTimeslot = FALSE])
        BY <3>2, <3>5 DEF Woken, AnyPort!resetNotifiedTimeslot, PortA!resetNotifiedTimeslot
      <4>2. selfMessages[m] = 1
        BY <1>0, <1>3, <2>1, <2>3, <3>5, SelfMessageDelivered, MessageNames DEF SwitchInv
      <4>3. PortA!TimeslotSelfMessage(fits)
        BY <1>0, <1>3, <2>1, <2>3, <3>1, <3>5, <4>1, <4>2, SelfMessageDelivered
        DEF PortA!TimeslotSelfMessage
      <4>4. QED
        BY <4>3 DEF PortA!Next
    <3>6. QED
      BY <3>3, <3>4, <3>5
  <2>4. QED
    BY <2>2, <2>3
<1>4. ASSUME NEW m \in SchedulerSelfMessage, NEW fits \in BOOLEAN, InterfaceReports(m, fits)
      PROVE  [PortA!Next]_(PortA!vars)
  <2>1. PICK p \in RingPort, line \in {"normal", "Exp"} : m = report(p, line)
    BY ReportNames
  <2>2. CASE p # "A"
    BY <1>0, <1>1, <1>4, <2>1, <2>2, ReportDelivered
  <2>3. CASE p = "A"
    <3>1. \A s : processQueues("A", s, fits) = PortA!processQueues(s, phase, fits)
      BY DEF processQueues
    <3>2. CASE line = "normal"
      <4>1. AnyPort!unlock(sched["A"]) = PortA!unlock(sched["A"])
        BY DEF AnyPort!unlock, PortA!unlock
      <4>2. report("A", "Exp") # m
        BY <2>1, <3>2, ReportNames
      <4>3. PortA!InterfaceIdle(fits)
        BY <1>4, <2>1, <2>3, <3>1, <3>2, <4>1, <4>2, ReportDelivered
        DEF PortA!InterfaceIdle, SameMessages
      <4>4. QED
        BY <4>3 DEF PortA!Next
    <3>3. CASE line = "Exp"
      <4>1. AnyPort!unlockExp(sched["A"]) = PortA!unlockExp(sched["A"])
        BY DEF AnyPort!unlockExp, PortA!unlockExp, AnyPort!Side, PortA!Side
      <4>2. report("A", "normal") # m
        BY <2>1, <3>3, ReportNames
      <4>3. PortA!ExpressInterfaceIdle(fits)
        BY <1>4, <2>1, <2>3, <3>1, <3>3, <4>1, <4>2, ReportDelivered
        DEF PortA!ExpressInterfaceIdle, SameMessages
      <4>4. QED
        BY <4>3 DEF PortA!Next
    <3>4. QED
      BY <3>2, <3>3
  <2>4. QED
    BY <2>2, <2>3
<1>5. ASSUME NEW p \in Port, Transmitted(p)
      PROVE  [PortA!Next]_(PortA!vars)
  <2>1. CASE p # "A"
    BY <1>0, <1>1, <1>5, <2>1, TransmittedBy
  <2>2. CASE p = "A"
    <3>1. report("A", "normal") # report("A", "Exp")
      BY ReportNames
    <3>2. CASE /\ sched["A"].out # <<>>
               /\ sched' = [sched EXCEPT !["A"].out = Tail(@)]
               /\ reports' = IF "A" # "C" /\ Tail(sched["A"].out) = <<>>
                               THEN reports \cup {report("A", "normal")} ELSE reports
      <4>1. sched'["A"] = [sched["A"] EXCEPT !.out = Tail(@)]
        BY <1>0, <3>2 DEF SwitchInv
      <4>2. /\ (report("A", "Exp") \in reports') = (report("A", "Exp") \in reports)
            /\ (report("A", "normal") \in reports') =
                 IF Tail(sched["A"].out) = <<>> /\ "A" # "C"
                   THEN TRUE ELSE report("A", "normal") \in reports
        <5>1. CASE Tail(sched["A"].out) = <<>>
          <6>1. reports' = reports \cup {report("A", "normal")}
            BY <3>2, <5>1
          <6>2. (report("A", "normal") \in reports') = TRUE
            BY <6>1
          <6>3. (report("A", "Exp") \in reports') = (report("A", "Exp") \in reports)
            BY <3>1, <6>1
          <6>4. QED
            BY <5>1, <6>2, <6>3, Zenon
        <5>2. CASE Tail(sched["A"].out) # <<>>
          BY <3>2, <5>2
        <5>3. QED
          BY <5>1, <5>2
      <4>3. UNCHANGED <<selfMessages, phase, enqueued>>
        BY <1>5 DEF Transmitted
      <4>4. PortA!Transmitted
        BY <3>2, <4>1, <4>2, <4>3, Zenon DEF PortA!Transmitted
      <4>5. QED
        BY <4>4 DEF PortA!Next
    <3>3. CASE /\ sched["A"].outExp # <<>>
               /\ sched' = [sched EXCEPT !["A"].outExp = Tail(@)]
               /\ reports' = IF "A" # "C" /\ Tail(sched["A"].outExp) = <<>>
                               THEN reports \cup {report("A", "Exp")} ELSE reports
      <4>1. sched'["A"] = [sched["A"] EXCEPT !.outExp = Tail(@)]
        BY <1>0, <3>3 DEF SwitchInv
      <4>2. /\ (report("A", "normal") \in reports') = (report("A", "normal") \in reports)
            /\ (report("A", "Exp") \in reports') =
                 IF Tail(sched["A"].outExp) = <<>> /\ "A" # "C"
                   THEN TRUE ELSE report("A", "Exp") \in reports
        <5>1. CASE Tail(sched["A"].outExp) = <<>>
          <6>1. reports' = reports \cup {report("A", "Exp")}
            BY <3>3, <5>1
          <6>2. (report("A", "Exp") \in reports') = TRUE
            BY <6>1
          <6>3. (report("A", "normal") \in reports') = (report("A", "normal") \in reports)
            BY <3>1, <6>1
          <6>4. QED
            BY <5>1, <6>2, <6>3, Zenon
        <5>2. CASE Tail(sched["A"].outExp) # <<>>
          BY <3>3, <5>2
        <5>3. QED
          BY <5>1, <5>2
      <4>3. UNCHANGED <<selfMessages, phase, enqueued>>
        BY <1>5 DEF Transmitted
      <4>4. PortA!ExpressTransmitted
        BY <3>3, <4>1, <4>2, <4>3, Zenon DEF PortA!ExpressTransmitted
      <4>5. QED
        BY <4>4 DEF PortA!Next
    <3>4. QED
      BY <1>5, <2>2, <3>2, <3>3 DEF Transmitted
  <2>3. QED
    BY <2>1, <2>2
<1>6. CASE PhaseBoundary
  <2>1. PortA!InstantIsOver
    BY <1>0, <1>6, MessageNames DEF PhaseBoundary, InstantIsOver, PortA!InstantIsOver
  <2>2. /\ selfMessages'[selfMessage("A", "i")] = IF sched["A"].timerTimeslot THEN 1 ELSE 0
        /\ selfMessages'[selfMessage("A", "o")] = 0
        /\ selfMessages'[selfMessage("A", "0")] = 0
        /\ selfMessages[selfMessage("A", "o")] = 0
        /\ selfMessages[selfMessage("A", "0")] = 0
    BY <1>0, <1>6, MessageNames DEF PhaseBoundary, InstantIsOver
  <2>3. PortA!PhaseBoundary
    BY <1>6, <2>1, <2>2 DEF PhaseBoundary, PortA!PhaseBoundary
  <2>4. QED
    BY <2>3 DEF PortA!Next
<1>7. ASSUME NEW p \in Port, TokenTime(p)
      PROVE  [PortA!Next]_(PortA!vars)
  <2>1. CASE p # "A"
    <3>1. Untouched("A")
      BY <1>0, <1>7, <2>1, MessageNames
      DEF TokenTime, SwitchInv, Untouched, SameMessages, SameReports
    <3>2. QED
      BY <1>1, <3>1
  <2>2. CASE p = "A"
    <3>1. PortA!InstantIsOver
      BY <1>0, <1>7, MessageNames DEF TokenTime, InstantIsOver, PortA!InstantIsOver
    <3>2. PortA!TokenTime
      BY <1>0, <1>7, <2>2, <3>1, MessageNames DEF TokenTime, SwitchInv, PortA!TokenTime
    <3>3. QED
      BY <3>2 DEF PortA!Next
  <2>3. QED
    BY <2>1, <2>2
<1>8. CASE CreditGrows
  <2>1. PortA!InstantIsOver
    BY <1>0, <1>8, MessageNames DEF CreditGrows, InstantIsOver, PortA!InstantIsOver
  <2>2. CASE sched["A"].credit <= framebyteLimit
    <3>1. PortA!CreditGrows
      BY <1>0, <1>8, <2>1, <2>2 DEF CreditGrows, PortA!CreditGrows
    <3>2. QED
      BY <3>1 DEF PortA!Next
  <2>3. CASE ~ (sched["A"].credit <= framebyteLimit)
    <3>1. Untouched("A")
      BY <1>0, <1>8, <2>3 DEF CreditGrows, Untouched, SameMessages, SameReports
    <3>2. QED
      BY <1>1, <3>1
  <2>4. QED
    BY <2>2, <2>3
<1>9. CASE UNCHANGED vars
  BY <1>9 DEF vars, PortA!vars
<1>10. QED
  BY <1>2, <1>3, <1>4, <1>5, <1>6, <1>7, <1>8, <1>9 DEF Next

(* Every step of the switch is a step of port B, or does not concern it.   *)
LEMMA PortBStep ==
  ASSUME SwitchInv, sched["B"].timerTimeslot \in BOOLEAN, [Next]_vars
  PROVE  [PortB!Next]_(PortB!vars)
<1>0. "B" \in Port
  BY DEF Port
<1>1. ASSUME Untouched("B")
      PROVE  UNCHANGED PortB!vars
  BY <1>1 DEF Untouched, SameMessages, SameReports, PortB!vars
<1>2. ASSUME NEW t \in Traffic, handleFrame(t)
      PROVE  [PortB!Next]_(PortB!vars)
  <2>1. CASE Untouched("B")
    BY <1>1, <2>1
  <2>2. CASE ~ Untouched("B")
    <3> DEFINE kind == [prio |-> t.prio, cpu |-> t.gate = "C", len |-> t.len]
    <3>1. kind \in FrameKind
      BY DEF FrameKind
    <3>2. kind.prio = t.prio /\ kind.len = t.len /\ kind.cpu = (t.gate = "C")
      OBVIOUS
    <3> HIDE DEF kind
    <3>3. PICK side \in {"RING", "INTERNAL"} :
            /\ IF "B" = "C" THEN t.gate # "C"
                            ELSE side = IF t.gate = "C" THEN "INTERNAL" ELSE "RING"
            /\ sched'["B"] = AnyPort!enqueueMessage(sched["B"],
                 [id |-> enqueued["B"] + 1, prio |-> t.prio, cpu |-> t.gate = "C", len |-> t.len],
                 <<t.prio, side>>)
      BY <1>0, <1>2, <2>2, FrameRouted
    <3>4. PortB!SideAllowed(kind, side)
      BY <3>2, <3>3 DEF PortB!SideAllowed
    <3>5. sched'["B"] = PortB!enqueueMessage(sched["B"],
            [id |-> enqueued["B"] + 1, prio |-> kind.prio, cpu |-> kind.cpu, len |-> kind.len],
            <<kind.prio, side>>)
      BY <3>2, <3>3, Zenon DEF PortB!enqueueMessage, AnyPort!enqueueMessage
    <3>6. /\ enqueued["B"] < MaxFrames
          /\ selfMessages'[selfMessage("B", "0")] = selfMessages[selfMessage("B", "0")] + 1
          /\ selfMessages'[selfMessage("B", "o")] = selfMessages[selfMessage("B", "o")]
          /\ selfMessages'[selfMessage("B", "i")] = selfMessages[selfMessage("B", "i")]
          /\ enqueued'["B"] = enqueued["B"] + 1
          /\ UNCHANGED <<reports, phase>>
      BY <1>0, <1>2, <2>2, FrameRouted
    <3>7. PortB!EnqueueFrame(kind, side)
      BY <3>4, <3>5, <3>6 DEF PortB!EnqueueFrame
    <3>8. QED
      BY <3>1, <3>7 DEF PortB!Next, PortB!Side
  <2>3. QED
    BY <2>1, <2>2
<1>3. ASSUME NEW m \in HsrSwitchSelfMessage, NEW fits \in BOOLEAN, SelfMessage(m, fits)
      PROVE  [PortB!Next]_(PortB!vars)
  <2>1. PICK p \in Port, type \in {"0", "o", "i"} : m = selfMessage(p, type)
    BY MessageNames
  <2>2. CASE p # "B"
    BY <1>0, <1>1, <1>3, <2>1, <2>2, SelfMessageDelivered
  <2>3. CASE p = "B"
    <3>1. processQueues("B", Woken(m), fits) = PortB!processQueues(Woken(m), phase, fits)
      BY DEF processQueues
    <3>2. m.schedulerName = "B" /\ m.type = type
      BY <2>1, <2>3, MessageNames
    <3>3. CASE type = "0"
      <4>1. Woken(m) = sched["B"]
        BY <3>2, <3>3 DEF Woken
      <4>2. PortB!ProcessSelfMessage(fits)
        BY <1>0, <1>3, <2>1, <2>3, <3>1, <3>3, <4>1, SelfMessageDelivered
        DEF PortB!ProcessSelfMessage
      <4>3. QED
        BY <4>2 DEF PortB!Next
    <3>4. CASE type = "o"
      <4>1. Woken(m) = PortB!resetNotifiedToken([sched["B"] EXCEPT !.timerToken = FALSE])
        BY <3>2, <3>4 DEF Woken, AnyPort!resetNotifiedToken, PortB!resetNotifiedToken
      <4>2. selfMessages[m] = 1
        BY <1>0, <1>3, <2>1, <2>3, <3>4, SelfMessageDelivered, MessageNames DEF SwitchInv
      <4>3. PortB!TokenSelfMessage(fits)
        BY <1>0, <1>3, <2>1, <2>3, <3>1, <3>4, <4>1, <4>2, SelfMessageDelivered
        DEF PortB!TokenSelfMessage
      <4>4. QED
        BY <4>3 DEF PortB!Next
    <3>5. CASE type = "i"
      <4>1. Woken(m) = PortB!resetNotifiedTimeslot([sched["B"] EXCEPT !.timerTimeslot = FALSE])
        BY <3>2, <3>5 DEF Woken, AnyPort!resetNotifiedTimeslot, PortB!resetNotifiedTimeslot
      <4>2. selfMessages[m] = 1
        BY <1>0, <1>3, <2>1, <2>3, <3>5, SelfMessageDelivered, MessageNames DEF SwitchInv
      <4>3. PortB!TimeslotSelfMessage(fits)
        BY <1>0, <1>3, <2>1, <2>3, <3>1, <3>5, <4>1, <4>2, SelfMessageDelivered
        DEF PortB!TimeslotSelfMessage
      <4>4. QED
        BY <4>3 DEF PortB!Next
    <3>6. QED
      BY <3>3, <3>4, <3>5
  <2>4. QED
    BY <2>2, <2>3
<1>4. ASSUME NEW m \in SchedulerSelfMessage, NEW fits \in BOOLEAN, InterfaceReports(m, fits)
      PROVE  [PortB!Next]_(PortB!vars)
  <2>1. PICK p \in RingPort, line \in {"normal", "Exp"} : m = report(p, line)
    BY ReportNames
  <2>2. CASE p # "B"
    BY <1>0, <1>1, <1>4, <2>1, <2>2, ReportDelivered
  <2>3. CASE p = "B"
    <3>1. \A s : processQueues("B", s, fits) = PortB!processQueues(s, phase, fits)
      BY DEF processQueues
    <3>2. CASE line = "normal"
      <4>1. AnyPort!unlock(sched["B"]) = PortB!unlock(sched["B"])
        BY DEF AnyPort!unlock, PortB!unlock
      <4>2. report("B", "Exp") # m
        BY <2>1, <3>2, ReportNames
      <4>3. PortB!InterfaceIdle(fits)
        BY <1>4, <2>1, <2>3, <3>1, <3>2, <4>1, <4>2, ReportDelivered
        DEF PortB!InterfaceIdle, SameMessages
      <4>4. QED
        BY <4>3 DEF PortB!Next
    <3>3. CASE line = "Exp"
      <4>1. AnyPort!unlockExp(sched["B"]) = PortB!unlockExp(sched["B"])
        BY DEF AnyPort!unlockExp, PortB!unlockExp, AnyPort!Side, PortB!Side
      <4>2. report("B", "normal") # m
        BY <2>1, <3>3, ReportNames
      <4>3. PortB!ExpressInterfaceIdle(fits)
        BY <1>4, <2>1, <2>3, <3>1, <3>3, <4>1, <4>2, ReportDelivered
        DEF PortB!ExpressInterfaceIdle, SameMessages
      <4>4. QED
        BY <4>3 DEF PortB!Next
    <3>4. QED
      BY <3>2, <3>3
  <2>4. QED
    BY <2>2, <2>3
<1>5. ASSUME NEW p \in Port, Transmitted(p)
      PROVE  [PortB!Next]_(PortB!vars)
  <2>1. CASE p # "B"
    BY <1>0, <1>1, <1>5, <2>1, TransmittedBy
  <2>2. CASE p = "B"
    <3>1. report("B", "normal") # report("B", "Exp")
      BY ReportNames
    <3>2. CASE /\ sched["B"].out # <<>>
               /\ sched' = [sched EXCEPT !["B"].out = Tail(@)]
               /\ reports' = IF "B" # "C" /\ Tail(sched["B"].out) = <<>>
                               THEN reports \cup {report("B", "normal")} ELSE reports
      <4>1. sched'["B"] = [sched["B"] EXCEPT !.out = Tail(@)]
        BY <1>0, <3>2 DEF SwitchInv
      <4>2. /\ (report("B", "Exp") \in reports') = (report("B", "Exp") \in reports)
            /\ (report("B", "normal") \in reports') =
                 IF Tail(sched["B"].out) = <<>> /\ "B" # "C"
                   THEN TRUE ELSE report("B", "normal") \in reports
        <5>1. CASE Tail(sched["B"].out) = <<>>
          <6>1. reports' = reports \cup {report("B", "normal")}
            BY <3>2, <5>1
          <6>2. (report("B", "normal") \in reports') = TRUE
            BY <6>1
          <6>3. (report("B", "Exp") \in reports') = (report("B", "Exp") \in reports)
            BY <3>1, <6>1
          <6>4. QED
            BY <5>1, <6>2, <6>3, Zenon
        <5>2. CASE Tail(sched["B"].out) # <<>>
          BY <3>2, <5>2
        <5>3. QED
          BY <5>1, <5>2
      <4>3. UNCHANGED <<selfMessages, phase, enqueued>>
        BY <1>5 DEF Transmitted
      <4>4. PortB!Transmitted
        BY <3>2, <4>1, <4>2, <4>3, Zenon DEF PortB!Transmitted
      <4>5. QED
        BY <4>4 DEF PortB!Next
    <3>3. CASE /\ sched["B"].outExp # <<>>
               /\ sched' = [sched EXCEPT !["B"].outExp = Tail(@)]
               /\ reports' = IF "B" # "C" /\ Tail(sched["B"].outExp) = <<>>
                               THEN reports \cup {report("B", "Exp")} ELSE reports
      <4>1. sched'["B"] = [sched["B"] EXCEPT !.outExp = Tail(@)]
        BY <1>0, <3>3 DEF SwitchInv
      <4>2. /\ (report("B", "normal") \in reports') = (report("B", "normal") \in reports)
            /\ (report("B", "Exp") \in reports') =
                 IF Tail(sched["B"].outExp) = <<>> /\ "B" # "C"
                   THEN TRUE ELSE report("B", "Exp") \in reports
        <5>1. CASE Tail(sched["B"].outExp) = <<>>
          <6>1. reports' = reports \cup {report("B", "Exp")}
            BY <3>3, <5>1
          <6>2. (report("B", "Exp") \in reports') = TRUE
            BY <6>1
          <6>3. (report("B", "normal") \in reports') = (report("B", "normal") \in reports)
            BY <3>1, <6>1
          <6>4. QED
            BY <5>1, <6>2, <6>3, Zenon
        <5>2. CASE Tail(sched["B"].outExp) # <<>>
          BY <3>3, <5>2
        <5>3. QED
          BY <5>1, <5>2
      <4>3. UNCHANGED <<selfMessages, phase, enqueued>>
        BY <1>5 DEF Transmitted
      <4>4. PortB!ExpressTransmitted
        BY <3>3, <4>1, <4>2, <4>3, Zenon DEF PortB!ExpressTransmitted
      <4>5. QED
        BY <4>4 DEF PortB!Next
    <3>4. QED
      BY <1>5, <2>2, <3>2, <3>3 DEF Transmitted
  <2>3. QED
    BY <2>1, <2>2
<1>6. CASE PhaseBoundary
  <2>1. PortB!InstantIsOver
    BY <1>0, <1>6, MessageNames DEF PhaseBoundary, InstantIsOver, PortB!InstantIsOver
  <2>2. /\ selfMessages'[selfMessage("B", "i")] = IF sched["B"].timerTimeslot THEN 1 ELSE 0
        /\ selfMessages'[selfMessage("B", "o")] = 0
        /\ selfMessages'[selfMessage("B", "0")] = 0
        /\ selfMessages[selfMessage("B", "o")] = 0
        /\ selfMessages[selfMessage("B", "0")] = 0
    BY <1>0, <1>6, MessageNames DEF PhaseBoundary, InstantIsOver
  <2>3. PortB!PhaseBoundary
    BY <1>6, <2>1, <2>2 DEF PhaseBoundary, PortB!PhaseBoundary
  <2>4. QED
    BY <2>3 DEF PortB!Next
<1>7. ASSUME NEW p \in Port, TokenTime(p)
      PROVE  [PortB!Next]_(PortB!vars)
  <2>1. CASE p # "B"
    <3>1. Untouched("B")
      BY <1>0, <1>7, <2>1, MessageNames
      DEF TokenTime, SwitchInv, Untouched, SameMessages, SameReports
    <3>2. QED
      BY <1>1, <3>1
  <2>2. CASE p = "B"
    <3>1. PortB!InstantIsOver
      BY <1>0, <1>7, MessageNames DEF TokenTime, InstantIsOver, PortB!InstantIsOver
    <3>2. PortB!TokenTime
      BY <1>0, <1>7, <2>2, <3>1, MessageNames DEF TokenTime, SwitchInv, PortB!TokenTime
    <3>3. QED
      BY <3>2 DEF PortB!Next
  <2>3. QED
    BY <2>1, <2>2
<1>8. CASE CreditGrows
  <2>1. PortB!InstantIsOver
    BY <1>0, <1>8, MessageNames DEF CreditGrows, InstantIsOver, PortB!InstantIsOver
  <2>2. CASE sched["B"].credit <= framebyteLimit
    <3>1. PortB!CreditGrows
      BY <1>0, <1>8, <2>1, <2>2 DEF CreditGrows, PortB!CreditGrows
    <3>2. QED
      BY <3>1 DEF PortB!Next
  <2>3. CASE ~ (sched["B"].credit <= framebyteLimit)
    <3>1. Untouched("B")
      BY <1>0, <1>8, <2>3 DEF CreditGrows, Untouched, SameMessages, SameReports
    <3>2. QED
      BY <1>1, <3>1
  <2>4. QED
    BY <2>2, <2>3
<1>9. CASE UNCHANGED vars
  BY <1>9 DEF vars, PortB!vars
<1>10. QED
  BY <1>2, <1>3, <1>4, <1>5, <1>6, <1>7, <1>8, <1>9 DEF Next

(* Every step of the switch is a step of port C, or does not concern it.   *)
LEMMA PortCStep ==
  ASSUME SwitchInv, sched["C"].timerTimeslot \in BOOLEAN, [Next]_vars
  PROVE  [PortC!Next]_(PortC!vars)
<1>0. "C" \in Port
  BY DEF Port
<1>1. ASSUME Untouched("C")
      PROVE  UNCHANGED PortC!vars
  BY <1>1 DEF Untouched, SameMessages, SameReports, PortC!vars
<1>2. ASSUME NEW t \in Traffic, handleFrame(t)
      PROVE  [PortC!Next]_(PortC!vars)
  <2>1. CASE Untouched("C")
    BY <1>1, <2>1
  <2>2. CASE ~ Untouched("C")
    <3> DEFINE kind == [prio |-> t.prio, cpu |-> t.gate = "C", len |-> t.len]
    <3>1. kind \in FrameKind
      BY DEF FrameKind
    <3>2. kind.prio = t.prio /\ kind.len = t.len /\ kind.cpu = (t.gate = "C")
      OBVIOUS
    <3> HIDE DEF kind
    <3>3. PICK side \in {"RING", "INTERNAL"} :
            /\ IF "C" = "C" THEN t.gate # "C"
                            ELSE side = IF t.gate = "C" THEN "INTERNAL" ELSE "RING"
            /\ sched'["C"] = AnyPort!enqueueMessage(sched["C"],
                 [id |-> enqueued["C"] + 1, prio |-> t.prio, cpu |-> t.gate = "C", len |-> t.len],
                 <<t.prio, side>>)
      BY <1>0, <1>2, <2>2, FrameRouted
    <3>4. PortC!SideAllowed(kind, side)
      BY <3>2, <3>3 DEF PortC!SideAllowed
    <3>5. sched'["C"] = PortC!enqueueMessage(sched["C"],
            [id |-> enqueued["C"] + 1, prio |-> kind.prio, cpu |-> kind.cpu, len |-> kind.len],
            <<kind.prio, side>>)
      BY <3>2, <3>3, Zenon DEF PortC!enqueueMessage, AnyPort!enqueueMessage
    <3>6. /\ enqueued["C"] < MaxFrames
          /\ selfMessages'[selfMessage("C", "0")] = selfMessages[selfMessage("C", "0")] + 1
          /\ selfMessages'[selfMessage("C", "o")] = selfMessages[selfMessage("C", "o")]
          /\ selfMessages'[selfMessage("C", "i")] = selfMessages[selfMessage("C", "i")]
          /\ enqueued'["C"] = enqueued["C"] + 1
          /\ UNCHANGED <<reports, phase>>
      BY <1>0, <1>2, <2>2, FrameRouted
    <3>7. PortC!EnqueueFrame(kind, side)
      BY <3>4, <3>5, <3>6 DEF PortC!EnqueueFrame
    <3>8. QED
      BY <3>1, <3>7 DEF PortC!Next, PortC!Side
  <2>3. QED
    BY <2>1, <2>2
<1>3. ASSUME NEW m \in HsrSwitchSelfMessage, NEW fits \in BOOLEAN, SelfMessage(m, fits)
      PROVE  [PortC!Next]_(PortC!vars)
  <2>1. PICK p \in Port, type \in {"0", "o", "i"} : m = selfMessage(p, type)
    BY MessageNames
  <2>2. CASE p # "C"
    BY <1>0, <1>1, <1>3, <2>1, <2>2, SelfMessageDelivered
  <2>3. CASE p = "C"
    <3>1. processQueues("C", Woken(m), fits) = PortC!processQueues(Woken(m), phase, fits)
      BY DEF processQueues
    <3>2. m.schedulerName = "C" /\ m.type = type
      BY <2>1, <2>3, MessageNames
    <3>3. CASE type = "0"
      <4>1. Woken(m) = sched["C"]
        BY <3>2, <3>3 DEF Woken
      <4>2. PortC!ProcessSelfMessage(fits)
        BY <1>0, <1>3, <2>1, <2>3, <3>1, <3>3, <4>1, SelfMessageDelivered
        DEF PortC!ProcessSelfMessage
      <4>3. QED
        BY <4>2 DEF PortC!Next
    <3>4. CASE type = "o"
      <4>1. Woken(m) = PortC!resetNotifiedToken([sched["C"] EXCEPT !.timerToken = FALSE])
        BY <3>2, <3>4 DEF Woken, AnyPort!resetNotifiedToken, PortC!resetNotifiedToken
      <4>2. selfMessages[m] = 1
        BY <1>0, <1>3, <2>1, <2>3, <3>4, SelfMessageDelivered, MessageNames DEF SwitchInv
      <4>3. PortC!TokenSelfMessage(fits)
        BY <1>0, <1>3, <2>1, <2>3, <3>1, <3>4, <4>1, <4>2, SelfMessageDelivered
        DEF PortC!TokenSelfMessage
      <4>4. QED
        BY <4>3 DEF PortC!Next
    <3>5. CASE type = "i"
      <4>1. Woken(m) = PortC!resetNotifiedTimeslot([sched["C"] EXCEPT !.timerTimeslot = FALSE])
        BY <3>2, <3>5 DEF Woken, AnyPort!resetNotifiedTimeslot, PortC!resetNotifiedTimeslot
      <4>2. selfMessages[m] = 1
        BY <1>0, <1>3, <2>1, <2>3, <3>5, SelfMessageDelivered, MessageNames DEF SwitchInv
      <4>3. PortC!TimeslotSelfMessage(fits)
        BY <1>0, <1>3, <2>1, <2>3, <3>1, <3>5, <4>1, <4>2, SelfMessageDelivered
        DEF PortC!TimeslotSelfMessage
      <4>4. QED
        BY <4>3 DEF PortC!Next
    <3>6. QED
      BY <3>3, <3>4, <3>5
  <2>4. QED
    BY <2>2, <2>3
<1>4. ASSUME NEW m \in SchedulerSelfMessage, NEW fits \in BOOLEAN, InterfaceReports(m, fits)
      PROVE  [PortC!Next]_(PortC!vars)
  <2>1. PICK p \in RingPort, line \in {"normal", "Exp"} : m = report(p, line)
    BY ReportNames
  <2>2. p # "C"
    BY DEF RingPort
  <2>3. QED
    BY <1>0, <1>1, <1>4, <2>1, <2>2, ReportDelivered
<1>5. ASSUME NEW p \in Port, Transmitted(p)
      PROVE  [PortC!Next]_(PortC!vars)
  <2>1. CASE p # "C"
    BY <1>0, <1>1, <1>5, <2>1, TransmittedBy
  <2>2. CASE p = "C"
    <3>1. report("C", "normal") # report("C", "Exp")
      BY ReportNames
    <3>2. CASE /\ sched["C"].out # <<>>
               /\ sched' = [sched EXCEPT !["C"].out = Tail(@)]
               /\ reports' = IF "C" # "C" /\ Tail(sched["C"].out) = <<>>
                               THEN reports \cup {report("C", "normal")} ELSE reports
      <4>1. sched'["C"] = [sched["C"] EXCEPT !.out = Tail(@)]
        BY <1>0, <3>2 DEF SwitchInv
      <4>2. /\ (report("C", "Exp") \in reports') = (report("C", "Exp") \in reports)
            /\ (report("C", "normal") \in reports') =
                 IF Tail(sched["C"].out) = <<>> /\ "C" # "C"
                   THEN TRUE ELSE report("C", "normal") \in reports
        <5>1. CASE Tail(sched["C"].out) = <<>>
          BY <3>2, <5>1
        <5>2. CASE Tail(sched["C"].out) # <<>>
          BY <3>2, <5>2
        <5>3. QED
          BY <5>1, <5>2
      <4>3. UNCHANGED <<selfMessages, phase, enqueued>>
        BY <1>5 DEF Transmitted
      <4>4. PortC!Transmitted
        BY <3>2, <4>1, <4>2, <4>3, Zenon DEF PortC!Transmitted
      <4>5. QED
        BY <4>4 DEF PortC!Next
    <3>3. CASE /\ sched["C"].outExp # <<>>
               /\ sched' = [sched EXCEPT !["C"].outExp = Tail(@)]
               /\ reports' = IF "C" # "C" /\ Tail(sched["C"].outExp) = <<>>
                               THEN reports \cup {report("C", "Exp")} ELSE reports
      <4>1. sched'["C"] = [sched["C"] EXCEPT !.outExp = Tail(@)]
        BY <1>0, <3>3 DEF SwitchInv
      <4>2. /\ (report("C", "normal") \in reports') = (report("C", "normal") \in reports)
            /\ (report("C", "Exp") \in reports') =
                 IF Tail(sched["C"].outExp) = <<>> /\ "C" # "C"
                   THEN TRUE ELSE report("C", "Exp") \in reports
        <5>1. CASE Tail(sched["C"].outExp) = <<>>
          BY <3>3, <5>1
        <5>2. CASE Tail(sched["C"].outExp) # <<>>
          BY <3>3, <5>2
        <5>3. QED
          BY <5>1, <5>2
      <4>3. UNCHANGED <<selfMessages, phase, enqueued>>
        BY <1>5 DEF Transmitted
      <4>4. PortC!ExpressTransmitted
        BY <3>3, <4>1, <4>2, <4>3, Zenon DEF PortC!ExpressTransmitted
      <4>5. QED
        BY <4>4 DEF PortC!Next
    <3>4. QED
      BY <1>5, <2>2, <3>2, <3>3 DEF Transmitted
  <2>3. QED
    BY <2>1, <2>2
<1>6. CASE PhaseBoundary
  <2>1. PortC!InstantIsOver
    BY <1>0, <1>6, MessageNames DEF PhaseBoundary, InstantIsOver, PortC!InstantIsOver
  <2>2. /\ selfMessages'[selfMessage("C", "i")] = IF sched["C"].timerTimeslot THEN 1 ELSE 0
        /\ selfMessages'[selfMessage("C", "o")] = 0
        /\ selfMessages'[selfMessage("C", "0")] = 0
        /\ selfMessages[selfMessage("C", "o")] = 0
        /\ selfMessages[selfMessage("C", "0")] = 0
    BY <1>0, <1>6, MessageNames DEF PhaseBoundary, InstantIsOver
  <2>3. PortC!PhaseBoundary
    BY <1>6, <2>1, <2>2 DEF PhaseBoundary, PortC!PhaseBoundary
  <2>4. QED
    BY <2>3 DEF PortC!Next
<1>7. ASSUME NEW p \in Port, TokenTime(p)
      PROVE  [PortC!Next]_(PortC!vars)
  <2>1. CASE p # "C"
    <3>1. Untouched("C")
      BY <1>0, <1>7, <2>1, MessageNames
      DEF TokenTime, SwitchInv, Untouched, SameMessages, SameReports
    <3>2. QED
      BY <1>1, <3>1
  <2>2. CASE p = "C"
    <3>1. PortC!InstantIsOver
      BY <1>0, <1>7, MessageNames DEF TokenTime, InstantIsOver, PortC!InstantIsOver
    <3>2. PortC!TokenTime
      BY <1>0, <1>7, <2>2, <3>1, MessageNames DEF TokenTime, SwitchInv, PortC!TokenTime
    <3>3. QED
      BY <3>2 DEF PortC!Next
  <2>3. QED
    BY <2>1, <2>2
<1>8. CASE CreditGrows
  <2>1. PortC!InstantIsOver
    BY <1>0, <1>8, MessageNames DEF CreditGrows, InstantIsOver, PortC!InstantIsOver
  <2>2. CASE sched["C"].credit <= framebyteLimit
    <3>1. PortC!CreditGrows
      BY <1>0, <1>8, <2>1, <2>2 DEF CreditGrows, PortC!CreditGrows
    <3>2. QED
      BY <3>1 DEF PortC!Next
  <2>3. CASE ~ (sched["C"].credit <= framebyteLimit)
    <3>1. Untouched("C")
      BY <1>0, <1>8, <2>3 DEF CreditGrows, Untouched, SameMessages, SameReports
    <3>2. QED
      BY <1>1, <3>1
  <2>4. QED
    BY <2>2, <2>3
<1>9. CASE UNCHANGED vars
  BY <1>9 DEF vars, PortC!vars
<1>10. QED
  BY <1>2, <1>3, <1>4, <1>5, <1>6, <1>7, <1>8, <1>9 DEF Next

-----------------------------------------------------------------------------
(* The ports with the theorems about them.                                 *)

(* Frames as a port sees them are typed like those of SchedulerPort. *)
LEMMA FramesAreTyped ==
  FrameKind \subseteq [prio : {"EXPRESS", "HIGH", "LOW"}, cpu : BOOLEAN, len : Nat \ {0}]
<1>1. ASSUME NEW t \in Traffic
      PROVE  [prio |-> t.prio, cpu |-> t.gate = "C", len |-> t.len]
               \in [prio : {"EXPRESS", "HIGH", "LOW"}, cpu : BOOLEAN, len : Nat \ {0}]
  <2>1. t.prio \in {"EXPRESS", "HIGH", "LOW"} /\ t.len \in Nat \ {0}
    BY SwitchAssumption
  <2>2. (t.gate = "C") \in BOOLEAN
    OBVIOUS
  <2>3. QED
    BY <2>1, <2>2
<1>2. ASSUME NEW k \in FrameKind
      PROVE  k \in [prio : {"EXPRESS", "HIGH", "LOW"}, cpu : BOOLEAN, len : Nat \ {0}]
  <2>1. PICK t \in Traffic : k = [prio |-> t.prio, cpu |-> t.gate = "C", len |-> t.len]
    BY Zenon DEF FrameKind
  <2>2. QED
    BY <1>1, <2>1, Zenon
<1>3. QED
  BY <1>2

PA ==
  INSTANCE SchedulerPort_proofs WITH
    schedID   <- "A",
    sched     <- sched["A"],
    pending   <- selfMessages[selfMessage("A", "0")],
    tokenDue  <- selfMessages[selfMessage("A", "o")] > 0,
    slotDue   <- selfMessages[selfMessage("A", "i")] > 0,
    notify    <- report("A", "normal") \in reports,
    notifyExp <- report("A", "Exp") \in reports,
    enqueued  <- enqueued["A"]

(* PA and PortA have the same processQueues. *)
LEMMA SameProcessingA ==
  ASSUME NEW s, NEW ph, NEW fits
  PROVE  PA!processQueues(s, ph, fits) = PortA!processQueues(s, ph, fits)
<1>1. \A t, f : /\ PA!CreditContainer(t, f) = PortA!CreditContainer(t, f)
                /\ PA!containerHasEnoughBytes(t, f) = PortA!containerHasEnoughBytes(t, f)
                /\ PA!subtractFromByteContainer(t, f) = PortA!subtractFromByteContainer(t, f)
  BY DEF PA!CreditContainer, PortA!CreditContainer, PA!containerHasEnoughBytes,
        PortA!containerHasEnoughBytes, PA!Credited, PortA!Credited, PA!Limited,
        PortA!Limited, PA!subtractFromByteContainer, PortA!subtractFromByteContainer
<1>2. \A t, r : /\ PA!SendFront(t, r) = PortA!SendFront(t, r)
                /\ PA!sendExpressFrame(t, r) = PortA!sendExpressFrame(t, r)
  BY <1>1, Zenon DEF PA!SendFront, PortA!SendFront, PA!sendExpressFrame, PortA!sendExpressFrame
<1>3. \A t, r, enough : PA!LookLater(t, r, ph, enough) = PortA!LookLater(t, r, ph, enough)
  BY Zenon DEF PA!LookLater, PortA!LookLater, PA!timeslotIsValid, PortA!timeslotIsValid
<1>4. \A t, r, enough :
        PA!processFront(t, r, ph, fits, enough) = PortA!processFront(t, r, ph, fits, enough)
  BY <1>2, <1>3 DEF PA!processFront, PortA!processFront, PA!BothIdle, PortA!BothIdle,
        PA!timeslotIsValid, PortA!timeslotIsValid, PA!getExpressSendTime,
        PortA!getExpressSendTime
<1>5. \A t, r : PA!processOneQueue(t, r, ph, fits) = PortA!processOneQueue(t, r, ph, fits)
  BY <1>1, <1>4, Zenon DEF PA!processOneQueue, PortA!processOneQueue
<1>6. \A t, first : PA!loopQueues(t, first, ph, fits) = PortA!loopQueues(t, first, ph, fits)
  BY <1>5 DEF PA!loopQueues, PortA!loopQueues, PA!OtherSide, PortA!OtherSide
<1>7. QED
  BY <1>6, Zenon DEF PA!processQueues, PortA!processQueues, PA!OtherSide, PortA!OtherSide

(* PA and PortA take the same steps and promise the same. *)
LEMMA SamePortA ==
  /\ PortA!Init <=> PA!Init
  /\ PortA!Next <=> PA!Next
  /\ (UNCHANGED PortA!vars) <=> (UNCHANGED PA!vars)
  /\ PortA!NoLostWakeup <=> PA!NoLostWakeup
  /\ PortA!EveryFrameHasAProcessing <=> PA!EveryFrameHasAProcessing
<1>1. PortA!Init <=> PA!Init
  BY DEF PA!Init, PortA!Init, PA!initScheduler, PortA!initScheduler, PA!queueName,
        PortA!queueName, PA!Priority, PortA!Priority, PA!Side, PortA!Side, PA!NoFrame,
        PortA!NoFrame
<1>2. \A kind, side : PortA!EnqueueFrame(kind, side) <=> PA!EnqueueFrame(kind, side)
  BY Zenon DEF PA!EnqueueFrame, PortA!EnqueueFrame, PA!enqueueMessage, PortA!enqueueMessage,
        PA!SideAllowed, PortA!SideAllowed
<1>3. \A fits : /\ PortA!ProcessSelfMessage(fits) <=> PA!ProcessSelfMessage(fits)
                /\ PortA!TokenSelfMessage(fits) <=> PA!TokenSelfMessage(fits)
                /\ PortA!TimeslotSelfMessage(fits) <=> PA!TimeslotSelfMessage(fits)
                /\ PortA!InterfaceIdle(fits) <=> PA!InterfaceIdle(fits)
                /\ PortA!ExpressInterfaceIdle(fits) <=> PA!ExpressInterfaceIdle(fits)
  BY SameProcessingA, Zenon
  DEF PA!ProcessSelfMessage, PortA!ProcessSelfMessage, PA!TokenSelfMessage,
      PortA!TokenSelfMessage, PA!TimeslotSelfMessage, PortA!TimeslotSelfMessage,
      PA!InterfaceIdle, PortA!InterfaceIdle, PA!ExpressInterfaceIdle,
      PortA!ExpressInterfaceIdle, PA!resetNotifiedToken, PortA!resetNotifiedToken,
      PA!resetNotifiedTimeslot, PortA!resetNotifiedTimeslot, PA!unlock, PortA!unlock,
      PA!unlockExp, PortA!unlockExp, PA!Side, PortA!Side
<1>4. /\ PortA!Transmitted <=> PA!Transmitted
      /\ PortA!ExpressTransmitted <=> PA!ExpressTransmitted
      /\ PortA!PhaseBoundary <=> PA!PhaseBoundary
      /\ PortA!TokenTime <=> PA!TokenTime
      /\ PortA!CreditGrows <=> PA!CreditGrows
  BY Zenon
  DEF PA!Transmitted, PortA!Transmitted, PA!ExpressTransmitted, PortA!ExpressTransmitted,
      PA!PhaseBoundary, PortA!PhaseBoundary, PA!TokenTime, PortA!TokenTime, PA!CreditGrows,
      PortA!CreditGrows, PA!InstantIsOver, PortA!InstantIsOver
<1>5. PortA!Next <=> PA!Next
  BY <1>2, <1>3, <1>4 DEF PA!Next, PortA!Next, PA!Side, PortA!Side
<1>6. (UNCHANGED PortA!vars) <=> (UNCHANGED PA!vars)
  BY DEF PA!vars, PortA!vars
<1>7. /\ PortA!NoLostWakeup <=> PA!NoLostWakeup
      /\ PortA!EveryFrameHasAProcessing <=> PA!EveryFrameHasAProcessing
  BY Zenon
  DEF PA!NoLostWakeup, PortA!NoLostWakeup, PA!EveryFrameHasAProcessing,
      PortA!EveryFrameHasAProcessing, PA!queueName, PortA!queueName, PA!Priority,
      PortA!Priority, PA!Side, PortA!Side, PA!Limited, PortA!Limited
<1>8. QED
  BY <1>1, <1>5, <1>6, <1>7

(* PA and PortA have the same locks, preemption, limiter and order. *)
LEMMA SamePromisesA ==
  /\ PortA!LockTracksInterface <=> PA!LockTracksInterface
  /\ PortA!OnlyLongFramesArePreempted <=> PA!OnlyLongFramesArePreempted
  /\ PortA!LimiterNeverThrows <=> PA!LimiterNeverThrows
  /\ PortA!StartRespectsPriority <=> PA!StartRespectsPriority
  /\ PortA!StartRespectsSide <=> PA!StartRespectsSide
<1>1. /\ PortA!LockTracksInterface <=> PA!LockTracksInterface
      /\ PortA!OnlyLongFramesArePreempted <=> PA!OnlyLongFramesArePreempted
      /\ PortA!LimiterNeverThrows <=> PA!LimiterNeverThrows
  BY Zenon
  DEF PA!LockTracksInterface, PortA!LockTracksInterface, PA!OnlyLongFramesArePreempted,
      PortA!OnlyLongFramesArePreempted, PA!LimiterNeverThrows, PortA!LimiterNeverThrows
<1>2. \A f, g : PortA!Rank(f) = PA!Rank(f) /\ PortA!Last(g) = PA!Last(g)
  BY Zenon DEF PA!Rank, PortA!Rank, PA!Last, PortA!Last
<1>3. PortA!StartRespectsPriority <=> PA!StartRespectsPriority
  BY <1>2
  DEF PA!StartRespectsPriority, PortA!StartRespectsPriority, PA!Starts, PortA!Starts,
      PA!queueName, PortA!queueName, PA!Priority, PortA!Priority, PA!Side, PortA!Side,
      PA!timeslotIsValid, PortA!timeslotIsValid
<1>4. PortA!StartRespectsSide <=> PA!StartRespectsSide
  BY <1>2
  DEF PA!StartRespectsSide, PortA!StartRespectsSide, PA!Starts, PortA!Starts, PA!Limited,
      PortA!Limited
<1>5. QED
  BY <1>1, <1>3, <1>4

(* What is assumed of the switch implies what is assumed of port A. *)
LEMMA AssumptionsA == PA!SchedulerAssumption /\ PA!SchedulerPortAssumption
  BY FramesAreTyped, SwitchAssumption
  DEF PA!SchedulerAssumption, PA!SchedulerPortAssumption, PA!Priority

PB ==
  INSTANCE SchedulerPort_proofs WITH
    schedID   <- "B",
    sched     <- sched["B"],
    pending   <- selfMessages[selfMessage("B", "0")],
    tokenDue  <- selfMessages[selfMessage("B", "o")] > 0,
    slotDue   <- selfMessages[selfMessage("B", "i")] > 0,
    notify    <- report("B", "normal") \in reports,
    notifyExp <- report("B", "Exp") \in reports,
    enqueued  <- enqueued["B"]

(* PB and PortB have the same processQueues. *)
LEMMA SameProcessingB ==
  ASSUME NEW s, NEW ph, NEW fits
  PROVE  PB!processQueues(s, ph, fits) = PortB!processQueues(s, ph, fits)
<1>1. \A t, f : /\ PB!CreditContainer(t, f) = PortB!CreditContainer(t, f)
                /\ PB!containerHasEnoughBytes(t, f) = PortB!containerHasEnoughBytes(t, f)
                /\ PB!subtractFromByteContainer(t, f) = PortB!subtractFromByteContainer(t, f)
  BY DEF PB!CreditContainer, PortB!CreditContainer, PB!containerHasEnoughBytes,
        PortB!containerHasEnoughBytes, PB!Credited, PortB!Credited, PB!Limited,
        PortB!Limited, PB!subtractFromByteContainer, PortB!subtractFromByteContainer
<1>2. \A t, r : /\ PB!SendFront(t, r) = PortB!SendFront(t, r)
                /\ PB!sendExpressFrame(t, r) = PortB!sendExpressFrame(t, r)
  BY <1>1, Zenon DEF PB!SendFront, PortB!SendFront, PB!sendExpressFrame, PortB!sendExpressFrame
<1>3. \A t, r, enough : PB!LookLater(t, r, ph, enough) = PortB!LookLater(t, r, ph, enough)
  BY Zenon DEF PB!LookLater, PortB!LookLater, PB!timeslotIsValid, PortB!timeslotIsValid
<1>4. \A t, r, enough :
        PB!processFront(t, r, ph, fits, enough) = PortB!processFront(t, r, ph, fits, enough)
  BY <1>2, <1>3 DEF PB!processFront, PortB!processFront, PB!BothIdle, PortB!BothIdle,
        PB!timeslotIsValid, PortB!timeslotIsValid, PB!getExpressSendTime,
        PortB!getExpressSendTime
<1>5. \A t, r : PB!processOneQueue(t, r, ph, fits) = PortB!processOneQueue(t, r, ph, fits)
  BY <1>1, <1>4, Zenon DEF PB!processOneQueue, PortB!processOneQueue
<1>6. \A t, first : PB!loopQueues(t, first, ph, fits) = PortB!loopQueues(t, first, ph, fits)
  BY <1>5 DEF PB!loopQueues, PortB!loopQueues, PB!OtherSide, PortB!OtherSide
<1>7. QED
  BY <1>6, Zenon DEF PB!processQueues, PortB!processQueues, PB!OtherSide, PortB!OtherSide

(* PB and PortB take the same steps and promise the same. *)
LEMMA SamePortB ==
  /\ PortB!Init <=> PB!Init
  /\ PortB!Next <=> PB!Next
  /\ (UNCHANGED PortB!vars) <=> (UNCHANGED PB!vars)
  /\ PortB!NoLostWakeup <=> PB!NoLostWakeup
  /\ PortB!EveryFrameHasAProcessing <=> PB!EveryFrameHasAProcessing
<1>1. PortB!Init <=> PB!Init
  BY DEF PB!Init, PortB!Init, PB!initScheduler, PortB!initScheduler, PB!queueName,
        PortB!queueName, PB!Priority, PortB!Priority, PB!Side, PortB!Side, PB!NoFrame,
        PortB!NoFrame
<1>2. \A kind, side : PortB!EnqueueFrame(kind, side) <=> PB!EnqueueFrame(kind, side)
  BY Zenon DEF PB!EnqueueFrame, PortB!EnqueueFrame, PB!enqueueMessage, PortB!enqueueMessage,
        PB!SideAllowed, PortB!SideAllowed
<1>3. \A fits : /\ PortB!ProcessSelfMessage(fits) <=> PB!ProcessSelfMessage(fits)
                /\ PortB!TokenSelfMessage(fits) <=> PB!TokenSelfMessage(fits)
                /\ PortB!TimeslotSelfMessage(fits) <=> PB!TimeslotSelfMessage(fits)
                /\ PortB!InterfaceIdle(fits) <=> PB!InterfaceIdle(fits)
                /\ PortB!ExpressInterfaceIdle(fits) <=> PB!ExpressInterfaceIdle(fits)
  BY SameProcessingB, Zenon
  DEF PB!ProcessSelfMessage, PortB!ProcessSelfMessage, PB!TokenSelfMessage,
      PortB!TokenSelfMessage, PB!TimeslotSelfMessage, PortB!TimeslotSelfMessage,
      PB!InterfaceIdle, PortB!InterfaceIdle, PB!ExpressInterfaceIdle,
      PortB!ExpressInterfaceIdle, PB!resetNotifiedToken, PortB!resetNotifiedToken,
      PB!resetNotifiedTimeslot, PortB!resetNotifiedTimeslot, PB!unlock, PortB!unlock,
      PB!unlockExp, PortB!unlockExp, PB!Side, PortB!Side
<1>4. /\ PortB!Transmitted <=> PB!Transmitted
      /\ PortB!ExpressTransmitted <=> PB!ExpressTransmitted
      /\ PortB!PhaseBoundary <=> PB!PhaseBoundary
      /\ PortB!TokenTime <=> PB!TokenTime
      /\ PortB!CreditGrows <=> PB!CreditGrows
  BY Zenon
  DEF PB!Transmitted, PortB!Transmitted, PB!ExpressTransmitted, PortB!ExpressTransmitted,
      PB!PhaseBoundary, PortB!PhaseBoundary, PB!TokenTime, PortB!TokenTime, PB!CreditGrows,
      PortB!CreditGrows, PB!InstantIsOver, PortB!InstantIsOver
<1>5. PortB!Next <=> PB!Next
  BY <1>2, <1>3, <1>4 DEF PB!Next, PortB!Next, PB!Side, PortB!Side
<1>6. (UNCHANGED PortB!vars) <=> (UNCHANGED PB!vars)
  BY DEF PB!vars, PortB!vars
<1>7. /\ PortB!NoLostWakeup <=> PB!NoLostWakeup
      /\ PortB!EveryFrameHasAProcessing <=> PB!EveryFrameHasAProcessing
  BY Zenon
  DEF PB!NoLostWakeup, PortB!NoLostWakeup, PB!EveryFrameHasAProcessing,
      PortB!EveryFrameHasAProcessing, PB!queueName, PortB!queueName, PB!Priority,
      PortB!Priority, PB!Side, PortB!Side, PB!Limited, PortB!Limited
<1>8. QED
  BY <1>1, <1>5, <1>6, <1>7

(* PB and PortB have the same locks, preemption, limiter and order. *)
LEMMA SamePromisesB ==
  /\ PortB!LockTracksInterface <=> PB!LockTracksInterface
  /\ PortB!OnlyLongFramesArePreempted <=> PB!OnlyLongFramesArePreempted
  /\ PortB!LimiterNeverThrows <=> PB!LimiterNeverThrows
  /\ PortB!StartRespectsPriority <=> PB!StartRespectsPriority
  /\ PortB!StartRespectsSide <=> PB!StartRespectsSide
<1>1. /\ PortB!LockTracksInterface <=> PB!LockTracksInterface
      /\ PortB!OnlyLongFramesArePreempted <=> PB!OnlyLongFramesArePreempted
      /\ PortB!LimiterNeverThrows <=> PB!LimiterNeverThrows
  BY Zenon
  DEF PB!LockTracksInterface, PortB!LockTracksInterface, PB!OnlyLongFramesArePreempted,
      PortB!OnlyLongFramesArePreempted, PB!LimiterNeverThrows, PortB!LimiterNeverThrows
<1>2. \A f, g : PortB!Rank(f) = PB!Rank(f) /\ PortB!Last(g) = PB!Last(g)
  BY Zenon DEF PB!Rank, PortB!Rank, PB!Last, PortB!Last
<1>3. PortB!StartRespectsPriority <=> PB!StartRespectsPriority
  BY <1>2
  DEF PB!StartRespectsPriority, PortB!StartRespectsPriority, PB!Starts, PortB!Starts,
      PB!queueName, PortB!queueName, PB!Priority, PortB!Priority, PB!Side, PortB!Side,
      PB!timeslotIsValid, PortB!timeslotIsValid
<1>4. PortB!StartRespectsSide <=> PB!StartRespectsSide
  BY <1>2
  DEF PB!StartRespectsSide, PortB!StartRespectsSide, PB!Starts, PortB!Starts, PB!Limited,
      PortB!Limited
<1>5. QED
  BY <1>1, <1>3, <1>4

(* What is assumed of the switch implies what is assumed of port B. *)
LEMMA AssumptionsB == PB!SchedulerAssumption /\ PB!SchedulerPortAssumption
  BY FramesAreTyped, SwitchAssumption
  DEF PB!SchedulerAssumption, PB!SchedulerPortAssumption, PB!Priority

PC ==
  INSTANCE SchedulerPort_proofs WITH
    schedID   <- "C",
    sched     <- sched["C"],
    pending   <- selfMessages[selfMessage("C", "0")],
    tokenDue  <- selfMessages[selfMessage("C", "o")] > 0,
    slotDue   <- selfMessages[selfMessage("C", "i")] > 0,
    notify    <- report("C", "normal") \in reports,
    notifyExp <- report("C", "Exp") \in reports,
    enqueued  <- enqueued["C"]

(* PC and PortC have the same processQueues. *)
LEMMA SameProcessingC ==
  ASSUME NEW s, NEW ph, NEW fits
  PROVE  PC!processQueues(s, ph, fits) = PortC!processQueues(s, ph, fits)
<1>1. \A t, f : /\ PC!CreditContainer(t, f) = PortC!CreditContainer(t, f)
                /\ PC!containerHasEnoughBytes(t, f) = PortC!containerHasEnoughBytes(t, f)
                /\ PC!subtractFromByteContainer(t, f) = PortC!subtractFromByteContainer(t, f)
  BY DEF PC!CreditContainer, PortC!CreditContainer, PC!containerHasEnoughBytes,
        PortC!containerHasEnoughBytes, PC!Credited, PortC!Credited, PC!Limited,
        PortC!Limited, PC!subtractFromByteContainer, PortC!subtractFromByteContainer
<1>2. \A t, r : /\ PC!SendFront(t, r) = PortC!SendFront(t, r)
                /\ PC!sendExpressFrame(t, r) = PortC!sendExpressFrame(t, r)
  BY <1>1, Zenon DEF PC!SendFront, PortC!SendFront, PC!sendExpressFrame, PortC!sendExpressFrame
<1>3. \A t, r, enough : PC!LookLater(t, r, ph, enough) = PortC!LookLater(t, r, ph, enough)
  BY Zenon DEF PC!LookLater, PortC!LookLater, PC!timeslotIsValid, PortC!timeslotIsValid
<1>4. \A t, r, enough :
        PC!processFront(t, r, ph, fits, enough) = PortC!processFront(t, r, ph, fits, enough)
  BY <1>2, <1>3 DEF PC!processFront, PortC!processFront, PC!BothIdle, PortC!BothIdle,
        PC!timeslotIsValid, PortC!timeslotIsValid, PC!getExpressSendTime,
        PortC!getExpressSendTime
<1>5. \A t, r : PC!processOneQueue(t, r, ph, fits) = PortC!processOneQueue(t, r, ph, fits)
  BY <1>1, <1>4, Zenon DEF PC!processOneQueue, PortC!processOneQueue
<1>6. \A t, first : PC!loopQueues(t, first, ph, fits) = PortC!loopQueues(t, first, ph, fits)
  BY <1>5 DEF PC!loopQueues, PortC!loopQueues, PC!OtherSide, PortC!OtherSide
<1>7. QED
  BY <1>6, Zenon DEF PC!processQueues, PortC!processQueues, PC!OtherSide, PortC!OtherSide

(* PC and PortC take the same steps and promise the same. *)
LEMMA SamePortC ==
  /\ PortC!Init <=> PC!Init
  /\ PortC!Next <=> PC!Next
  /\ (UNCHANGED PortC!vars) <=> (UNCHANGED PC!vars)
  /\ PortC!NoLostWakeup <=> PC!NoLostWakeup
  /\ PortC!EveryFrameHasAProcessing <=> PC!EveryFrameHasAProcessing
<1>1. PortC!Init <=> PC!Init
  BY DEF PC!Init, PortC!Init, PC!initScheduler, PortC!initScheduler, PC!queueName,
        PortC!queueName, PC!Priority, PortC!Priority, PC!Side, PortC!Side, PC!NoFrame,
        PortC!NoFrame
<1>2. \A kind, side : PortC!EnqueueFrame(kind, side) <=> PC!EnqueueFrame(kind, side)
  BY Zenon DEF PC!EnqueueFrame, PortC!EnqueueFrame, PC!enqueueMessage, PortC!enqueueMessage,
        PC!SideAllowed, PortC!SideAllowed
<1>3. \A fits : /\ PortC!ProcessSelfMessage(fits) <=> PC!ProcessSelfMessage(fits)
                /\ PortC!TokenSelfMessage(fits) <=> PC!TokenSelfMessage(fits)
                /\ PortC!TimeslotSelfMessage(fits) <=> PC!TimeslotSelfMessage(fits)
                /\ PortC!InterfaceIdle(fits) <=> PC!InterfaceIdle(fits)
                /\ PortC!ExpressInterfaceIdle(fits) <=> PC!ExpressInterfaceIdle(fits)
  BY SameProcessingC, Zenon
  DEF PC!ProcessSelfMessage, PortC!ProcessSelfMessage, PC!TokenSelfMessage,
      PortC!TokenSelfMessage, PC!TimeslotSelfMessage, PortC!TimeslotSelfMessage,
      PC!InterfaceIdle, PortC!InterfaceIdle, PC!ExpressInterfaceIdle,
      PortC!ExpressInterfaceIdle, PC!resetNotifiedToken, PortC!resetNotifiedToken,
      PC!resetNotifiedTimeslot, PortC!resetNotifiedTimeslot, PC!unlock, PortC!unlock,
      PC!unlockExp, PortC!unlockExp, PC!Side, PortC!Side
<1>4. /\ PortC!Transmitted <=> PC!Transmitted
      /\ PortC!ExpressTransmitted <=> PC!ExpressTransmitted
      /\ PortC!PhaseBoundary <=> PC!PhaseBoundary
      /\ PortC!TokenTime <=> PC!TokenTime
      /\ PortC!CreditGrows <=> PC!CreditGrows
  BY Zenon
  DEF PC!Transmitted, PortC!Transmitted, PC!ExpressTransmitted, PortC!ExpressTransmitted,
      PC!PhaseBoundary, PortC!PhaseBoundary, PC!TokenTime, PortC!TokenTime, PC!CreditGrows,
      PortC!CreditGrows, PC!InstantIsOver, PortC!InstantIsOver
<1>5. PortC!Next <=> PC!Next
  BY <1>2, <1>3, <1>4 DEF PC!Next, PortC!Next, PC!Side, PortC!Side
<1>6. (UNCHANGED PortC!vars) <=> (UNCHANGED PC!vars)
  BY DEF PC!vars, PortC!vars
<1>7. /\ PortC!NoLostWakeup <=> PC!NoLostWakeup
      /\ PortC!EveryFrameHasAProcessing <=> PC!EveryFrameHasAProcessing
  BY Zenon
  DEF PC!NoLostWakeup, PortC!NoLostWakeup, PC!EveryFrameHasAProcessing,
      PortC!EveryFrameHasAProcessing, PC!queueName, PortC!queueName, PC!Priority,
      PortC!Priority, PC!Side, PortC!Side, PC!Limited, PortC!Limited
<1>8. QED
  BY <1>1, <1>5, <1>6, <1>7

(* What is assumed of the switch implies what is assumed of port C. *)
LEMMA AssumptionsC == PC!SchedulerAssumption /\ PC!SchedulerPortAssumption
  BY FramesAreTyped, SwitchAssumption
  DEF PC!SchedulerAssumption, PC!SchedulerPortAssumption, PC!Priority

-----------------------------------------------------------------------------
(* The composition.                                                        *)

(* The messages and counters of the switch, and the types of its ports. *)
SwitchTyped == SwitchInv /\ PA!TypeOK /\ PB!TypeOK /\ PC!TypeOK

(* initialize starts each port as SchedulerPort does. *)
LEMMA AllPortsStart ==
  ASSUME Init
  PROVE  PortA!Init /\ PortB!Init /\ PortC!Init
<1>1. \A p \in Port, type \in {"0", "o", "i"} : selfMessages[selfMessage(p, type)] = 0
  BY MessageNames DEF Init
<1>2. PortA!Init
  BY <1>1 DEF Init, Port, PortA!Init, PortA!initScheduler, AnyPort!initScheduler,
         PortA!queueName, AnyPort!queueName, PortA!Priority, AnyPort!Priority,
         PortA!Side, AnyPort!Side, PortA!NoFrame, AnyPort!NoFrame
<1>3. PortB!Init
  BY <1>1 DEF Init, Port, PortB!Init, PortB!initScheduler, AnyPort!initScheduler,
         PortB!queueName, AnyPort!queueName, PortB!Priority, AnyPort!Priority,
         PortB!Side, AnyPort!Side, PortB!NoFrame, AnyPort!NoFrame
<1>4. PortC!Init
  BY <1>1 DEF Init, Port, PortC!Init, PortC!initScheduler, AnyPort!initScheduler,
         PortC!queueName, AnyPort!queueName, PortC!Priority, AnyPort!Priority,
         PortC!Side, AnyPort!Side, PortC!NoFrame, AnyPort!NoFrame
<1>5. QED
  BY <1>2, <1>3, <1>4

(* The types hold at the start. *)
LEMMA TypedInit == ASSUME Init PROVE SwitchTyped
<1>1. PA!TypeOK
  <2>1. PA!Init
    BY AllPortsStart, SamePortA
  <2>2. PA!PortInv
    BY <2>1, AssumptionsA, PA!InitPort
  <2>3. QED
    BY <2>2 DEF PA!PortInv
<1>2. PB!TypeOK
  <2>1. PB!Init
    BY AllPortsStart, SamePortB
  <2>2. PB!PortInv
    BY <2>1, AssumptionsB, PB!InitPort
  <2>3. QED
    BY <2>2 DEF PB!PortInv
<1>3. PC!TypeOK
  <2>1. PC!Init
    BY AllPortsStart, SamePortC
  <2>2. PC!PortInv
    BY <2>1, AssumptionsC, PC!InitPort
  <2>3. QED
    BY <2>2 DEF PC!PortInv
<1>4. QED
  BY <1>1, <1>2, <1>3, SwitchInit DEF SwitchTyped

(* The switch takes a step of each of its ports, and stays typed. *)
LEMMA TypedStep ==
  ASSUME SwitchTyped, [Next]_vars
  PROVE  /\ SwitchTyped'
         /\ [PA!Next]_(PA!vars) /\ [PortA!Next]_(PortA!vars)
         /\ [PB!Next]_(PB!vars) /\ [PortB!Next]_(PortB!vars)
         /\ [PC!Next]_(PC!vars) /\ [PortC!Next]_(PortC!vars)
<1>1. [PA!Next]_(PA!vars) /\ [PortA!Next]_(PortA!vars) /\ PA!TypeOK'
  <2>1. sched["A"].timerTimeslot \in BOOLEAN
    BY DEF SwitchTyped, PA!TypeOK, PA!SchedulerState
  <2>2. [PortA!Next]_(PortA!vars)
    BY <2>1, PortAStep DEF SwitchTyped
  <2>3. [PA!Next]_(PA!vars)
    BY <2>2, SamePortA
  <2>4. QED
    BY <2>2, <2>3, AssumptionsA, PA!TypeInductive DEF SwitchTyped
<1>2. [PB!Next]_(PB!vars) /\ [PortB!Next]_(PortB!vars) /\ PB!TypeOK'
  <2>1. sched["B"].timerTimeslot \in BOOLEAN
    BY DEF SwitchTyped, PB!TypeOK, PB!SchedulerState
  <2>2. [PortB!Next]_(PortB!vars)
    BY <2>1, PortBStep DEF SwitchTyped
  <2>3. [PB!Next]_(PB!vars)
    BY <2>2, SamePortB
  <2>4. QED
    BY <2>2, <2>3, AssumptionsB, PB!TypeInductive DEF SwitchTyped
<1>3. [PC!Next]_(PC!vars) /\ [PortC!Next]_(PortC!vars) /\ PC!TypeOK'
  <2>1. sched["C"].timerTimeslot \in BOOLEAN
    BY DEF SwitchTyped, PC!TypeOK, PC!SchedulerState
  <2>2. [PortC!Next]_(PortC!vars)
    BY <2>1, PortCStep DEF SwitchTyped
  <2>3. [PC!Next]_(PC!vars)
    BY <2>2, SamePortC
  <2>4. QED
    BY <2>2, <2>3, AssumptionsC, PC!TypeInductive DEF SwitchTyped
<1>4. QED
  BY <1>1, <1>2, <1>3, SwitchInductive DEF SwitchTyped

(* The dispatcher of EndNodeSwitch composes three independent ports: for   *)
(* any traffic and any number of frames, each of them sees steps of        *)
(* SchedulerPort only, none lost, doubled or taken for another port's.     *)
THEOREM Composition == Spec => PortsAreSchedulerPorts
<1>1. Init => SwitchTyped /\ PortA!Init /\ PortB!Init /\ PortC!Init
  BY TypedInit, AllPortsStart
<1>2. SwitchTyped /\ [Next]_vars =>
        /\ SwitchTyped'
        /\ [PortA!Next]_(PortA!vars)
        /\ [PortB!Next]_(PortB!vars)
        /\ [PortC!Next]_(PortC!vars)
  BY TypedStep
<1>3. QED
  BY <1>1, <1>2, PTL
  DEF Spec, PortsAreSchedulerPorts, PortA!SafeSpec, PortB!SafeSpec, PortC!SafeSpec

(* The same of the instances the theorems about one port are cited from. *)
LEMMA PortsBehave == Spec => PA!SafeSpec /\ PB!SafeSpec /\ PC!SafeSpec
<1>1. Init => SwitchTyped /\ PA!Init /\ PB!Init /\ PC!Init
  BY TypedInit, AllPortsStart, SamePortA, SamePortB, SamePortC
<1>2. SwitchTyped /\ [Next]_vars =>
        /\ SwitchTyped'
        /\ [PA!Next]_(PA!vars)
        /\ [PB!Next]_(PB!vars)
        /\ [PC!Next]_(PC!vars)
  BY TypedStep
<1>3. QED
  BY <1>1, <1>2, PTL DEF Spec, PA!SafeSpec, PB!SafeSpec, PC!SafeSpec

(* No copy of a routed frame is forgotten by any port of the switch: an    *)
(* event that will look at its queue is on its way, and on the CPU's port  *)
(* one for each frame (handleMessage, scheduleProcessQueues); but for the  *)
(* mode TOKENS, whose processQueues is empty.                              *)
THEOREM NothingIsForgottenAnywhere ==
  ASSUME schedmode # "TOKENS"
  PROVE  Spec => []NoPortForgets
<1>1. PA!RingPort /\ PB!RingPort
  BY DEF PA!RingPort, PB!RingPort
<1>2. PA!SafeSpec => []PA!NoLostWakeup
  BY <1>1, AssumptionsA, PA!NothingIsForgotten
<1>3. PB!SafeSpec => []PB!NoLostWakeup
  BY <1>1, AssumptionsB, PB!NothingIsForgotten
<1>4. PC!SafeSpec => []PC!EveryFrameHasAProcessing
  BY AssumptionsC, PC!CpuFramesAreProcessed
<1>5. PA!NoLostWakeup /\ PB!NoLostWakeup /\ PC!EveryFrameHasAProcessing => NoPortForgets
  BY SamePortA, SamePortB, SamePortC DEF NoPortForgets
<1>6. QED
  BY <1>2, <1>3, <1>4, <1>5, PortsBehave, PTL

(* What is proved of one ring port holds of both in the switch: neither    *)
(* gets stuck locked, preempts a short frame or overdraws its limiter, and *)
(* both start frames in the order of their classes and sides.              *)
RingPortsWork ==
  /\ [](PortA!LockTracksInterface /\ PortB!LockTracksInterface)
  /\ [](PortA!OnlyLongFramesArePreempted /\ PortB!OnlyLongFramesArePreempted)
  /\ [](PortA!LimiterNeverThrows /\ PortB!LimiterNeverThrows)
  /\ PortA!StrictPriority /\ PortB!StrictPriority
  /\ PortA!SideOrder /\ PortB!SideOrder

(* The promises of ring port A. *)
LEMMA RingPortAWorks ==
  ASSUME schedmode # "TOKENS"
  PROVE  Spec => /\ []PortA!LockTracksInterface
                 /\ []PortA!OnlyLongFramesArePreempted
                 /\ []PortA!LimiterNeverThrows
                 /\ PortA!StrictPriority
                 /\ PortA!SideOrder
<1>1. PA!RingPort
  BY DEF PA!RingPort
<1>2. PA!SafeSpec => []PA!LockTracksInterface
  BY <1>1, AssumptionsA, PA!NeverStuckLocked
<1>3. PA!SafeSpec => []PA!OnlyLongFramesArePreempted
  BY <1>1, AssumptionsA, PA!PreemptionIsSafe
<1>4. PA!SafeSpec => []PA!LimiterNeverThrows
  BY <1>1, AssumptionsA, PA!LimiterIsSafe
<1>5. PA!SafeSpec => [][PA!StartRespectsPriority]_(PA!vars)
  BY <1>1, AssumptionsA, PA!PrioritiesAreStrict DEF PA!StrictPriority
<1>6. PA!SafeSpec => [][PA!StartRespectsSide]_(PA!vars)
  BY <1>1, AssumptionsA, PA!SidesAreOrdered DEF PA!SideOrder
<1>7. /\ PA!LockTracksInterface => PortA!LockTracksInterface
      /\ PA!OnlyLongFramesArePreempted => PortA!OnlyLongFramesArePreempted
      /\ PA!LimiterNeverThrows => PortA!LimiterNeverThrows
      /\ [PA!StartRespectsPriority]_(PA!vars) => [PortA!StartRespectsPriority]_(PortA!vars)
      /\ [PA!StartRespectsSide]_(PA!vars) => [PortA!StartRespectsSide]_(PortA!vars)
  BY SamePromisesA, SamePortA
<1>8. QED
  BY <1>2, <1>3, <1>4, <1>5, <1>6, <1>7, PortsBehave, PTL
  DEF PortA!StrictPriority, PortA!SideOrder

(* The promises of ring port B. *)
LEMMA RingPortBWorks ==
  ASSUME schedmode # "TOKENS"
  PROVE  Spec => /\ []PortB!LockTracksInterface
                 /\ []PortB!OnlyLongFramesArePreempted
                 /\ []PortB!LimiterNeverThrows
                 /\ PortB!StrictPriority
                 /\ PortB!SideOrder
<1>1. PB!RingPort
  BY DEF PB!RingPort
<1>2. PB!SafeSpec => []PB!LockTracksInterface
  BY <1>1, AssumptionsB, PB!NeverStuckLocked
<1>3. PB!SafeSpec => []PB!OnlyLongFramesArePreempted
  BY <1>1, AssumptionsB, PB!PreemptionIsSafe
<1>4. PB!SafeSpec => []PB!LimiterNeverThrows
  BY <1>1, AssumptionsB, PB!LimiterIsSafe
<1>5. PB!SafeSpec => [][PB!StartRespectsPriority]_(PB!vars)
  BY <1>1, AssumptionsB, PB!PrioritiesAreStrict DEF PB!StrictPriority
<1>6. PB!SafeSpec => [][PB!StartRespectsSide]_(PB!vars)
  BY <1>1, AssumptionsB, PB!SidesAreOrdered DEF PB!SideOrder
<1>7. /\ PB!LockTracksInterface => PortB!LockTracksInterface
      /\ PB!OnlyLongFramesArePreempted => PortB!OnlyLongFramesArePreempted
      /\ PB!LimiterNeverThrows => PortB!LimiterNeverThrows
      /\ [PB!StartRespectsPriority]_(PB!vars) => [PortB!StartRespectsPriority]_(PortB!vars)
      /\ [PB!StartRespectsSide]_(PB!vars) => [PortB!StartRespectsSide]_(PortB!vars)
  BY SamePromisesB, SamePortB
<1>8. QED
  BY <1>2, <1>3, <1>4, <1>5, <1>6, <1>7, PortsBehave, PTL
  DEF PortB!StrictPriority, PortB!SideOrder

(* Both ring ports of the switch keep every promise of a port.             *)
THEOREM BothRingPortsWork == ASSUME schedmode # "TOKENS" PROVE Spec => RingPortsWork
  BY RingPortAWorks, RingPortBWorks, PTL DEF RingPortsWork
=============================================================================
