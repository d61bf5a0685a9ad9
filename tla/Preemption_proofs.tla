-------------------------- MODULE Preemption_proofs --------------------------
(***************************************************************************)
(* For frames of every length: the bounds of the timed ring port.          *)
(*                                                                         *)
(* The timed port takes only steps of the untimed one (Implements), so     *)
(* PortInv holds in it.  LineInv adds what ties the two clocks of a frame  *)
(* together, the one the interface runs by (normLeft) and the one the      *)
(* scheduler computes with (elapsed and messageSize): the interface is     *)
(* never later than the scheduler believes.  Hence a frame the scheduler   *)
(* does not cut any more is short, or at most 71 bytes from its end.       *)
(***************************************************************************)
EXTENDS Preemption, SchedulerPort_proofs

LEMMA TimedPortIsRingPort == RingPort
BY PreemptionAssumption DEF RingPort

-----------------------------------------------------------------------------
(* The arithmetic of getExpressSendTime: the cut is never nearer to the    *)
(* start of the frame than the smallest fragment with its gap, and at      *)
(* that point, or 19 bytes away.                                           *)
LEMMA WaitBounds ==
  ASSUME NEW sent \in Nat, NEW another \in BOOLEAN, NEW w, w = expressWait(sent, another)
  PROVE  /\ w \in Nat /\ w <= 84
         /\ ~ another => sent + w >= 84 /\ (sent + w <= 91 \/ w <= 19)
<1> DEFINE d == bytesAlreadySentData(sent)
<1>1. d \in Nat /\ (d > 0 => sent = d + 24)
  BY DEF bytesAlreadySentData, IFG
<1> HIDE DEF d
<1> DEFINE mis == d % 8
<1>2. mis \in 0 .. 7 /\ (mis # 0 => d > 0)
  BY <1>1
<1>3. w = IF another \/ (sent >= 84 /\ mis = 0) THEN 0
          ELSE IF mis # 0 /\ sent >= 84 THEN 8 - mis + 12
          ELSE IF mis # 0 THEN 84 - sent + (8 - mis)
          ELSE 84 - sent
  BY DEF expressWait, IFG, d
<1> HIDE DEF mis
<1>4. QED
  BY <1>1, <1>2, <1>3

-----------------------------------------------------------------------------
(* What is left behind the first cut of a frame: all but 7 of the 64 bytes *)
(* that NoFragmentIsTooSmall asks for.                                     *)
CutLeaves57 == Interrupts /\ rest = sched.sendingStatus.len => rest' >= 57

FirstCutLeaves57 == [][CutLeaves57]_tvars

-----------------------------------------------------------------------------
(* Every timed step is a step of the port.                                 *)

LEMMA TimedStep ==
  ASSUME [TNext]_tvars
  PROVE  [Next]_vars
<1>1. \A sent : Fits(sent) \in BOOLEAN
  BY DEF Fits
<1>2. ASSUME NEW kind \in FrameKind, NEW side \in Side, Arrive(kind, side)
      PROVE  Next
  BY <1>2 DEF Arrive, Next
<1>3. CASE Process
  BY <1>1, <1>3 DEF Process, Next
<1>4. CASE NormalIdle
  BY <1>1, <1>4 DEF NormalIdle, Next
<1>5. CASE ExpressIdle
  BY <1>1, <1>5 DEF ExpressIdle, Next
<1>6. CASE NormalFinished
  BY <1>6 DEF NormalFinished, Next
<1>7. CASE ExpressFinished
  BY <1>7 DEF ExpressFinished, Next
<1>8. CASE Tick
  BY <1>8 DEF Tick
<1>9. CASE UNCHANGED tvars
  BY <1>9 DEF tvars
<1>10. QED
  BY <1>2, <1>3, <1>4, <1>5, <1>6, <1>7, <1>8, <1>9 DEF TNext

(* The port in byte time is an instance of the untimed port: whatever was  *)
(* proved of all orders of events holds for the ones the line produces.    *)
THEOREM Implements == TSpec => SafeSpec
<1>1. TInit => Init
  BY DEF TInit
<1>2. [TNext]_tvars => [Next]_vars
  BY TimedStep
<1>3. QED
  BY <1>1, <1>2, PTL DEF TSpec, SafeSpec

-----------------------------------------------------------------------------
(* The invariant of the line.                                              *)

Attach == sched.sendingStatus

(* The interface is not later than the scheduler believes.                 *)
FrameInTime ==
  /\ sched.transmitLock => messageSize >= Attach.len
  /\ sched.out # <<>> => /\ normLeft <= OnLine(Attach.len)
                         /\ normLeft + elapsed <= messageSize + 20

(* What is left of the attached frame; only its first cut is measured by   *)
(* its own length.                                                         *)
RestIsLeft ==
  sched.transmitLock =>
    /\ rest = Attach.len => messageSize = Attach.len
    /\ rest <= Attach.len
    /\ sched.transmitLockExp => rest < Attach.len

(* Why an express frame waits when nothing is left to process: one is in   *)
(* flight, or the attached frame cannot be cut.                            *)
ExpressHeld(s, fits) ==
  \A side \in Side :
    \/ s.queues[<<"EXPRESS", side>>] = <<>>
    \/ s.transmitLockExp
    \/ s.transmitLock /\ ~ getExpressSendTime(s, fits)

CannotCutNow == pending = 0 => ExpressHeld(sched, Fits(elapsed))

(* A wait that has begun ends with the frame on the line.                  *)
WaitEnds == waited > 0 => waited + (IF sched.out # <<>> THEN normLeft ELSE 0) <= 147

ExpressSoon == sched.outExp # <<>> => expLeft <= 84 + OnLine(Head(sched.outExp).len)

LineInv ==
  /\ TypeOKLine
  /\ FrameInTime
  /\ RestIsLeft
  /\ CannotCutNow
  /\ WaitEnds
  /\ ExpressSoon
  /\ FrontIsLongEnough

-----------------------------------------------------------------------------
(* The three outcomes of a handler that processes the queues, for the      *)
(* scheduler s it hands to processQueues.                                  *)

HandsOver(s) ==
  /\ Core(s, notify', notifyExp')
  /\ s.queues = sched.queues
  /\ s.out = sched.out /\ s.outExp = sched.outExp
  /\ s.sendingStatus = sched.sendingStatus
  /\ s.transmitLock => sched.transmitLock
  /\ s.transmitLockExp => sched.transmitLockExp
  /\ s.transmitLock /\ s.nextUpAnotherExp /\ ~ s.transmitLockExp => rest < Attach.len

SendsNothing(s) == ~ Starts /\ ~ StartsExpress /\ SameLinks(sched', s)

SendsOneExpress(s, fits, f) ==
  /\ ~ Starts /\ StartsExpress
  /\ ~ s.transmitLockExp /\ (s.transmitLock => getExpressSendTime(s, fits))
  /\ sched'.outExp = <<f>> /\ Last(sched'.outExp) = f /\ Head(sched'.outExp) = f
  /\ sched'.out = sched.out /\ sched'.sendingStatus = sched.sendingStatus
  /\ sched'.transmitLock = s.transmitLock /\ sched'.transmitLockExp
  /\ sched'.nextUpAnotherExp = s.nextUpAnotherExp

SendsOneNormal(f) ==
  /\ Starts /\ ~ StartsExpress
  /\ sched'.out = <<f>> /\ Last(sched'.out) = f
  /\ sched'.outExp = sched.outExp /\ sched'.sendingStatus = f
  /\ sched'.transmitLock /\ ~ sched'.transmitLockExp
  /\ \A side \in Side : sched'.queues[<<"EXPRESS", side>>] = <<>>

LEMMA HeldExpressIsEmpty ==
  ASSUME NEW r \in SchedulerState, Sorted(r), NEW side \in Side, NEW ph,
         HeldBack(r, <<"EXPRESS", side>>, ph)
  PROVE  r.queues[<<"EXPRESS", side>>] = <<>>
<1> DEFINE q == <<"EXPRESS", side>>
<1>1. q \in queueName /\ q[1] = "EXPRESS" /\ timeslotIsValid(q, ph)
  BY DEF queueName, Priority, timeslotIsValid
<1> HIDE DEF q
<1>2. SUFFICES ASSUME r.queues[q] # <<>>
               PROVE  FALSE
  BY DEF q
<1>3. Head(r.queues[q]).prio = "EXPRESS"
  BY <1>1, <1>2, SortedFront
<1>4. QED
  BY <1>1, <1>2, <1>3 DEF HeldBack, Limited, q

LEMMA Outcome ==
  ASSUME PortInv, PortInv', NEW s, HandsOver(s), NEW fits \in BOOLEAN,
         sched' = processQueues(s, phase, fits)
  PROVE  /\ \/ SendsNothing(s)
            \/ \E f \in Frame : SendsOneExpress(s, fits, f)
            \/ \E f \in Frame : SendsOneNormal(f)
         /\ ExpressHeld(sched', fits)
<1>1. notify' \in BOOLEAN /\ notifyExp' \in BOOLEAN /\ sched' \in SchedulerState /\ Sorted(sched')
  BY DEF PortInv, TypeOK, Core
<1> DEFINE first == FirstSide(s)
<1>2. Progress(s, sched', queueName, first, phase, fits)
  BY <1>1, TimedPortIsRingPort, ProcessingOrder DEF HandsOver
<1> HIDE DEF first
<1>3. Len(sched.out) \in Nat /\ Len(sched.outExp) \in Nat
  BY DEF PortInv, TypeOK, SchedulerState
<1>4. \A side \in Side : <<"EXPRESS", side>> \in queueName
  BY DEF queueName, Priority
<1>5. ASSUME SameLinks(sched', s)
      PROVE  SendsNothing(s)
  BY <1>3, <1>5 DEF HandsOver, SendsNothing, SameLinks, Starts, StartsExpress
<1>6. ASSUME NEW f \in Frame, NEW q \in queueName, ExpressFrom(s, sched', q, f, fits)
      PROVE  SendsOneExpress(s, fits, f)
  <2>1. ExpressOut(s, sched', f, fits) /\ sched'.nextUpAnotherExp = s.nextUpAnotherExp
    BY <1>2, <1>6 DEF ExpressFrom, Progress
  <2>2. sched'.outExp = <<f>> /\ Last(sched'.outExp) = f /\ Head(sched'.outExp) = f
    BY <2>1, LastOfOne DEF ExpressOut
  <2>3. ~ Starts /\ StartsExpress
    BY <1>3, <2>1 DEF HandsOver, ExpressOut, Starts, StartsExpress
  <2>4. QED
    BY <2>1, <2>2, <2>3 DEF HandsOver, ExpressOut, SendsOneExpress
<1>7. ASSUME NEW f \in Frame, NEW q \in queueName, NormalFrom(s, sched', q, f, first, phase)
      PROVE  SendsOneNormal(f)
  <2>1. NormalOut(s, sched', f)
    BY <1>7 DEF NormalFrom
  <2>2. sched'.out = <<f>> /\ Last(sched'.out) = f
    BY <2>1, LastOfOne DEF NormalOut
  <2>3. Starts /\ ~ StartsExpress
    BY <1>3, <2>1 DEF HandsOver, NormalOut, Starts, StartsExpress
  <2>4. ASSUME NEW side \in Side
        PROVE  sched'.queues[<<"EXPRESS", side>>] = <<>>
    <3>1. HeldBack(sched', <<"EXPRESS", side>>, phase)
      BY <1>4, <1>7 DEF NormalFrom, Before
    <3>2. QED
      BY <1>1, <3>1, HeldExpressIsEmpty
  <2>5. QED
    BY <2>1, <2>2, <2>3, <2>4 DEF HandsOver, NormalOut, SendsOneNormal
<1>8. ASSUME NEW side \in Side
      PROVE  \/ sched'.queues[<<"EXPRESS", side>>] = <<>>
             \/ sched'.transmitLockExp
             \/ sched'.transmitLock /\ ~ getExpressSendTime(sched', fits)
  <2>1. Passed(sched', <<"EXPRESS", side>>, phase, fits)
    BY <1>2, <1>4 DEF Progress
  <2>2. QED
    BY <1>1, <2>1, HeldExpressIsEmpty DEF Passed
<1>9. QED
  BY <1>2, <1>5, <1>6, <1>7, <1>8 DEF Progress, Sent, ExpressHeld

-----------------------------------------------------------------------------
(* Each outcome keeps the invariant.                                       *)

LEMMA LockedWhileOut ==
  ASSUME PortInv
  PROVE  /\ sched.out # <<>> => sched.transmitLock
         /\ Attach.len \in Nat
         /\ elapsed \in Nat => Fits(elapsed) \in BOOLEAN
BY DEF PortInv, Core, Locks, Attach, SchedulerState, Frame, Fits

LEMMA SentBytes ==
  ASSUME TypeOKLine, NEW sent \in {0, elapsed}
  PROVE  sent \in Nat
BY DEF TypeOKLine

LEMMA StillInTime ==
  ASSUME NEW left \in Nat, NEW sent \in Nat, NEW size \in Nat, NEW len \in Nat,
         left <= len + 20, left + sent <= size + 20, size >= len,
         NEW sent2 \in Nat, sent2 = 0 \/ sent2 = sent, NEW size2 \in Nat, size2 >= size
  PROVE  left + sent2 <= size2 + 20
OBVIOUS

(* The attached frame stays on the line.                                   *)
LEMMA FrameStays ==
  ASSUME PortInv, TypeOKLine, FrameInTime, messageSize' \in Nat, messageSize' >= messageSize,
         elapsed' \in {0, elapsed}, normLeft' = normLeft,
         sched'.out = sched.out, sched'.sendingStatus = sched.sendingStatus,
         sched'.transmitLock => sched.transmitLock
  PROVE  FrameInTime'
<1>1. /\ messageSize \in Nat /\ elapsed \in Nat /\ normLeft \in Nat
      /\ Attach.len \in Nat /\ Attach' = Attach
  BY LockedWhileOut DEF TypeOKLine, Attach
<1>2. elapsed' \in Nat /\ (elapsed' = 0 \/ elapsed' = elapsed)
  BY <1>1
<1>3. sched'.transmitLock => messageSize' >= Attach'.len
  <2>1. sched'.transmitLock => messageSize >= Attach.len
    BY DEF FrameInTime
  <2>2. QED
    BY <1>1, <2>1
<1>4. ASSUME sched.out # <<>>
      PROVE  normLeft <= OnLine(Attach.len) /\ normLeft + elapsed' <= messageSize' + 20
  <2>1. normLeft <= OnLine(Attach.len)
    BY <1>4 DEF FrameInTime
  <2>2. normLeft + elapsed <= messageSize + 20 /\ messageSize >= Attach.len
    BY <1>4, LockedWhileOut DEF FrameInTime
  <2>3. normLeft <= Attach.len + 20
    BY <1>1, <2>1 DEF OnLine, PREAMBLE, IFG
  <2>4. PICK len \in Nat : normLeft <= len + 20 /\ messageSize >= len
    BY <1>1, <2>2, <2>3
  <2>5. normLeft + elapsed' <= messageSize' + 20
    BY <1>1, <1>2, <2>2, <2>4, StillInTime
  <2>6. QED
    BY <2>1, <2>5
<1>5. QED
  BY <1>1, <1>3, <1>4 DEF FrameInTime

LEMMA WaitStays ==
  ASSUME TypeOKLine, WaitEnds, waited' \in {0, waited}, normLeft' = normLeft,
         sched'.out = sched.out
  PROVE  WaitEnds'
<1>1. CASE waited' = 0
  BY <1>1 DEF WaitEnds
<1>2. CASE waited' = waited
  BY <1>2 DEF WaitEnds
<1>3. QED
  BY <1>1, <1>2

LEMMA NothingKeeps ==
  ASSUME PortInv, LineInv, NEW s, HandsOver(s), NEW sent \in {0, elapsed},
         SendsNothing(s), ExpressHeld(sched', Fits(sent)), Line(sent)
  PROVE  LineInv' /\ CutLeaves57
<1> USE DEF LineInv
<1>1. /\ elapsed' = sent /\ messageSize' = messageSize /\ normLeft' = normLeft
      /\ expLeft' = expLeft /\ rest' = rest /\ cut' = cut
      /\ waited' \in {0, waited}
  BY DEF Line, SendsNothing, Interrupts
<1>2. /\ sched'.out = sched.out /\ sched'.outExp = sched.outExp /\ Attach' = Attach
      /\ sched'.sendingStatus = sched.sendingStatus
      /\ sched'.transmitLock => sched.transmitLock
      /\ sched'.transmitLockExp => sched.transmitLockExp
  BY DEF SendsNothing, HandsOver, SameLinks, Attach
<1>3. TypeOKLine'
  BY <1>1, SentBytes DEF TypeOKLine
<1>4. FrameInTime'
  BY <1>1, <1>2, FrameStays DEF TypeOKLine
<1>5. RestIsLeft'
  BY <1>1, <1>2 DEF RestIsLeft
<1>6. CannotCutNow'
  BY <1>1 DEF CannotCutNow, ExpressHeld, Fits, bytesNotYetSent
<1>7. WaitEnds'
  BY <1>1, <1>2, WaitStays
<1>8. ExpressSoon' /\ FrontIsLongEnough'
  BY <1>1, <1>2 DEF ExpressSoon, FrontIsLongEnough
<1>9. CutLeaves57
  BY DEF CutLeaves57, Interrupts, SendsNothing
<1>10. QED
  BY <1>3, <1>4, <1>5, <1>6, <1>7, <1>8, <1>9

LEMMA NormalKeeps ==
  ASSUME PortInv, LineInv, NEW sent \in {0, elapsed},
         NEW f \in Frame, SendsOneNormal(f), Line(sent)
  PROVE  LineInv' /\ CutLeaves57
<1> USE DEF LineInv
<1>1. /\ elapsed' = 0 /\ messageSize' = f.len /\ normLeft' = OnLine(f.len)
      /\ expLeft' = expLeft /\ rest' = f.len /\ cut' = cut
  BY DEF Line, SendsOneNormal, Interrupts
<1>2. /\ sched'.out = <<f>> /\ sched'.outExp = sched.outExp /\ Attach' = f
      /\ f.len \in Nat /\ OnLine(f.len) \in Nat
  BY DEF SendsOneNormal, Attach, Frame, OnLine, PREAMBLE, IFG
<1>3. waited' = 0
  BY DEF Line, ExpressWaits, SendsOneNormal
<1>4. TypeOKLine'
  BY <1>1, <1>2, <1>3 DEF TypeOKLine
<1>5. FrameInTime'
  BY <1>1, <1>2 DEF FrameInTime, OnLine, PREAMBLE, IFG
<1>6. RestIsLeft'
  BY <1>1, <1>2 DEF RestIsLeft, SendsOneNormal
<1>7. CannotCutNow'
  BY DEF CannotCutNow, ExpressHeld, SendsOneNormal
<1>8. WaitEnds'
  BY <1>3 DEF WaitEnds
<1>9. ExpressSoon' /\ FrontIsLongEnough'
  BY <1>1, <1>2 DEF ExpressSoon, FrontIsLongEnough
<1>10. CutLeaves57
  BY DEF CutLeaves57, Interrupts, SendsOneNormal
<1>11. QED
  BY <1>4, <1>5, <1>6, <1>7, <1>8, <1>9, <1>10

(* An express frame leaves.  If it cuts the attached frame, the cut falls  *)
(* into it, 57 bytes before its end or earlier.                            *)
LEMMA ExpressKeeps ==
  ASSUME PortInv, LineInv, NEW s, HandsOver(s), NEW sent \in {0, elapsed},
         NEW f \in Frame, SendsOneExpress(s, Fits(sent), f), Line(sent)
  PROVE  LineInv' /\ CutLeaves57
<1> USE DEF LineInv
<1> DEFINE another == sched'.nextUpAnotherExp
           cuts    == sched'.transmitLock
           w       == IF cuts THEN expressWait(sent, another) ELSE 0
           data    == sent + w - 24
<1>1. Interrupts = cuts /\ another \in BOOLEAN /\ f.len \in Nat /\ cuts \in BOOLEAN
  BY DEF Interrupts, SendsOneExpress, HandsOver, Core, SchedulerState, Frame
<1>2. /\ elapsed' = sent /\ normLeft' = normLeft
      /\ messageSize' = IF cuts THEN messageSize + preemptionDelay(f.len) ELSE messageSize
      /\ expLeft' = w + OnLine(f.len)
      /\ rest' = IF cuts /\ ~ another THEN rest - data ELSE rest
      /\ cut' = IF cuts /\ ~ another THEN [data |-> data, rest |-> rest - data] ELSE cut
      /\ waited' \in {0, waited}
  <2>1. ~ Starts /\ StartsExpress /\ Last(sched'.outExp) = f
    BY DEF SendsOneExpress
  <2>2. data = sent + w - PREAMBLE - FCS - IFG
    <3>1. sent \in Nat
      BY SentBytes
    <3>2. w \in Nat
      BY <1>1, <3>1, WaitBounds
    <3> HIDE DEF w
    <3>3. QED
      BY <3>1, <3>2 DEF PREAMBLE, FCS, IFG
  <2> HIDE DEF data
  <2>3. QED
    BY <1>1, <2>1, <2>2 DEF Line
<1>3. /\ w \in Nat /\ w <= 84
      /\ cuts /\ ~ another => sent + w >= 84 /\ (sent + w <= 91 \/ w <= 19)
  <2>1. sent \in Nat
    BY SentBytes
  <2>2. QED
    BY <1>1, <2>1, WaitBounds
<1>4. sent \in Nat /\ OnLine(f.len) \in Nat /\ preemptionDelay(f.len) \in Nat
  BY <1>1, SentBytes DEF OnLine, preemptionDelay, PREAMBLE, FCS, IFG
<1>5. /\ sched'.out = sched.out /\ sched'.outExp = <<f>> /\ Head(sched'.outExp) = f
      /\ Attach' = Attach /\ sched'.sendingStatus = sched.sendingStatus
      /\ sched'.transmitLockExp
      /\ cuts => sched.transmitLock
  BY DEF SendsOneExpress, HandsOver, Attach
<1>6. cuts /\ another => rest < Attach.len
  BY DEF SendsOneExpress, HandsOver
<1>7. cuts => Attach.len >= 128 /\ (~ another => Fits(sent))
  BY PreemptionAssumption DEF SendsOneExpress, HandsOver, getExpressSendTime, Attach
<1>8. Attach.len \in Nat /\ messageSize \in Nat /\ rest \in Int /\ waited \in Nat
  BY LockedWhileOut DEF TypeOKLine
<1> HIDE DEF another, cuts, w
<1>9. data \in Int /\ (cuts /\ ~ another => data >= 60)
  BY <1>3, <1>4
<1>10. TypeOKLine'
  <2>1. messageSize' \in Nat /\ expLeft' \in Nat
    BY <1>2, <1>3, <1>4, <1>8
  <2>2. rest' \in Int
    BY <1>2, <1>8, <1>9
  <2>3. cut' \in [data : Int, rest : Int]
    <3>1. cut \in [data : Int, rest : Int] /\ rest - data \in Int
      BY <1>8, <1>9 DEF TypeOKLine
    <3> HIDE DEF data
    <3>2. QED
      BY <1>2, <1>9, <3>1
  <2>4. QED
    BY <1>2, <1>4, <2>1, <2>2, <2>3 DEF TypeOKLine
<1>11. FrameInTime'
  <2>1. messageSize' \in Nat /\ messageSize' >= messageSize
    BY <1>2, <1>4, <1>8
  <2>2. sched'.transmitLock => sched.transmitLock
    BY <1>5 DEF cuts
  <2>3. QED
    BY <1>2, <1>5, <2>1, <2>2, FrameStays
<1>12. RestIsLeft'
  <2>1. SUFFICES ASSUME cuts
                 PROVE  rest' < Attach.len
    BY <1>5, <1>8, <1>2, <1>9 DEF RestIsLeft, cuts
  <2>2. rest <= Attach.len
    BY <1>5, <2>1 DEF RestIsLeft
  <2>3. QED
    BY <1>2, <1>6, <1>8, <1>9, <2>1, <2>2
<1>13. CannotCutNow'
  BY <1>5 DEF CannotCutNow, ExpressHeld
<1>14. WaitEnds'
  <2>1. waited' \in {0, waited} /\ normLeft' = normLeft /\ sched'.out = sched.out
    BY <1>2, <1>5
  <2>2. QED
    BY <2>1, WaitStays
<1>15. ExpressSoon'
  BY <1>2, <1>3, <1>4, <1>5 DEF ExpressSoon
<1>16. FrontIsLongEnough'
  BY <1>2, <1>9 DEF FrontIsLongEnough
<1>17. CutLeaves57
  <2>1. SUFFICES ASSUME cuts, rest = Attach.len
                 PROVE  rest' >= 57
    BY <1>1 DEF CutLeaves57, Attach
  <2>2. ~ another
    BY <1>6, <1>8, <2>1
  <2>3. messageSize = Attach.len /\ messageSize - sent + 12 >= 64
    BY <1>5, <1>7, <2>1, <2>2 DEF RestIsLeft, Fits, bytesNotYetSent
  <2>4. QED
    BY <1>2, <1>3, <1>4, <1>7, <1>8, <2>1, <2>2, <2>3
<1>18. QED
  BY <1>10, <1>11, <1>12, <1>13, <1>14, <1>15, <1>16, <1>17

LEMMA HandlerKeeps ==
  ASSUME PortInv, PortInv', LineInv, NEW s, HandsOver(s), NEW sent \in {0, elapsed},
         sched' = processQueues(s, phase, Fits(sent)), Line(sent)
  PROVE  LineInv' /\ CutLeaves57
<1>1. Fits(sent) \in BOOLEAN
  BY DEF Fits
<1>2. /\ \/ SendsNothing(s)
         \/ \E f \in Frame : SendsOneExpress(s, Fits(sent), f)
         \/ \E f \in Frame : SendsOneNormal(f)
      /\ ExpressHeld(sched', Fits(sent))
  BY <1>1, Outcome
<1>3. CASE SendsNothing(s)
  BY <1>2, <1>3, NothingKeeps
<1>4. ASSUME NEW f \in Frame, SendsOneExpress(s, Fits(sent), f)
      PROVE  LineInv' /\ CutLeaves57
  BY <1>4, ExpressKeeps
<1>5. ASSUME NEW f \in Frame, SendsOneNormal(f)
      PROVE  LineInv' /\ CutLeaves57
  BY <1>5, NormalKeeps
<1>6. QED
  BY <1>2, <1>3, <1>4, <1>5

-----------------------------------------------------------------------------
(* The steps. *)

LEMMA ProcessKeeps ==
  ASSUME PortInv, PortInv', LineInv, Process
  PROVE  LineInv' /\ CutLeaves57
<1>1. /\ UNCHANGED <<notify, notifyExp>> /\ Line(elapsed)
      /\ sched' = processQueues(sched, phase, Fits(elapsed))
  BY DEF Process, ProcessSelfMessage
<1>2. HandsOver(sched)
  BY <1>1 DEF HandsOver, PortInv, Fresh
<1>3. QED
  BY <1>1, <1>2, HandlerKeeps

LEMMA NormalIdleKeeps ==
  ASSUME PortInv, PortInv', LineInv, NormalIdle
  PROVE  LineInv' /\ CutLeaves57
<1> DEFINE s == unlock(sched)
<1>1. /\ notify = TRUE /\ notify' = FALSE /\ notifyExp' = notifyExp /\ notifyExp \in BOOLEAN
      /\ sched \in SchedulerState /\ Core(sched, notify, notifyExp)
  BY DEF NormalIdle, InterfaceIdle, PortInv, TypeOK
<1>2. Line(elapsed) /\ sched' = processQueues(s, phase, Fits(elapsed))
  BY DEF NormalIdle, InterfaceIdle
<1>3. Core(s, notify', notifyExp')
  BY <1>1, UnlockKeeps
<1>4. /\ s.queues = sched.queues /\ s.out = sched.out /\ s.outExp = sched.outExp
      /\ s.sendingStatus = sched.sendingStatus /\ s.transmitLock = FALSE
      /\ s.transmitLockExp = sched.transmitLockExp
  BY <1>1 DEF unlock, SchedulerState
<1> HIDE DEF s
<1>5. HandsOver(s)
  BY <1>3, <1>4 DEF HandsOver
<1>6. QED
  BY <1>2, <1>5, HandlerKeeps

LEMMA ExpressIdleKeeps ==
  ASSUME PortInv, PortInv', LineInv, ExpressIdle
  PROVE  LineInv' /\ CutLeaves57
<1> DEFINE s == unlockExp(sched)
<1>1. /\ notifyExp = TRUE /\ notifyExp' = FALSE /\ notify' = notify /\ notify \in BOOLEAN
      /\ sched \in SchedulerState /\ Core(sched, notify, notifyExp)
  BY DEF ExpressIdle, ExpressInterfaceIdle, PortInv, TypeOK
<1>2. Line(0) /\ sched' = processQueues(s, phase, Fits(0))
  BY DEF ExpressIdle, ExpressInterfaceIdle
<1>3. Core(s, notify', notifyExp')
  BY <1>1, UnlockExpKeeps
<1>4. /\ s.queues = sched.queues /\ s.out = sched.out /\ s.outExp = sched.outExp
      /\ s.sendingStatus = sched.sendingStatus /\ s.transmitLock = sched.transmitLock
      /\ s.transmitLockExp = FALSE
  BY <1>1 DEF unlockExp, SchedulerState
<1> HIDE DEF s
<1>5. sched.transmitLockExp
  BY <1>1 DEF Core, Locks
<1>6. s.transmitLock => rest < Attach.len
  BY <1>4, <1>5 DEF LineInv, RestIsLeft
<1>7. HandsOver(s)
  BY <1>3, <1>4, <1>6 DEF HandsOver
<1>8. QED
  BY <1>2, <1>7, HandlerKeeps

(* A frame that arrives is only queued. *)
LEMMA ArriveKeeps ==
  ASSUME PortInv, LineInv, NEW kind \in FrameKind, NEW side \in Side, Arrive(kind, side)
  PROVE  LineInv' /\ CutLeaves57
<1> DEFINE f == [id |-> enqueued + 1, prio |-> kind.prio, cpu |-> kind.cpu, len |-> kind.len]
<1>1. sched \in SchedulerState /\ f \in Frame /\ f.prio = kind.prio
  BY FrameType DEF PortInv, TypeOK
<1>2. sched' = enqueueMessage(sched, f, <<kind.prio, side>>)
  BY DEF Arrive, EnqueueFrame
<1> HIDE DEF f
<1>3. PICK q \in queueName : Enqueued(sched, q, f, sched')
  BY <1>1, <1>2, EnqueueEffect
<1>4. SameLinks(sched', sched)
  BY <1>3 DEF Enqueued
<1>5. UNCHANGED line /\ pending' = pending + 1 /\ pending \in Nat
  BY DEF Arrive, EnqueueFrame, PortInv, TypeOK
<1>6. QED
  BY <1>4, <1>5 DEF SameLinks, line, LineInv, TypeOKLine, FrameInTime, RestIsLeft, CannotCutNow,
     WaitEnds, ExpressSoon, FrontIsLongEnough, CutLeaves57, Interrupts, StartsExpress, Attach

(* The end of a transmission. *)
LEMMA NormalFinishedKeeps ==
  ASSUME PortInv, LineInv, NormalFinished
  PROVE  LineInv' /\ CutLeaves57
<1>1. sched \in SchedulerState /\ sched.out \in Seq(Frame) /\ sched.out # <<>>
  BY DEF NormalFinished, Transmitted, PortInv, TypeOK, SchedulerState
<1>2. Len(sched.out) <= 1
  <2>1. Len(sched.out) \in Nat
    BY <1>1
  <2>2. Len(sched.out) <= IF notify THEN 0 ELSE 1
    BY DEF PortInv, Core, Locks
  <2>3. QED
    BY <2>1, <2>2
<1>3. sched' = [sched EXCEPT !.out = <<>>]
  BY <1>1, <1>2, SentOne DEF NormalFinished, Transmitted
<1>4. /\ sched'.out = <<>> /\ sched'.outExp = sched.outExp /\ sched'.queues = sched.queues
      /\ sched'.sendingStatus = sched.sendingStatus /\ sched'.transmitLock = sched.transmitLock
      /\ sched'.transmitLockExp = sched.transmitLockExp
      /\ sched'.nextUpAnotherExp = sched.nextUpAnotherExp
  BY <1>1, <1>3 DEF SchedulerState
<1>5. UNCHANGED line /\ pending' = pending /\ normLeft = 0
  BY DEF NormalFinished, Transmitted
<1>6. TypeOKLine' /\ FrameInTime' /\ RestIsLeft' /\ ExpressSoon' /\ FrontIsLongEnough'
  BY <1>4, <1>5 DEF line, LineInv, TypeOKLine, FrameInTime, RestIsLeft, ExpressSoon,
     FrontIsLongEnough, Attach
<1>7. CannotCutNow'
  BY <1>4, <1>5 DEF line, LineInv, CannotCutNow, ExpressHeld, getExpressSendTime, Fits,
     bytesNotYetSent
<1>8. WaitEnds'
  BY <1>1, <1>4, <1>5 DEF line, LineInv, TypeOKLine, WaitEnds
<1>9. CutLeaves57
  BY <1>4 DEF CutLeaves57, Interrupts, StartsExpress
<1>10. QED
  BY <1>6, <1>7, <1>8, <1>9 DEF LineInv

LEMMA ExpressFinishedKeeps ==
  ASSUME PortInv, LineInv, ExpressFinished
  PROVE  LineInv' /\ CutLeaves57
<1>1. sched \in SchedulerState /\ sched.outExp \in Seq(Frame) /\ sched.outExp # <<>>
  BY DEF ExpressFinished, ExpressTransmitted, PortInv, TypeOK, SchedulerState
<1>2. Len(sched.outExp) <= 1
  <2>1. Len(sched.outExp) \in Nat
    BY <1>1
  <2>2. Len(sched.outExp) <= IF notifyExp THEN 0 ELSE 1
    BY DEF PortInv, Core, Locks
  <2>3. QED
    BY <2>1, <2>2
<1>3. sched' = [sched EXCEPT !.outExp = <<>>]
  BY <1>1, <1>2, SentOne DEF ExpressFinished, ExpressTransmitted
<1>4. /\ sched'.out = sched.out /\ sched'.outExp = <<>> /\ sched'.queues = sched.queues
      /\ sched'.sendingStatus = sched.sendingStatus /\ sched'.transmitLock = sched.transmitLock
      /\ sched'.transmitLockExp = sched.transmitLockExp
      /\ sched'.nextUpAnotherExp = sched.nextUpAnotherExp
  BY <1>1, <1>3 DEF SchedulerState
<1>5. UNCHANGED line /\ pending' = pending
  BY DEF ExpressFinished, ExpressTransmitted
<1>6. TypeOKLine' /\ FrameInTime' /\ RestIsLeft' /\ ExpressSoon' /\ FrontIsLongEnough'
  BY <1>4, <1>5 DEF line, LineInv, TypeOKLine, FrameInTime, RestIsLeft, ExpressSoon,
     FrontIsLongEnough, Attach
<1>7. CannotCutNow'
  BY <1>4, <1>5 DEF line, LineInv, CannotCutNow, ExpressHeld, getExpressSendTime, Fits,
     bytesNotYetSent
<1>8. WaitEnds'
  BY <1>4, <1>5 DEF line, LineInv, TypeOKLine, WaitEnds
<1>9. CutLeaves57
  <2>1. Len(sched'.outExp) = 0 /\ Len(sched.outExp) \in Nat
    BY <1>1, <1>4
  <2>2. QED
    BY <2>1 DEF CutLeaves57, Interrupts, StartsExpress
<1>10. QED
  BY <1>6, <1>7, <1>8, <1>9 DEF LineInv

(* Time that passes makes the frame shorter for the interface and older    *)
(* for the scheduler.  A wait that begins now finds a frame that cannot be *)
(* cut, hence one that ends within 147 bytes.                              *)
LEMMA UncutEndsSoon ==
  ASSUME PortInv, LineInv, InstantIsOver, ExpressWaits
  PROVE  sched.out # <<>> /\ normLeft <= 147
<1>1. sched.transmitLock /\ ~ getExpressSendTime(sched, Fits(elapsed))
  BY DEF LineInv, CannotCutNow, ExpressHeld, InstantIsOver, ExpressWaits
<1>2. sched.out # <<>>
  BY <1>1 DEF PortInv, Core, Locks, InstantIsOver
<1>3. /\ messageSize \in Nat /\ elapsed \in Nat /\ normLeft \in Nat /\ Attach.len \in Nat
      /\ normLeft <= OnLine(Attach.len) /\ normLeft + elapsed <= messageSize + 20
  BY <1>2, LockedWhileOut DEF LineInv, TypeOKLine, FrameInTime
<1>4. Attach.len < 128 \/ ~ Fits(elapsed)
  BY <1>1, <1>3, PreemptionAssumption DEF getExpressSendTime, Attach
<1>5. CASE Attach.len < 128
  BY <1>2, <1>3, <1>5 DEF OnLine, PREAMBLE, IFG
<1>6. CASE ~ Fits(elapsed)
  <2>1. messageSize - elapsed + 12 < 64
    BY <1>3, <1>6 DEF Fits, bytesNotYetSent
  <2>2. normLeft + elapsed <= messageSize + 20
    BY <1>3
  <2>3. messageSize \in Nat /\ elapsed \in Nat /\ normLeft \in Nat
    BY <1>3
  <2>4. normLeft <= 147
    BY <2>1, <2>2, <2>3
  <2>5. QED
    BY <1>2, <2>4
<1>7. QED
  BY <1>4, <1>5, <1>6

LEMMA TickKeeps ==
  ASSUME PortInv, LineInv, Tick
  PROVE  LineInv' /\ CutLeaves57
<1>1. /\ messageSize \in Nat /\ elapsed \in Nat /\ normLeft \in Nat /\ expLeft \in Nat
      /\ waited \in Nat
  BY DEF LineInv, TypeOKLine
<1>2. /\ UNCHANGED <<sched, pending, messageSize, rest, cut>> /\ InstantIsOver
      /\ elapsed' = elapsed + 1
      /\ sched.out # <<>> => normLeft > 0
      /\ sched.outExp # <<>> => expLeft > 0
      /\ normLeft' = IF sched.out # <<>> THEN normLeft - 1 ELSE normLeft
      /\ expLeft'  = IF sched.outExp # <<>> THEN expLeft - 1 ELSE expLeft
      /\ waited'   = IF ExpressWaits THEN waited + 1 ELSE 0
  BY DEF Tick, vars
<1>3. TypeOKLine'
  BY <1>1, <1>2 DEF LineInv, TypeOKLine
<1>4. FrameInTime'
  <2>1. Attach' = Attach /\ Attach.len \in Nat
    BY <1>2, LockedWhileOut DEF Attach
  <2>2. ASSUME sched.out # <<>>
        PROVE  normLeft' <= OnLine(Attach.len) /\ normLeft' + elapsed' <= messageSize + 20
    <3>1. normLeft + elapsed <= messageSize + 20
      BY <2>2 DEF LineInv, FrameInTime
    <3>2. normLeft <= Attach.len + 20
      <4>1. normLeft <= OnLine(Attach.len)
        BY <2>2 DEF LineInv, FrameInTime
      <4>2. QED
        BY <1>1, <2>1, <4>1 DEF OnLine, PREAMBLE, IFG
    <3>3. normLeft' = normLeft - 1 /\ normLeft > 0
      BY <1>2, <2>2
    <3>4. normLeft' + elapsed' = normLeft + elapsed
      BY <1>1, <1>2, <3>3
    <3>5. normLeft' <= Attach.len + 20
      BY <1>1, <2>1, <3>2, <3>3
    <3>6. QED
      BY <2>1, <3>1, <3>4, <3>5 DEF OnLine, PREAMBLE, IFG
  <2>3. QED
    BY <1>2, <2>1, <2>2 DEF LineInv, FrameInTime
<1>5. RestIsLeft'
  BY <1>2 DEF LineInv, RestIsLeft, Attach
<1>6. CannotCutNow'
  <2>1. Fits(elapsed)' => Fits(elapsed)
    BY <1>1, <1>2 DEF Fits, bytesNotYetSent
  <2>2. ASSUME getExpressSendTime(sched, Fits(elapsed))'
        PROVE  getExpressSendTime(sched, Fits(elapsed))
    BY <1>2, <2>1, <2>2 DEF getExpressSendTime
  <2>3. ExpressHeld(sched, Fits(elapsed))
    BY <1>2 DEF LineInv, CannotCutNow, InstantIsOver
  <2>4. QED
    BY <1>2, <2>2, <2>3 DEF CannotCutNow, ExpressHeld
<1>7. WaitEnds'
  <2>1. CASE ~ ExpressWaits
    BY <1>2, <2>1 DEF WaitEnds
  <2>2. CASE ExpressWaits
    <3>1. sched.out # <<>> /\ normLeft <= 147
      BY <1>2, <2>2, UncutEndsSoon
    <3>2. waited' = waited + 1 /\ normLeft' = normLeft - 1 /\ sched'.out = sched.out
      BY <1>2, <2>2, <3>1
    <3>3. waited > 0 => waited + normLeft <= 147
      BY <3>1 DEF LineInv, WaitEnds
    <3>4. waited' + normLeft' <= 147
      BY <1>1, <3>1, <3>2, <3>3
    <3>5. QED
      BY <3>1, <3>2, <3>4 DEF WaitEnds
  <2>3. QED
    BY <2>1, <2>2
<1>8. ExpressSoon'
  <2>1. CASE sched.outExp = <<>>
    BY <1>2, <2>1 DEF ExpressSoon
  <2>2. CASE sched.outExp # <<>>
    <3>1. PICK f \in Frame : Head(sched.outExp) = f
      BY <2>2 DEF PortInv, TypeOK, SchedulerState
    <3>2. f.len \in Nat /\ OnLine(f.len) \in Nat
      BY DEF Frame, OnLine, PREAMBLE, IFG
    <3>3. expLeft <= 84 + OnLine(f.len) /\ expLeft' = expLeft - 1
      BY <1>2, <2>2, <3>1 DEF LineInv, ExpressSoon
    <3>4. expLeft' <= 84 + OnLine(f.len)
      BY <1>1, <3>2, <3>3
    <3>5. QED
      BY <1>2, <3>1, <3>4 DEF ExpressSoon
  <2>3. QED
    BY <2>1, <2>2
<1>9. FrontIsLongEnough'
  BY <1>2 DEF LineInv, FrontIsLongEnough
<1>10. CutLeaves57
  BY <1>2 DEF CutLeaves57, Interrupts, StartsExpress, PortInv, TypeOK, SchedulerState
<1>11. QED
  BY <1>3, <1>4, <1>5, <1>6, <1>7, <1>8, <1>9, <1>10 DEF LineInv

LEMMA LineInductive ==
  ASSUME PortInv, LineInv, [TNext]_tvars
  PROVE  PortInv' /\ LineInv' /\ (~ UNCHANGED tvars => CutLeaves57)
<1>1. PortInv'
  BY TimedStep, TimedPortIsRingPort, PortInductive
<1>2. ASSUME NEW kind \in FrameKind, NEW side \in Side, Arrive(kind, side)
      PROVE  LineInv' /\ CutLeaves57
  BY <1>2, ArriveKeeps
<1>3. ASSUME UNCHANGED tvars
      PROVE  LineInv'
  <2>1. UNCHANGED <<sched, pending, messageSize, elapsed, normLeft, expLeft, rest, cut, waited>>
    BY <1>3 DEF tvars, vars, line
  <2>2. TypeOKLine' /\ FrameInTime' /\ RestIsLeft'
    BY <2>1 DEF LineInv, TypeOKLine, FrameInTime, RestIsLeft, Attach
  <2>3. CannotCutNow'
    BY <2>1 DEF LineInv, CannotCutNow, ExpressHeld, getExpressSendTime, Fits, bytesNotYetSent
  <2>4. WaitEnds' /\ ExpressSoon' /\ FrontIsLongEnough'
    BY <2>1 DEF LineInv, WaitEnds, ExpressSoon, FrontIsLongEnough
  <2>5. QED
    BY <2>2, <2>3, <2>4 DEF LineInv
<1>4. CASE TNext
  BY <1>1, <1>2, <1>4, ProcessKeeps, NormalIdleKeeps, ExpressIdleKeeps, NormalFinishedKeeps,
     ExpressFinishedKeeps, TickKeeps DEF TNext
<1>5. QED
  BY <1>1, <1>3, <1>4

LEMMA LineInit ==
  ASSUME TInit
  PROVE  PortInv /\ LineInv
<1>1. Init
  BY DEF TInit
<1>2. PortInv
  BY <1>1, InitPort
<1>3. /\ sched.out = <<>> /\ sched.outExp = <<>> /\ ~ sched.transmitLock
      /\ \A q \in queueName : sched.queues[q] = <<>>
  BY <1>1 DEF Init, initScheduler
<1>4. \A side \in Side : <<"EXPRESS", side>> \in queueName
  BY DEF queueName, Priority
<1>5. LineInv
  BY <1>3, <1>4 DEF TInit, LineInv, TypeOKLine, FrameInTime, RestIsLeft, CannotCutNow,
     ExpressHeld, WaitEnds, ExpressSoon, FrontIsLongEnough
<1>6. QED
  BY <1>2, <1>5

LEMMA LineInvAlways == TSpec => [](PortInv /\ LineInv)
<1>1. TInit => PortInv /\ LineInv
  BY LineInit
<1>2. PortInv /\ LineInv /\ [TNext]_tvars => (PortInv /\ LineInv)'
  BY LineInductive
<1>3. QED
  BY <1>1, <1>2, PTL DEF TSpec

(* An express frame never waits longer for a free express interface than   *)
(* the longest frame that must not be cut takes, 147 bytes, and starts     *)
(* within the time of the shortest fragment once it is admitted            *)
(* (getExpressSendTime and the handlers that call processQueues).          *)
THEOREM ExpressNeverWaitsLong == TSpec => []ExpressIsServedInTime
<1>1. LineInv => ExpressIsServedInTime
  <2> SUFFICES ASSUME LineInv
               PROVE  ExpressIsServedInTime
    OBVIOUS
  <2>1. waited <= 147
    <3>1. waited \in Nat /\ normLeft \in Nat
      BY DEF LineInv, TypeOKLine
    <3>2. waited > 0 => waited + (IF sched.out # <<>> THEN normLeft ELSE 0) <= 147
      BY DEF LineInv, WaitEnds
    <3>3. QED
      BY <3>1, <3>2
  <2>2. OnLine(FragmentMin - 1) = 147
    BY PreemptionAssumption DEF OnLine, PREAMBLE, IFG
  <2>3. QED
    BY <2>1, <2>2 DEF LineInv, ExpressSoon, ExpressIsServedInTime, IFG
<1>2. QED
  BY <1>1, LineInvAlways, PTL

(* Every cut leaves a whole Ethernet frame's data in front of it.          *)
THEOREM FrontFragmentsAreWhole == TSpec => []FrontIsLongEnough
<1>1. LineInv => FrontIsLongEnough
  BY DEF LineInv
<1>2. QED
  BY <1>1, LineInvAlways, PTL

(* The first cut into a frame falls into it, at least 57 bytes before its  *)
(* end: the delay that getExpressSendTime adds after its test for 64 bytes *)
(* never costs more than 7 of them.                                        *)
THEOREM FirstCutFallsIntoFrame == TSpec => FirstCutLeaves57
<1>1. PortInv /\ LineInv /\ [TNext]_tvars => [CutLeaves57]_tvars
  BY LineInductive
<1>2. QED
  BY <1>1, LineInvAlways, PTL DEF TSpec, FirstCutLeaves57
=============================================================================
