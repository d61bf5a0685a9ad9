------------------------ MODULE SchedulerPort_proofs ------------------------
(***************************************************************************)
(* For every mode, limit, slot setting and set of frames: the state of a   *)
(* port is typed; a ring port neither gets stuck, nor loses a wakeup, nor  *)
(* preempts a frame it may not preempt, nor overdraws its limiter; the CPU *)
(* port has a processing for every frame that waits.  Frames are served in *)
(* the order the port promises.                                            *)
(*                                                                         *)
(* The ring port's properties hold together or not at all, hence one       *)
(* inductive invariant, PortInv, for all of them.  To the properties it    *)
(* adds that frames stand in the queue of their class (Sorted), since that *)
(* is why the limiter never refuses an express frame and every express     *)
(* frame announced by nextUpAnotherExp is really sent, and that the        *)
(* attached frame is the one in flight (Attached).                         *)
(*                                                                         *)
(* The lemmas about the scheduler's methods come first: what each changes  *)
(* and keeps, and what a processing of all queues leaves behind.           *)
(***************************************************************************)
EXTENDS SchedulerPort, SequenceTheorems, TLAPS

-----------------------------------------------------------------------------
(* What the parts of processOneQueue change and what they leave alone.     *)

(* r and s agree on the two interfaces, and on the wake-ups. *)
SameLinks(r, s) ==
  /\ r.transmitLock = s.transmitLock
  /\ r.transmitLockExp = s.transmitLockExp
  /\ r.sendingStatus = s.sendingStatus
  /\ r.out = s.out
  /\ r.outExp = s.outExp

SameWakeups(r, s) ==
  /\ r.notifiedToken = s.notifiedToken
  /\ r.notifiedTimeslot = s.notifiedTimeslot
  /\ r.timerToken = s.timerToken
  /\ r.timerTimeslot = s.timerTimeslot

(* The limiter does not refuse f. *)
Affordable(s, f) == Limited(f) => s.framebytecontainer >= f.len

(* The front of a queue is a frame and the rest of it a sequence of them. *)
LEMMA FrontType ==
  ASSUME NEW s \in SchedulerState, NEW q \in queueName, s.queues[q] # <<>>
  PROVE  /\ Head(s.queues[q]) \in Frame
         /\ Tail(s.queues[q]) \in Seq(Frame)
         /\ Append(s.out, Head(s.queues[q])) \in Seq(Frame)
         /\ Append(s.outExp, Head(s.queues[q])) \in Seq(Frame)
<1>1. s.queues[q] \in Seq(Frame) /\ s.out \in Seq(Frame) /\ s.outExp \in Seq(Frame)
  BY DEF SchedulerState
<1>2. QED
  BY <1>1

(* The container stays within its range when credit is added to it. *)
LEMMA CreditedType ==
  ASSUME NEW s \in SchedulerState, NEW f \in Frame
  PROVE  Credited(s, f) \in IF framebyteLimit = -1 THEN {-1, 0} ELSE 0 .. framebyteLimit
<1>1. /\ s.framebytecontainer \in IF framebyteLimit = -1 THEN {-1, 0} ELSE 0 .. framebyteLimit
      /\ s.credit \in 0 .. framebyteLimit + 1
  BY DEF SchedulerState
<1>2. QED
  BY <1>1, SchedulerAssumption DEF Credited

(* Adding the credit changes nothing but two numbers. *)
LEMMA CreditContainerEffect ==
  ASSUME NEW s \in SchedulerState, NEW f \in Frame
  PROVE  /\ CreditContainer(s, f) \in SchedulerState
         /\ CreditContainer(s, f).queues = s.queues
         /\ CreditContainer(s, f).nextUpAnotherExp = s.nextUpAnotherExp
         /\ CreditContainer(s, f).failed = s.failed
         /\ SameLinks(CreditContainer(s, f), s)
         /\ SameWakeups(CreditContainer(s, f), s)
         /\ containerHasEnoughBytes(s, f) => Affordable(CreditContainer(s, f), f)
<1> DEFINE r == CreditContainer(s, f)
<1>1. Credited(s, f) \in IF framebyteLimit = -1 THEN {-1, 0} ELSE 0 .. framebyteLimit
  BY CreditedType
<1>2. (IF Limited(f) /\ Credited(s, f) >= f.len THEN 0 ELSE s.credit) \in 0 .. framebyteLimit + 1
  BY SchedulerAssumption DEF SchedulerState
<1>3. r \in SchedulerState
  BY <1>1, <1>2 DEF CreditContainer, SchedulerState
<1>4. r.framebytecontainer = Credited(s, f)
  BY DEF CreditContainer, SchedulerState
<1>5. r.queues = s.queues /\ r.nextUpAnotherExp = s.nextUpAnotherExp /\ r.failed = s.failed
  BY DEF CreditContainer, SchedulerState
<1>6. SameLinks(r, s)
  BY DEF CreditContainer, SchedulerState, SameLinks
<1>7. SameWakeups(r, s)
  BY DEF CreditContainer, SchedulerState, SameWakeups
<1>8. containerHasEnoughBytes(s, f) => Affordable(r, f)
  BY <1>4 DEF containerHasEnoughBytes, Affordable
<1>9. QED
  BY <1>3, <1>5, <1>6, <1>7, <1>8

(* Taking the frame's bytes out of the container throws only for a frame   *)
(* the container cannot afford.                                            *)
LEMMA SubtractEffect ==
  ASSUME NEW s \in SchedulerState, NEW f \in Frame,
         NEW r, r = subtractFromByteContainer(s, f)
  PROVE  /\ r \in SchedulerState
         /\ r.queues = s.queues
         /\ r.nextUpAnotherExp = s.nextUpAnotherExp
         /\ Affordable(s, f) => r.failed = s.failed
         /\ SameLinks(r, s)
         /\ SameWakeups(r, s)
<1> DEFINE spent == [s EXCEPT !.framebytecontainer = @ - f.len]
           threw == [s EXCEPT !.failed = @ \/ framebyteLimit # -1]
<1>1. CASE f.prio # "LOW" \/ ~ f.cpu
  BY <1>1 DEF subtractFromByteContainer, SameLinks, SameWakeups
<1>2. CASE f.prio = "LOW" /\ f.cpu /\ s.framebytecontainer >= f.len
  <2>1. r = spent
    BY <1>2 DEF subtractFromByteContainer
  <2>2. s.framebytecontainer - f.len \in IF framebyteLimit = -1 THEN {-1, 0} ELSE 0 .. framebyteLimit
    BY <1>2, SchedulerAssumption DEF SchedulerState, Frame
  <2>3. spent \in SchedulerState
    BY <2>2 DEF SchedulerState
  <2>4. spent.queues = s.queues /\ spent.nextUpAnotherExp = s.nextUpAnotherExp /\ spent.failed = s.failed
    BY DEF SchedulerState
  <2>5. SameLinks(spent, s)
    BY DEF SchedulerState, SameLinks
  <2>6. SameWakeups(spent, s)
    BY DEF SchedulerState, SameWakeups
  <2> HIDE DEF spent, threw
  <2>7. QED
    BY <2>1, <2>3, <2>4, <2>5, <2>6
<1>3. CASE f.prio = "LOW" /\ f.cpu /\ ~ (s.framebytecontainer >= f.len)
  <2>1. r = threw
    BY <1>3 DEF subtractFromByteContainer
  <2>2. threw \in SchedulerState
    BY DEF SchedulerState
  <2>3. threw.queues = s.queues /\ threw.nextUpAnotherExp = s.nextUpAnotherExp
    BY DEF SchedulerState
  <2>4. Affordable(s, f) => threw.failed = s.failed
    BY <1>3 DEF SchedulerState, Affordable, Limited
  <2>5. SameLinks(threw, s)
    BY DEF SchedulerState, SameLinks
  <2>6. SameWakeups(threw, s)
    BY DEF SchedulerState, SameWakeups
  <2> HIDE DEF spent, threw
  <2>7. QED
    BY <2>1, <2>2, <2>3, <2>4, <2>5, <2>6
<1>4. QED
  BY <1>1, <1>2, <1>3

(* r is s after frame f of queue q went to the normal interface. *)
NormalSent(s, q, f, r) ==
  /\ r \in SchedulerState
  /\ r.queues = [s.queues EXCEPT ![q] = Tail(@)]
  /\ Affordable(s, f) => r.failed = s.failed
  /\ r.nextUpAnotherExp = s.nextUpAnotherExp
  /\ r.transmitLock = TRUE /\ r.transmitLockExp = s.transmitLockExp
  /\ r.sendingStatus = f /\ r.out = Append(s.out, f) /\ r.outExp = s.outExp
  /\ SameWakeups(r, s)

LEMMA SendFrontEffect ==
  ASSUME NEW s \in SchedulerState, NEW q \in queueName, s.queues[q] # <<>>,
         NEW f, f = Head(s.queues[q]), NEW r, r = SendFront(s, q)
  PROVE  NormalSent(s, q, f, r)
<1> DEFINE t == [s EXCEPT !.queues[q] = Tail(@), !.transmitLock = TRUE,
                          !.sendingStatus = f, !.out = Append(@, f)]
<1>1. f \in Frame /\ Tail(s.queues[q]) \in Seq(Frame) /\ Append(s.out, f) \in Seq(Frame)
  BY FrontType
<1>2. t \in SchedulerState
  BY <1>1 DEF SchedulerState
<1>3. /\ t.queues = [s.queues EXCEPT ![q] = Tail(@)]
      /\ t.failed = s.failed /\ t.framebytecontainer = s.framebytecontainer
      /\ t.nextUpAnotherExp = s.nextUpAnotherExp
  BY DEF SchedulerState
<1>4. /\ t.transmitLock = TRUE /\ t.transmitLockExp = s.transmitLockExp
      /\ t.sendingStatus = f /\ t.out = Append(s.out, f) /\ t.outExp = s.outExp
  BY DEF SchedulerState
<1>5. SameWakeups(t, s)
  BY DEF SchedulerState, SameWakeups
<1>6. r = subtractFromByteContainer(t, f)
  BY DEF SendFront
<1> HIDE DEF t
<1>7. /\ r \in SchedulerState
      /\ r.queues = t.queues
      /\ r.nextUpAnotherExp = t.nextUpAnotherExp
      /\ Affordable(t, f) => r.failed = t.failed
      /\ SameLinks(r, t)
      /\ SameWakeups(r, t)
  <2>1. f \in Frame
    BY <1>1
  <2>2. QED
    BY <1>2, <1>6, <2>1, SubtractEffect
<1>8. Affordable(s, f) => Affordable(t, f)
  BY <1>3 DEF Affordable
<1>9. SameWakeups(r, s)
  BY <1>5, <1>7 DEF SameWakeups
<1>10. r.queues = [s.queues EXCEPT ![q] = Tail(@)] /\ r.nextUpAnotherExp = s.nextUpAnotherExp
  BY <1>3, <1>7
<1>11. Affordable(s, f) => r.failed = s.failed
  BY <1>3, <1>7, <1>8
<1>12. /\ r.transmitLock = TRUE /\ r.transmitLockExp = s.transmitLockExp
       /\ r.sendingStatus = f /\ r.out = Append(s.out, f) /\ r.outExp = s.outExp
  BY <1>4, <1>7 DEF SameLinks
<1>13. QED
  BY <1>7, <1>9, <1>10, <1>11, <1>12 DEF NormalSent

(* r is s after frame f of queue q went to the express interface. *)
ExpressSent(s, q, f, r) ==
  /\ r \in SchedulerState
  /\ r.queues = [s.queues EXCEPT ![q] = Tail(@)]
  /\ Affordable(s, f) => r.failed = s.failed
  /\ r.nextUpAnotherExp = s.nextUpAnotherExp
  /\ r.transmitLock = s.transmitLock /\ r.transmitLockExp = TRUE
  /\ r.sendingStatus = s.sendingStatus /\ r.out = s.out /\ r.outExp = Append(s.outExp, f)
  /\ SameWakeups(r, s)

LEMMA SendExpressEffect ==
  ASSUME NEW s \in SchedulerState, NEW q \in queueName, s.queues[q] # <<>>,
         NEW f, f = Head(s.queues[q]), NEW r, r = sendExpressFrame(s, q)
  PROVE  ExpressSent(s, q, f, r)
<1> DEFINE t == [s EXCEPT !.queues[q] = Tail(@), !.transmitLockExp = TRUE,
                          !.outExp = Append(@, f)]
<1>1. f \in Frame /\ Tail(s.queues[q]) \in Seq(Frame) /\ Append(s.outExp, f) \in Seq(Frame)
  BY FrontType
<1>2. t \in SchedulerState
  BY <1>1 DEF SchedulerState
<1>3. /\ t.queues = [s.queues EXCEPT ![q] = Tail(@)]
      /\ t.failed = s.failed /\ t.framebytecontainer = s.framebytecontainer
      /\ t.nextUpAnotherExp = s.nextUpAnotherExp
  BY DEF SchedulerState
<1>4. /\ t.transmitLock = s.transmitLock /\ t.transmitLockExp = TRUE
      /\ t.sendingStatus = s.sendingStatus /\ t.out = s.out /\ t.outExp = Append(s.outExp, f)
  BY DEF SchedulerState
<1>5. SameWakeups(t, s)
  BY DEF SchedulerState, SameWakeups
<1>6. r = subtractFromByteContainer(t, f)
  BY DEF sendExpressFrame
<1> HIDE DEF t
<1>7. /\ r \in SchedulerState
      /\ r.queues = t.queues
      /\ r.nextUpAnotherExp = t.nextUpAnotherExp
      /\ Affordable(t, f) => r.failed = t.failed
      /\ SameLinks(r, t)
      /\ SameWakeups(r, t)
  <2>1. f \in Frame
    BY <1>1
  <2>2. QED
    BY <1>2, <1>6, <2>1, SubtractEffect
<1>8. Affordable(s, f) => Affordable(t, f)
  BY <1>3 DEF Affordable
<1>9. SameWakeups(r, s)
  BY <1>5, <1>7 DEF SameWakeups
<1>10. r.queues = [s.queues EXCEPT ![q] = Tail(@)] /\ r.nextUpAnotherExp = s.nextUpAnotherExp
  BY <1>3, <1>7
<1>11. Affordable(s, f) => r.failed = s.failed
  BY <1>3, <1>7, <1>8
<1>12. /\ r.transmitLock = s.transmitLock /\ r.transmitLockExp = TRUE
       /\ r.sendingStatus = s.sendingStatus /\ r.out = s.out /\ r.outExp = Append(s.outExp, f)
  BY <1>4, <1>7 DEF SameLinks
<1>13. QED
  BY <1>7, <1>9, <1>10, <1>11, <1>12 DEF ExpressSent

Timers(s) ==
  /\ s.notifiedToken <=> s.timerToken
  /\ s.notifiedTimeslot <=> s.timerTimeslot

(* Afterwards a wake-up is outstanding for whatever is missing. *)
LEMMA LookLaterEffect ==
  ASSUME NEW s \in SchedulerState, NEW q \in queueName, NEW ph, NEW enough \in BOOLEAN,
         NEW r, r = LookLater(s, q, ph, enough)
  PROVE  /\ r \in SchedulerState
         /\ r.queues = s.queues
         /\ r.failed = s.failed
         /\ r.nextUpAnotherExp = s.nextUpAnotherExp
         /\ SameLinks(r, s)
         /\ Timers(s) => Timers(r)
         /\ s.timerToken => r.timerToken
         /\ s.timerTimeslot => r.timerTimeslot
         /\ ~ enough => r.notifiedToken
         /\ enough /\ ~ timeslotIsValid(q, ph) => r.notifiedTimeslot
<1> DEFINE token == [s EXCEPT !.notifiedToken = TRUE, !.timerToken = TRUE]
           slot  == [s EXCEPT !.notifiedTimeslot = TRUE, !.timerTimeslot = TRUE]
<1>1. CASE ~ enough /\ ~ s.notifiedToken
  <2>1. r = token
    BY <1>1 DEF LookLater
  <2>2. token \in SchedulerState /\ token.notifiedToken /\ token.timerToken
    BY DEF SchedulerState
  <2>3. /\ token.queues = s.queues /\ token.failed = s.failed
        /\ token.nextUpAnotherExp = s.nextUpAnotherExp
        /\ token.notifiedTimeslot = s.notifiedTimeslot /\ token.timerTimeslot = s.timerTimeslot
    BY DEF SchedulerState
  <2>4. SameLinks(token, s)
    BY DEF SchedulerState, SameLinks
  <2> HIDE DEF token, slot
  <2>5. QED
    BY <1>1, <2>1, <2>2, <2>3, <2>4 DEF Timers
<1>2. CASE /\ ~ (~ enough /\ ~ s.notifiedToken)
           /\ ~ timeslotIsValid(q, ph) /\ ~ s.notifiedTimeslot
  <2>1. r = slot
    BY <1>2 DEF LookLater
  <2>2. slot \in SchedulerState /\ slot.notifiedTimeslot /\ slot.timerTimeslot
    BY DEF SchedulerState
  <2>3. /\ slot.queues = s.queues /\ slot.failed = s.failed
        /\ slot.nextUpAnotherExp = s.nextUpAnotherExp
        /\ slot.notifiedToken = s.notifiedToken /\ slot.timerToken = s.timerToken
    BY DEF SchedulerState
  <2>4. SameLinks(slot, s)
    BY DEF SchedulerState, SameLinks
  <2> HIDE DEF token, slot
  <2>5. QED
    BY <1>2, <2>1, <2>2, <2>3, <2>4 DEF Timers
<1>3. CASE /\ ~ (~ enough /\ ~ s.notifiedToken)
           /\ ~ (~ timeslotIsValid(q, ph) /\ ~ s.notifiedTimeslot)
  <2>1. r = s
    BY <1>3 DEF LookLater
  <2>2. QED
    BY <1>3, <2>1 DEF SameLinks
<1>4. QED
  BY <1>1, <1>2, <1>3

-----------------------------------------------------------------------------
(* processOneQueue on a ring port. *)

RingPort == schedID \in {"A", "B"} /\ schedmode # "TOKENS"

(* Every frame stands in a queue of its class. *)
Sorted(s) == \A q \in queueName : \A i \in DOMAIN s.queues[q] : s.queues[q][i].prio = q[1]

LEMMA SortedFront ==
  ASSUME NEW s \in SchedulerState, Sorted(s), NEW q \in queueName, s.queues[q] # <<>>
  PROVE  Head(s.queues[q]).prio = q[1]
<1>1. 1 \in DOMAIN s.queues[q] /\ Head(s.queues[q]) = s.queues[q][1]
  BY DEF SchedulerState
<1>2. QED
  BY <1>1 DEF Sorted

LEMMA TailShifts ==
  ASSUME NEW S, NEW sq \in Seq(S), sq # <<>>, NEW i \in DOMAIN Tail(sq)
  PROVE  i + 1 \in DOMAIN sq /\ Tail(sq)[i] = sq[i + 1]
<1>1. Tail(sq) \in Seq(S) /\ Len(Tail(sq)) = Len(sq) - 1 /\ Len(sq) \in Nat
  OBVIOUS
<1>2. i \in 1 .. Len(sq) - 1
  BY <1>1
<1>3. QED
  BY <1>2

(* Taking the front of one queue leaves every queue sorted. *)
LEMMA TailSorted ==
  ASSUME NEW s \in SchedulerState, NEW r, Sorted(s),
         NEW q \in queueName, s.queues[q] # <<>>,
         r.queues = [s.queues EXCEPT ![q] = Tail(@)]
  PROVE  Sorted(r)
<1>1. ASSUME NEW p \in queueName, NEW i \in DOMAIN r.queues[p]
      PROVE  r.queues[p][i].prio = p[1]
  <2>1. s.queues \in [queueName -> Seq(Frame)]
    BY DEF SchedulerState
  <2>2. CASE p # q
    <3>1. r.queues[p] = s.queues[p]
      BY <2>1, <2>2
    <3>2. QED
      BY <3>1 DEF Sorted
  <2>3. CASE p = q
    <3>1. r.queues[p] = Tail(s.queues[p]) /\ s.queues[p] \in Seq(Frame) /\ s.queues[p] # <<>>
      BY <2>1, <2>3
    <3>2. i \in DOMAIN Tail(s.queues[p]) /\ r.queues[p][i] = Tail(s.queues[p])[i]
      BY <1>1, <3>1
    <3>3. i + 1 \in DOMAIN s.queues[p] /\ r.queues[p][i] = s.queues[p][i + 1]
      BY <3>1, <3>2, TailShifts
    <3>4. QED
      BY <3>3 DEF Sorted
  <2>4. QED
    BY <2>2, <2>3
<1>2. QED
  BY <1>1 DEF Sorted

(* The four things that can happen to the front of a queue.  The limiter   *)
(* never holds back an express frame, so such a frame is sent unless one   *)
(* is in flight or the frame being sent cannot be cut.                     *)
SendsExpress(s, q, fits, r) ==
  /\ q[1] = "EXPRESS"
  /\ ~ s.transmitLockExp
  /\ s.transmitLock => getExpressSendTime(s, fits)
  /\ r = sendExpressFrame(s, q)

SendsNormal(s, q, ph, enough, r) ==
  /\ q[1] # "EXPRESS"
  /\ enough
  /\ BothIdle(s)
  /\ timeslotIsValid(q, ph)
  /\ r = SendFront(s, q)

CannotCut(s, q, fits, r) ==
  /\ q[1] = "EXPRESS"
  /\ s.transmitLock
  /\ ~ getExpressSendTime(s, fits)
  /\ r = s

Waits(s, q, ph, enough, r) ==
  /\ ~ BothIdle(s) \/ ~ timeslotIsValid(q, ph) \/ ~ enough
  /\ q[1] = "EXPRESS" => s.transmitLockExp
  /\ r = LookLater(s, q, ph, enough)

LEMMA Branches ==
  ASSUME RingPort, NEW s \in SchedulerState, NEW q \in queueName,
         NEW ph, NEW fits \in BOOLEAN, NEW enough \in BOOLEAN,
         q[1] = "EXPRESS" => enough,
         NEW r, r = processFront(s, q, ph, fits, enough)
  PROVE  \/ SendsExpress(s, q, fits, r)
         \/ SendsNormal(s, q, ph, enough, r)
         \/ CannotCut(s, q, fits, r)
         \/ Waits(s, q, ph, enough, r)
<1>1. schedID # "C"
  BY DEF RingPort
<1>2. q[1] = "EXPRESS" => timeslotIsValid(q, ph)
  BY DEF timeslotIsValid
<1>3. s.transmitLock \in BOOLEAN /\ s.transmitLockExp \in BOOLEAN
  BY DEF SchedulerState
<1>4. CASE BothIdle(s) /\ timeslotIsValid(q, ph) /\ enough /\ q[1] = "EXPRESS"
  BY <1>1, <1>3, <1>4 DEF processFront, SendsExpress, BothIdle
<1>5. CASE BothIdle(s) /\ timeslotIsValid(q, ph) /\ enough /\ q[1] # "EXPRESS"
  BY <1>1, <1>3, <1>5 DEF processFront, SendsNormal
<1>6. CASE /\ ~ (BothIdle(s) /\ timeslotIsValid(q, ph) /\ enough)
           /\ q[1] = "EXPRESS" /\ s.transmitLock /\ ~ s.transmitLockExp /\ enough
  BY <1>1, <1>6 DEF processFront, SendsExpress, CannotCut
<1>7. CASE /\ ~ (BothIdle(s) /\ timeslotIsValid(q, ph) /\ enough)
           /\ ~ (q[1] = "EXPRESS" /\ s.transmitLock /\ ~ s.transmitLockExp /\ enough)
  <2>1. r = LookLater(s, q, ph, enough)
    BY <1>1, <1>7 DEF processFront
  <2>2. q[1] = "EXPRESS" => s.transmitLockExp
    BY <1>2, <1>3, <1>7 DEF BothIdle
  <2>3. QED
    BY <1>7, <2>1, <2>2 DEF Waits
<1>8. QED
  BY <1>4, <1>5, <1>6, <1>7

(* processOneQueue is processFront on the state with the credit added, or  *)
(* nothing.                                                                *)
LEMMA OneQueue ==
  ASSUME NEW s \in SchedulerState, Sorted(s), NEW q \in queueName,
         NEW ph, NEW fits \in BOOLEAN, s.queues[q] # <<>>
  PROVE  \E t \in SchedulerState, enough \in BOOLEAN :
           /\ processOneQueue(s, q, ph, fits) = processFront(t, q, ph, fits, enough)
           /\ t.queues = s.queues
           /\ t.nextUpAnotherExp = s.nextUpAnotherExp
           /\ t.failed = s.failed
           /\ SameLinks(t, s)
           /\ SameWakeups(t, s)
           /\ enough => Affordable(t, Head(s.queues[q]))
           /\ ~ enough => Limited(Head(s.queues[q]))
           /\ q[1] = "EXPRESS" => enough
<1> DEFINE f      == Head(s.queues[q])
           t      == CreditContainer(s, f)
           enough == containerHasEnoughBytes(s, f)
<1>1. f \in Frame
  BY FrontType
<1>2. enough \in BOOLEAN /\ (~ enough => Limited(f))
  BY DEF containerHasEnoughBytes
<1>3. q[1] = "EXPRESS" => enough
  BY SortedFront DEF containerHasEnoughBytes, Limited
<1>4. processOneQueue(s, q, ph, fits) = processFront(t, q, ph, fits, enough)
  BY DEF processOneQueue
<1>5. /\ t \in SchedulerState
      /\ t.queues = s.queues
      /\ t.nextUpAnotherExp = s.nextUpAnotherExp
      /\ t.failed = s.failed
      /\ SameLinks(t, s)
      /\ SameWakeups(t, s)
      /\ enough => Affordable(t, f)
  BY <1>1, CreditContainerEffect
<1> HIDE DEF t, enough
<1>6. QED
  BY <1>2, <1>3, <1>4, <1>5

-----------------------------------------------------------------------------
(* The invariant of a ring port, for a scheduler s whose two interfaces    *)
(* have (n, ne) or have not announced that they are idle.                  *)

Locks(s, n, ne) ==
  /\ s.transmitLock <=> s.out # <<>> \/ n
  /\ s.transmitLockExp <=> s.outExp # <<>> \/ ne
  /\ Len(s.out) <= IF n THEN 0 ELSE 1
  /\ Len(s.outExp) <= IF ne THEN 0 ELSE 1

Cuttable(s) == s.transmitLock => s.sendingStatus.len >= FragmentMin

Attached(s) == s.out # <<>> => Head(s.out) = s.sendingStatus

Core(s, n, ne) ==
  /\ s \in SchedulerState
  /\ Sorted(s)
  /\ Locks(s, n, ne)
  /\ s.transmitLockExp => Cuttable(s)
  /\ Attached(s)
  /\ Timers(s)
  /\ ~ s.failed

Covered(s, q) ==
  s.queues[q] # <<>> =>
    \/ s.transmitLock
    \/ s.transmitLockExp
    \/ q[1] = "HIGH" /\ s.timerTimeslot
    \/ Limited(Head(s.queues[q])) /\ s.timerToken

(* A processing of one queue keeps the invariant, never gives up a lock or *)
(* a wake-up, leaves the other queues alone and leaves its own queue       *)
(* covered; an express frame that may skip the checks is sent.             *)
StepOK(s, r, q, n, ne) ==
  /\ Core(r, n, ne)
  /\ \A p \in queueName : p # q => r.queues[p] = s.queues[p]
  /\ s.transmitLock => r.transmitLock
  /\ s.transmitLockExp => r.transmitLockExp
  /\ s.timerToken => r.timerToken
  /\ s.timerTimeslot => r.timerTimeslot
  /\ r.nextUpAnotherExp = s.nextUpAnotherExp
  /\ s.queues[q] = <<>> => r = s
  /\ Covered(r, q)
  /\ s.nextUpAnotherExp /\ Cuttable(s) /\ q[1] = "EXPRESS" /\ s.queues[q] # <<>> => r.transmitLockExp

LEMMA StepExpress ==
  ASSUME NEW n \in BOOLEAN, NEW ne \in BOOLEAN, NEW s, Core(s, n, ne),
         NEW q \in queueName, NEW fits \in BOOLEAN, s.queues[q] # <<>>,
         q[1] = "EXPRESS",
         NEW r, SendsExpress(s, q, fits, r)
  PROVE  StepOK(s, r, q, n, ne)
<1> DEFINE f == Head(s.queues[q])
<1>1. s \in SchedulerState /\ Sorted(s) /\ Locks(s, n, ne) /\ Attached(s) /\ Timers(s) /\ ~ s.failed
  BY DEF Core
<1>2. f \in Frame /\ Affordable(s, f) /\ f = Head(s.queues[q]) /\ r = sendExpressFrame(s, q)
  BY <1>1, FrontType, SortedFront DEF Affordable, Limited, SendsExpress
<1> HIDE DEF f
<1>3. /\ r \in SchedulerState
      /\ r.queues = [s.queues EXCEPT ![q] = Tail(@)]
      /\ r.failed = s.failed
      /\ r.nextUpAnotherExp = s.nextUpAnotherExp
      /\ r.transmitLock = s.transmitLock /\ r.transmitLockExp = TRUE
      /\ r.sendingStatus = s.sendingStatus /\ r.out = s.out /\ r.outExp = Append(s.outExp, f)
      /\ SameWakeups(r, s)
  <2>1. ExpressSent(s, q, f, r)
    BY <1>1, <1>2, SendExpressEffect
  <2>2. QED
    BY <1>2, <2>1 DEF ExpressSent
<1>4. Sorted(r)
  BY <1>1, <1>3, TailSorted
<1>5. s.outExp \in Seq(Frame) /\ s.outExp = <<>> /\ ~ ne
  BY <1>1 DEF Locks, SendsExpress, SchedulerState
<1>6. r.outExp # <<>> /\ Len(r.outExp) = 1
  BY <1>2, <1>3, <1>5
<1>7. Locks(r, n, ne)
  BY <1>1, <1>3, <1>5, <1>6 DEF Locks
<1>8. Cuttable(r)
  BY <1>3 DEF SendsExpress, getExpressSendTime, Cuttable
<1>9. Attached(r) /\ Timers(r) /\ ~ r.failed
  BY <1>1, <1>3 DEF Attached, Timers, SameWakeups
<1>10. Core(r, n, ne)
  BY <1>3, <1>4, <1>7, <1>8, <1>9 DEF Core
<1>11. \A p \in queueName : p # q => r.queues[p] = s.queues[p]
  BY <1>1, <1>3 DEF SchedulerState
<1>12. Covered(r, q)
  BY <1>3 DEF Covered
<1>13. QED
  BY <1>3, <1>10, <1>11, <1>12 DEF StepOK, SameWakeups

LEMMA StepNormal ==
  ASSUME NEW n \in BOOLEAN, NEW ne \in BOOLEAN, NEW s, Core(s, n, ne),
         NEW q \in queueName, NEW ph, NEW enough \in BOOLEAN, s.queues[q] # <<>>,
         enough => Affordable(s, Head(s.queues[q])),
         NEW r, SendsNormal(s, q, ph, enough, r)
  PROVE  StepOK(s, r, q, n, ne)
<1> DEFINE f == Head(s.queues[q])
<1>1. s \in SchedulerState /\ Sorted(s) /\ Locks(s, n, ne) /\ Timers(s) /\ ~ s.failed
  BY DEF Core
<1>2. f \in Frame /\ Affordable(s, f) /\ f = Head(s.queues[q]) /\ r = SendFront(s, q)
  BY <1>1, FrontType DEF SendsNormal
<1> HIDE DEF f
<1>3. /\ r \in SchedulerState
      /\ r.queues = [s.queues EXCEPT ![q] = Tail(@)]
      /\ r.failed = s.failed
      /\ r.nextUpAnotherExp = s.nextUpAnotherExp
      /\ r.transmitLock = TRUE /\ r.transmitLockExp = s.transmitLockExp
      /\ r.sendingStatus = f /\ r.out = Append(s.out, f) /\ r.outExp = s.outExp
      /\ SameWakeups(r, s)
  <2>1. NormalSent(s, q, f, r)
    BY <1>1, <1>2, SendFrontEffect
  <2>2. QED
    BY <1>2, <2>1 DEF NormalSent
<1>4. Sorted(r)
  BY <1>1, <1>3, TailSorted
<1>5. s.out \in Seq(Frame) /\ s.out = <<>> /\ ~ n /\ ~ s.transmitLockExp
  BY <1>1 DEF Locks, SendsNormal, BothIdle, SchedulerState
<1>6. r.out # <<>> /\ Len(r.out) = 1 /\ Head(r.out) = f
  BY <1>2, <1>3, <1>5
<1>7. Locks(r, n, ne)
  BY <1>1, <1>3, <1>5, <1>6 DEF Locks
<1>8. ~ r.transmitLockExp /\ Attached(r) /\ Timers(r) /\ ~ r.failed
  BY <1>1, <1>3, <1>5, <1>6 DEF Attached, Timers, SameWakeups
<1>9. Core(r, n, ne)
  BY <1>3, <1>4, <1>7, <1>8 DEF Core
<1>10. \A p \in queueName : p # q => r.queues[p] = s.queues[p]
  BY <1>1, <1>3 DEF SchedulerState
<1>11. Covered(r, q)
  BY <1>3 DEF Covered
<1>12. QED
  BY <1>3, <1>9, <1>10, <1>11 DEF StepOK, SameWakeups, SendsNormal

LEMMA StepWaits ==
  ASSUME NEW n \in BOOLEAN, NEW ne \in BOOLEAN, NEW s, Core(s, n, ne),
         NEW q \in queueName, NEW ph, NEW enough \in BOOLEAN, s.queues[q] # <<>>,
         ~ enough => Limited(Head(s.queues[q])),
         NEW r, Waits(s, q, ph, enough, r)
  PROVE  StepOK(s, r, q, n, ne)
<1>1. /\ s \in SchedulerState /\ Sorted(s) /\ Locks(s, n, ne) /\ (s.transmitLockExp => Cuttable(s))
      /\ Attached(s) /\ Timers(s) /\ ~ s.failed
  BY DEF Core
<1>2. /\ r \in SchedulerState
      /\ r.queues = s.queues
      /\ r.failed = s.failed
      /\ r.nextUpAnotherExp = s.nextUpAnotherExp
      /\ SameLinks(r, s)
      /\ Timers(r)
      /\ s.timerToken => r.timerToken
      /\ s.timerTimeslot => r.timerTimeslot
      /\ ~ enough => r.notifiedToken
      /\ enough /\ ~ timeslotIsValid(q, ph) => r.notifiedTimeslot
  BY <1>1, LookLaterEffect DEF Waits
<1>3. Sorted(r)
  BY <1>1, <1>2 DEF Sorted
<1>4. Locks(r, n, ne)
  BY <1>1, <1>2 DEF Locks, SameLinks
<1>5. (r.transmitLockExp => Cuttable(r)) /\ Attached(r) /\ ~ r.failed
  BY <1>1, <1>2 DEF Cuttable, Attached, SameLinks
<1>6. Core(r, n, ne)
  BY <1>2, <1>3, <1>4, <1>5 DEF Core
<1>7. Covered(r, q)
  <2>1. CASE ~ BothIdle(s)
    BY <1>2, <2>1 DEF BothIdle, SameLinks, Covered
  <2>2. CASE ~ enough
    BY <1>2, <2>2 DEF Covered, Timers
  <2>3. CASE enough /\ ~ timeslotIsValid(q, ph)
    BY <1>2, <2>3 DEF Covered, Timers, timeslotIsValid
  <2>4. QED
    BY <2>1, <2>2, <2>3 DEF Waits
<1>8. s.nextUpAnotherExp /\ Cuttable(s) /\ q[1] = "EXPRESS" /\ s.queues[q] # <<>> => r.transmitLockExp
  BY <1>2 DEF Waits, SameLinks
<1>9. QED
  BY <1>2, <1>6, <1>7, <1>8 DEF StepOK, SameLinks

LEMMA StepCannotCut ==
  ASSUME NEW n \in BOOLEAN, NEW ne \in BOOLEAN, NEW s, Core(s, n, ne),
         NEW q \in queueName, NEW fits \in BOOLEAN,
         NEW r, CannotCut(s, q, fits, r)
  PROVE  StepOK(s, r, q, n, ne)
<1>1. r = s /\ s.transmitLock
  BY DEF CannotCut
<1>2. ~ (s.nextUpAnotherExp /\ Cuttable(s))
  BY <1>1 DEF CannotCut, Cuttable, getExpressSendTime
<1>3. QED
  BY <1>1, <1>2 DEF StepOK, Covered

(* The credit disturbs none of this. *)
LEMMA CoreCredited ==
  ASSUME NEW n \in BOOLEAN, NEW ne \in BOOLEAN, NEW s, Core(s, n, ne),
         NEW t \in SchedulerState, t.queues = s.queues, t.failed = s.failed,
         SameLinks(t, s), SameWakeups(t, s)
  PROVE  Core(t, n, ne) /\ (Cuttable(t) <=> Cuttable(s))
<1>1. Sorted(t)
  BY DEF Core, Sorted
<1>2. Locks(t, n, ne)
  BY DEF Core, Locks, SameLinks
<1>3. Cuttable(t) <=> Cuttable(s)
  BY DEF Cuttable, SameLinks
<1>4. (t.transmitLockExp => Cuttable(t)) /\ Attached(t)
  BY <1>3 DEF Core, Attached, SameLinks
<1>5. Timers(t) /\ ~ t.failed
  BY DEF Core, Timers, SameWakeups
<1>6. QED
  BY <1>1, <1>2, <1>3, <1>4, <1>5 DEF Core

LEMMA Step ==
  ASSUME RingPort, NEW n \in BOOLEAN, NEW ne \in BOOLEAN, NEW s, Core(s, n, ne),
         NEW q \in queueName, NEW ph, NEW fits \in BOOLEAN,
         NEW r, r = processOneQueue(s, q, ph, fits)
  PROVE  StepOK(s, r, q, n, ne)
<1>1. CASE s.queues[q] = <<>>
  <2>1. r = s
    BY <1>1 DEF processOneQueue
  <2>2. QED
    BY <1>1, <2>1 DEF StepOK, Covered
<1>2. CASE s.queues[q] # <<>>
  <2>1. s \in SchedulerState /\ Sorted(s)
    BY DEF Core
  <2>2. PICK t \in SchedulerState, enough \in BOOLEAN :
           /\ processOneQueue(s, q, ph, fits) = processFront(t, q, ph, fits, enough)
           /\ t.queues = s.queues
           /\ t.nextUpAnotherExp = s.nextUpAnotherExp
           /\ t.failed = s.failed
           /\ SameLinks(t, s)
           /\ SameWakeups(t, s)
           /\ enough => Affordable(t, Head(s.queues[q]))
           /\ ~ enough => Limited(Head(s.queues[q]))
           /\ q[1] = "EXPRESS" => enough
    BY <1>2, <2>1, OneQueue
  <2>3. Core(t, n, ne) /\ (Cuttable(t) <=> Cuttable(s))
    BY <2>2, CoreCredited
  <2>4. \/ SendsExpress(t, q, fits, r)
        \/ SendsNormal(t, q, ph, enough, r)
        \/ CannotCut(t, q, fits, r)
        \/ Waits(t, q, ph, enough, r)
    BY <2>2, Branches
  <2>5. SUFFICES StepOK(t, r, q, n, ne)
    BY <1>2, <2>2, <2>3 DEF StepOK, SameLinks, SameWakeups
  <2>6. CASE SendsExpress(t, q, fits, r)
    BY <1>2, <2>2, <2>3, <2>6, StepExpress DEF SendsExpress
  <2>7. CASE SendsNormal(t, q, ph, enough, r)
    BY <1>2, <2>2, <2>3, <2>7, StepNormal
  <2>8. CASE CannotCut(t, q, fits, r)
    BY <2>3, <2>8, StepCannotCut
  <2>9. CASE Waits(t, q, ph, enough, r)
    BY <1>2, <2>2, <2>3, <2>9, StepWaits
  <2>10. QED
    BY <2>4, <2>6, <2>7, <2>8, <2>9
<1>3. QED
  BY <1>1, <1>2

-----------------------------------------------------------------------------
(* All six queues. *)

Fresh(s) == s.nextUpAnotherExp => s.transmitLockExp

(* unlockExp sets nextUpAnotherExp for an express frame that is sent next. *)
FreshSoon(s) ==
  s.nextUpAnotherExp =>
    s.transmitLockExp \/ (Cuttable(s) /\ \E side \in Side : s.queues[<<"EXPRESS", side>>] # <<>>)

(* r, the outcome of processing s, has nothing left to do. *)
Quiet(s, r, n, ne) ==
  /\ Core(r, n, ne)
  /\ Fresh(r)
  /\ \A q \in queueName : Covered(r, q)
  /\ s.timerToken => r.timerToken
  /\ s.timerTimeslot => r.timerTimeslot

LEMMA CoveredStays ==
  ASSUME NEW n, NEW ne, NEW s, NEW r, NEW q \in queueName, StepOK(s, r, q, n, ne),
         NEW p \in queueName, p = q \/ Covered(s, p)
  PROVE  Covered(r, p)
<1>1. CASE p = q
  BY <1>1 DEF StepOK
<1>2. CASE p # q
  <2>1. r.queues[p] = s.queues[p]
    BY <1>2 DEF StepOK
  <2>2. QED
    BY <1>2, <2>1 DEF StepOK, Covered
<1>3. QED
  BY <1>1, <1>2

LEMMA Loop ==
  ASSUME RingPort, NEW n \in BOOLEAN, NEW ne \in BOOLEAN, NEW s, Core(s, n, ne), FreshSoon(s),
         NEW first \in Side, NEW ph, NEW fits \in BOOLEAN
  PROVE  Quiet(s, loopQueues(s, first, ph, fits), n, ne)
<1> DEFINE second == OtherSide(first)
           q1 == <<"EXPRESS", first>>
           q2 == <<"EXPRESS", second>>
           q3 == <<"HIGH", first>>
           q4 == <<"HIGH", second>>
           q5 == <<"LOW", first>>
           q6 == <<"LOW", second>>
           s1 == processOneQueue(s, q1, ph, fits)
           s2 == processOneQueue(s1, q2, ph, fits)
           s3 == processOneQueue(s2, q3, ph, fits)
           s4 == processOneQueue(s3, q4, ph, fits)
           s5 == processOneQueue(s4, q5, ph, fits)
           s6 == processOneQueue(s5, q6, ph, fits)
<1>1. loopQueues(s, first, ph, fits) = s6
  BY DEF loopQueues
<1>2. second \in Side /\ Side = {first, second} /\ first # second
  BY DEF Side, OtherSide
<1>3. /\ q1 \in queueName /\ q2 \in queueName /\ q3 \in queueName
      /\ q4 \in queueName /\ q5 \in queueName /\ q6 \in queueName
  BY <1>2 DEF queueName, Priority
<1>4. \A q \in queueName : q = q1 \/ q = q2 \/ q = q3 \/ q = q4 \/ q = q5 \/ q = q6
  BY <1>2 DEF queueName, Priority
<1>5. q1[1] = "EXPRESS" /\ q2[1] = "EXPRESS" /\ q1 # q2
  BY <1>2
<1>6. \A side \in Side : <<"EXPRESS", side>> = q1 \/ <<"EXPRESS", side>> = q2
  BY <1>2
<1> HIDE DEF second, q1, q2, q3, q4, q5, q6
<1>7. StepOK(s, s1, q1, n, ne) /\ Core(s1, n, ne)
  BY <1>3, Step DEF StepOK
<1>8. StepOK(s1, s2, q2, n, ne) /\ Core(s2, n, ne)
  <2> HIDE DEF s1
  <2>1. QED
    BY <1>3, <1>7, Step DEF StepOK
<1>9. StepOK(s2, s3, q3, n, ne) /\ Core(s3, n, ne)
  <2> HIDE DEF s2
  <2>1. QED
    BY <1>3, <1>8, Step DEF StepOK
<1>10. StepOK(s3, s4, q4, n, ne) /\ Core(s4, n, ne)
  <2> HIDE DEF s3
  <2>1. QED
    BY <1>3, <1>9, Step DEF StepOK
<1>11. StepOK(s4, s5, q5, n, ne) /\ Core(s5, n, ne)
  <2> HIDE DEF s4
  <2>1. QED
    BY <1>3, <1>10, Step DEF StepOK
<1>12. StepOK(s5, s6, q6, n, ne) /\ Core(s6, n, ne)
  <2> HIDE DEF s5
  <2>1. QED
    BY <1>3, <1>11, Step DEF StepOK
<1> HIDE DEF s1, s2, s3, s4, s5, s6
<1>13. Fresh(s6)
  <2>1. s.nextUpAnotherExp => s2.transmitLockExp
    <3>1. CASE s.transmitLockExp
      BY <1>7, <1>8, <3>1 DEF StepOK
    <3>2. CASE Cuttable(s) /\ s.queues[q1] # <<>>
      BY <1>5, <1>7, <1>8, <3>2 DEF StepOK
    <3>3. CASE Cuttable(s) /\ s.queues[q1] = <<>> /\ s.queues[q2] # <<>>
      <4>1. s1 = s
        BY <1>7, <3>3 DEF StepOK
      <4>2. QED
        BY <1>5, <1>8, <3>3, <4>1 DEF StepOK
    <3>4. QED
      BY <1>6, <3>1, <3>2, <3>3 DEF FreshSoon
  <2>2. s2.transmitLockExp => s6.transmitLockExp
    BY <1>9, <1>10, <1>11, <1>12 DEF StepOK
  <2>3. s6.nextUpAnotherExp = s.nextUpAnotherExp
    BY <1>7, <1>8, <1>9, <1>10, <1>11, <1>12 DEF StepOK
  <2>4. QED
    BY <2>1, <2>2, <2>3 DEF Fresh
<1>14. ASSUME NEW q \in queueName
       PROVE  Covered(s6, q)
  <2>1. q = q1 => Covered(s1, q)
    BY <1>3, <1>7, CoveredStays
  <2>2. q = q2 \/ Covered(s1, q) => Covered(s2, q)
    BY <1>3, <1>8, CoveredStays
  <2>3. q = q3 \/ Covered(s2, q) => Covered(s3, q)
    BY <1>3, <1>9, CoveredStays
  <2>4. q = q4 \/ Covered(s3, q) => Covered(s4, q)
    BY <1>3, <1>10, CoveredStays
  <2>5. q = q5 \/ Covered(s4, q) => Covered(s5, q)
    BY <1>3, <1>11, CoveredStays
  <2>6. q = q6 \/ Covered(s5, q) => Covered(s6, q)
    BY <1>3, <1>12, CoveredStays
  <2>7. QED
    BY <1>4, <2>1, <2>2, <2>3, <2>4, <2>5, <2>6
<1>15. (s.timerToken => s6.timerToken) /\ (s.timerTimeslot => s6.timerTimeslot)
  BY <1>7, <1>8, <1>9, <1>10, <1>11, <1>12 DEF StepOK
<1>16. QED
  BY <1>1, <1>12, <1>13, <1>14, <1>15 DEF Quiet

(* The side the ZIPPER remembers is nobody else's business. *)
LEMMA QuietTurned ==
  ASSUME NEW n, NEW ne, NEW s0, NEW s, Quiet(s0, s, n, ne), NEW side \in Side
  PROVE  Quiet(s0, [s EXCEPT !.curQueueState = side], n, ne)
<1> DEFINE r == [s EXCEPT !.curQueueState = side]
<1>1. s \in SchedulerState
  BY DEF Quiet, Core
<1>2. r \in SchedulerState
  BY <1>1 DEF SchedulerState
<1>3. r.queues = s.queues /\ r.failed = s.failed /\ r.nextUpAnotherExp = s.nextUpAnotherExp
  BY <1>1 DEF SchedulerState
<1>4. SameLinks(r, s)
  BY <1>1 DEF SchedulerState, SameLinks
<1>5. SameWakeups(r, s)
  BY <1>1 DEF SchedulerState, SameWakeups
<1> HIDE DEF r
<1>6. Sorted(r) /\ Locks(r, n, ne) /\ (r.transmitLockExp => Cuttable(r)) /\ Attached(r)
  BY <1>3, <1>4 DEF Quiet, Core, Sorted, Locks, Cuttable, Attached, SameLinks
<1>7. Timers(r) /\ ~ r.failed /\ Fresh(r)
  BY <1>3, <1>4, <1>5 DEF Quiet, Core, Timers, Fresh, SameLinks, SameWakeups
<1>8. \A q \in queueName : Covered(r, q)
  BY <1>3, <1>4, <1>5 DEF Quiet, Covered, SameLinks, SameWakeups
<1>9. Quiet(s0, r, n, ne)
  BY <1>2, <1>5, <1>6, <1>7, <1>8 DEF Quiet, Core, SameWakeups
<1>10. QED
  BY <1>9 DEF r

LEMMA Processing ==
  ASSUME RingPort, NEW n \in BOOLEAN, NEW ne \in BOOLEAN, NEW s, Core(s, n, ne), FreshSoon(s),
         NEW ph, NEW fits \in BOOLEAN
  PROVE  Quiet(s, processQueues(s, ph, fits), n, ne)
<1>1. "RING" \in Side /\ "INTERNAL" \in Side /\ s.curQueueState \in Side
  BY DEF Side, Core, SchedulerState
<1>2. CASE schedmode \in {"FCFS", "RING_FIRST"}
  BY <1>1, <1>2, Loop DEF processQueues
<1>3. CASE schedmode = "INTERNAL_FIRST"
  BY <1>1, <1>3, Loop DEF processQueues
<1>4. CASE schedmode = "ZIPPER"
  <2> DEFINE r == loopQueues(s, s.curQueueState, ph, fits)
  <2>1. Quiet(s, r, n, ne) /\ OtherSide(r.curQueueState) \in Side
    BY <1>1, Loop DEF OtherSide
  <2>2. processQueues(s, ph, fits) = [r EXCEPT !.curQueueState = OtherSide(@)]
    BY <1>4 DEF processQueues
  <2> HIDE DEF r
  <2>3. QED
    BY <2>1, <2>2, QuietTurned
<1>5. QED
  BY <1>2, <1>3, <1>4, SchedulerAssumption DEF RingPort

-----------------------------------------------------------------------------
(* What the handlers do to the scheduler before they process the queues.   *)

(* t differs from s in nothing the invariant speaks of. *)
LEMMA CoreSame ==
  ASSUME NEW n, NEW ne, NEW s, Core(s, n, ne), NEW t \in SchedulerState,
         t.queues = s.queues, t.failed = s.failed, SameLinks(t, s), Timers(t)
  PROVE  Core(t, n, ne)
<1>1. Sorted(t)
  BY DEF Core, Sorted
<1>2. Locks(t, n, ne)
  BY DEF Core, Locks, SameLinks
<1>3. (t.transmitLockExp => Cuttable(t)) /\ Attached(t) /\ ~ t.failed
  BY DEF Core, Cuttable, Attached, SameLinks
<1>4. QED
  BY <1>1, <1>2, <1>3 DEF Core

(* r is s with frame f put behind the other frames of queue q. *)
Enqueued(s, q, f, r) ==
  /\ q[1] = f.prio
  /\ r \in SchedulerState
  /\ r.queues = [s.queues EXCEPT ![q] = Append(@, f)]
  /\ r.failed = s.failed
  /\ r.nextUpAnotherExp = s.nextUpAnotherExp
  /\ SameLinks(r, s)
  /\ SameWakeups(r, s)

LEMMA EnqueueEffect ==
  ASSUME NEW s \in SchedulerState, NEW f \in Frame, NEW side \in Side,
         NEW r, r = enqueueMessage(s, f, <<f.prio, side>>)
  PROVE  \E q \in queueName :
           /\ q[2] = IF schedmode = "FCFS" THEN "INTERNAL" ELSE side
           /\ Enqueued(s, q, f, r)
<1> DEFINE at == IF schedmode = "FCFS" THEN "INTERNAL" ELSE side
           q  == <<f.prio, at>>
<1>1. q \in queueName /\ q[1] = f.prio /\ q[2] = IF schedmode = "FCFS" THEN "INTERNAL" ELSE side
  BY DEF queueName, Side, Frame
<1>2. r = [s EXCEPT !.queues[q] = Append(@, f)]
  BY DEF enqueueMessage
<1> HIDE DEF q
<1>3. s.queues[q] \in Seq(Frame)
  BY <1>1 DEF SchedulerState
<1>4. [s.queues EXCEPT ![q] = Append(@, f)] \in [queueName -> Seq(Frame)]
  <2>1. Append(s.queues[q], f) \in Seq(Frame)
    BY <1>3
  <2>2. s.queues \in [queueName -> Seq(Frame)]
    BY DEF SchedulerState
  <2>3. QED
    BY <1>1, <2>1, <2>2
<1>5. r \in SchedulerState
  <2> DEFINE qs == [s.queues EXCEPT ![q] = Append(@, f)]
  <2>1. r = [s EXCEPT !.queues = qs]
    BY <1>2
  <2>2. qs \in [queueName -> Seq(Frame)]
    BY <1>4
  <2> HIDE DEF qs
  <2>3. QED
    BY <2>1, <2>2 DEF SchedulerState
<1>6. /\ r.queues = [s.queues EXCEPT ![q] = Append(@, f)]
      /\ r.failed = s.failed
      /\ r.nextUpAnotherExp = s.nextUpAnotherExp
  BY <1>2 DEF SchedulerState
<1>7. SameLinks(r, s)
  BY <1>2 DEF SchedulerState, SameLinks
<1>8. SameWakeups(r, s)
  BY <1>2 DEF SchedulerState, SameWakeups
<1>9. Enqueued(s, q, f, r)
  BY <1>1, <1>5, <1>6, <1>7, <1>8 DEF Enqueued
<1>10. QED
  BY <1>1, <1>9

(* What appending f does to the elements of a sequence. *)
LEMMA AppendAdds ==
  ASSUME NEW S, NEW sq \in Seq(S), NEW f \in S, NEW i \in DOMAIN Append(sq, f)
  PROVE  Append(sq, f)[i] = f \/ (i \in DOMAIN sq /\ Append(sq, f)[i] = sq[i])
<1>1. Len(sq) \in Nat /\ Append(sq, f) \in Seq(S) /\ Len(Append(sq, f)) = Len(sq) + 1
  OBVIOUS
<1>2. i \in 1 .. Len(sq) + 1
  BY <1>1
<1>3. CASE i = Len(sq) + 1
  BY <1>3
<1>4. CASE i \in 1 .. Len(sq)
  BY <1>4
<1>5. QED
  BY <1>1, <1>2, <1>3, <1>4

LEMMA EnqueueKeeps ==
  ASSUME NEW n, NEW ne, NEW s, Core(s, n, ne), Fresh(s), NEW f \in Frame, NEW side \in Side,
         NEW r, r = enqueueMessage(s, f, <<f.prio, side>>)
  PROVE  Core(r, n, ne) /\ Fresh(r) /\ SameWakeups(r, s)
<1>1. s \in SchedulerState /\ Sorted(s)
  BY DEF Core
<1>2. PICK q \in queueName : Enqueued(s, q, f, r)
  BY <1>1, EnqueueEffect
<1> USE DEF Enqueued
<1>3. ASSUME NEW p \in queueName, NEW i \in DOMAIN r.queues[p]
      PROVE  r.queues[p][i].prio = p[1]
  <2>1. s.queues \in [queueName -> Seq(Frame)]
    BY <1>1 DEF SchedulerState
  <2>2. CASE p # q
    <3>1. r.queues[p] = s.queues[p]
      BY <1>2, <2>1, <2>2
    <3>2. QED
      BY <1>1, <1>3, <3>1 DEF Sorted
  <2>3. CASE p = q
    <3>1. r.queues[p] = Append(s.queues[p], f) /\ s.queues[p] \in Seq(Frame)
      BY <1>2, <2>1, <2>3
    <3>2. r.queues[p][i] = f \/ (i \in DOMAIN s.queues[p] /\ r.queues[p][i] = s.queues[p][i])
      <4> DEFINE sq == s.queues[p]
      <4>1. sq \in Seq(Frame) /\ i \in DOMAIN Append(sq, f) /\ r.queues[p] = Append(sq, f)
        BY <1>3, <3>1
      <4> HIDE DEF sq
      <4>2. Append(sq, f)[i] = f \/ (i \in DOMAIN sq /\ Append(sq, f)[i] = sq[i])
        BY <4>1, AppendAdds
      <4>3. QED
        BY <4>1, <4>2 DEF sq
    <3>3. QED
      BY <1>1, <1>2, <2>3, <3>2 DEF Sorted
  <2>4. QED
    BY <2>2, <2>3
<1>4. Sorted(r)
  BY <1>3 DEF Sorted
<1>5. Locks(r, n, ne)
  BY <1>2 DEF Core, Locks, SameLinks
<1>6. (r.transmitLockExp => Cuttable(r)) /\ Attached(r) /\ Timers(r) /\ ~ r.failed
  BY <1>2 DEF Core, Cuttable, Attached, Timers, SameLinks, SameWakeups
<1>7. Fresh(r)
  BY <1>2 DEF Fresh, SameLinks
<1>8. QED
  BY <1>2, <1>4, <1>5, <1>6, <1>7 DEF Core

(* The normal interface is free again. *)
LEMMA UnlockKeeps ==
  ASSUME NEW ne \in BOOLEAN, NEW s, Core(s, TRUE, ne), NEW r, r = unlock(s)
  PROVE  /\ Core(r, FALSE, ne)
         /\ FreshSoon(r)
         /\ r.timerToken = s.timerToken /\ r.timerTimeslot = s.timerTimeslot
<1>1. s \in SchedulerState
  BY DEF Core
<1>2. r \in SchedulerState
  BY <1>1 DEF unlock, SchedulerState
<1>3. /\ r.queues = s.queues /\ r.failed = s.failed /\ r.nextUpAnotherExp = FALSE
      /\ r.transmitLock = FALSE /\ r.transmitLockExp = s.transmitLockExp
      /\ r.out = s.out /\ r.outExp = s.outExp
  BY <1>1 DEF unlock, SchedulerState
<1>4. SameWakeups(r, s)
  BY <1>1 DEF unlock, SchedulerState, SameWakeups
<1>5. s.out \in Seq(Frame) /\ s.out = <<>>
  BY <1>1 DEF Core, Locks, SchedulerState
<1>6. Sorted(r)
  BY <1>3 DEF Core, Sorted
<1>7. Locks(r, FALSE, ne)
  BY <1>3, <1>5 DEF Core, Locks
<1>8. Cuttable(r) /\ Attached(r) /\ Timers(r) /\ ~ r.failed
  BY <1>3, <1>4, <1>5 DEF Core, Cuttable, Attached, Timers, SameWakeups
<1>9. QED
  BY <1>2, <1>3, <1>4, <1>6, <1>7, <1>8 DEF Core, FreshSoon, SameWakeups

LEMMA UnlockExpType ==
  ASSUME NEW s \in SchedulerState
  PROVE  unlockExp(s) \in SchedulerState /\ unlockExp(s).queues = s.queues
<1> DEFINE more == \E side \in Side : s.queues[<<"EXPRESS", side>>] # <<>>
<1>1. more \in BOOLEAN /\ unlockExp(s) = [s EXCEPT !.transmitLockExp = FALSE, !.nextUpAnotherExp = more]
  BY DEF unlockExp
<1> HIDE DEF more
<1>2. QED
  BY <1>1 DEF SchedulerState

(* The express interface is free again: the frame that was interrupted, if *)
(* it is still being sent, can be interrupted again.                       *)
LEMMA UnlockExpKeeps ==
  ASSUME NEW n \in BOOLEAN, NEW s, Core(s, n, TRUE), NEW r, r = unlockExp(s)
  PROVE  /\ Core(r, n, FALSE)
         /\ FreshSoon(r)
         /\ r.timerToken = s.timerToken /\ r.timerTimeslot = s.timerTimeslot
<1>1. s \in SchedulerState
  BY DEF Core
<1>2. r \in SchedulerState
  BY <1>1, UnlockExpType
<1>3. /\ r.queues = s.queues /\ r.failed = s.failed
      /\ r.nextUpAnotherExp => \E side \in Side : s.queues[<<"EXPRESS", side>>] # <<>>
      /\ r.transmitLock = s.transmitLock /\ r.transmitLockExp = FALSE
      /\ r.sendingStatus = s.sendingStatus
      /\ r.out = s.out /\ r.outExp = s.outExp
  BY <1>1 DEF unlockExp, SchedulerState
<1>4. SameWakeups(r, s)
  BY <1>1 DEF unlockExp, SchedulerState, SameWakeups
<1>5. s.outExp \in Seq(Frame) /\ s.outExp = <<>> /\ s.transmitLockExp
  BY <1>1 DEF Core, Locks, SchedulerState
<1>6. Sorted(r)
  BY <1>3 DEF Core, Sorted
<1>7. Locks(r, n, FALSE)
  BY <1>3, <1>5 DEF Core, Locks
<1>8. Cuttable(r) /\ Attached(r) /\ Timers(r) /\ ~ r.failed
  BY <1>3, <1>4, <1>5 DEF Core, Cuttable, Attached, Timers, SameWakeups
<1>9. FreshSoon(r)
  BY <1>3, <1>8 DEF FreshSoon
<1>10. QED
  BY <1>2, <1>3, <1>4, <1>6, <1>7, <1>8, <1>9 DEF Core, SameWakeups

(* A timer is delivered: it and the flag for it are gone. *)
LEMMA TokenDelivered ==
  ASSUME NEW n, NEW ne, NEW s, Core(s, n, ne), Fresh(s),
         NEW r, r = resetNotifiedToken([s EXCEPT !.timerToken = FALSE])
  PROVE  Core(r, n, ne) /\ Fresh(r) /\ r.timerTimeslot = s.timerTimeslot
<1>1. s \in SchedulerState
  BY DEF Core
<1>2. r \in SchedulerState
  BY <1>1 DEF resetNotifiedToken, SchedulerState
<1>3. /\ r.queues = s.queues /\ r.failed = s.failed /\ r.nextUpAnotherExp = s.nextUpAnotherExp
      /\ r.notifiedToken = FALSE /\ r.timerToken = FALSE
      /\ r.notifiedTimeslot = s.notifiedTimeslot /\ r.timerTimeslot = s.timerTimeslot
  BY <1>1 DEF resetNotifiedToken, SchedulerState
<1>4. SameLinks(r, s)
  BY <1>1 DEF resetNotifiedToken, SchedulerState, SameLinks
<1>5. Timers(r)
  BY <1>3 DEF Core, Timers
<1>6. QED
  BY <1>2, <1>3, <1>4, <1>5, CoreSame DEF Fresh, SameLinks

LEMMA TimeslotDelivered ==
  ASSUME NEW n, NEW ne, NEW s, Core(s, n, ne), Fresh(s),
         NEW r, r = resetNotifiedTimeslot([s EXCEPT !.timerTimeslot = FALSE])
  PROVE  Core(r, n, ne) /\ Fresh(r) /\ r.timerToken = s.timerToken
<1>1. s \in SchedulerState
  BY DEF Core
<1>2. r \in SchedulerState
  BY <1>1 DEF resetNotifiedTimeslot, SchedulerState
<1>3. /\ r.queues = s.queues /\ r.failed = s.failed /\ r.nextUpAnotherExp = s.nextUpAnotherExp
      /\ r.notifiedTimeslot = FALSE /\ r.timerTimeslot = FALSE
      /\ r.notifiedToken = s.notifiedToken /\ r.timerToken = s.timerToken
  BY <1>1 DEF resetNotifiedTimeslot, SchedulerState
<1>4. SameLinks(r, s)
  BY <1>1 DEF resetNotifiedTimeslot, SchedulerState, SameLinks
<1>5. Timers(r)
  BY <1>3 DEF Core, Timers
<1>6. QED
  BY <1>2, <1>3, <1>4, <1>5, CoreSame DEF Fresh, SameLinks

-----------------------------------------------------------------------------
(* Any port, the CPU's too: states stay typed.                             *)

LEMMA OneQueueType ==
  ASSUME NEW s \in SchedulerState, NEW q \in queueName, NEW ph, NEW fits
  PROVE  processOneQueue(s, q, ph, fits) \in SchedulerState
<1>1. CASE s.queues[q] = <<>>
  BY <1>1 DEF processOneQueue
<1>2. CASE s.queues[q] # <<>>
  <2> DEFINE f      == Head(s.queues[q])
             t      == CreditContainer(s, f)
             enough == containerHasEnoughBytes(s, f)
  <2>1. f \in Frame
    BY <1>2, FrontType
  <2>2. t \in SchedulerState /\ t.queues[q] # <<>>
    BY <1>2, <2>1, CreditContainerEffect
  <2>3. processOneQueue(s, q, ph, fits) = processFront(t, q, ph, fits, enough)
    BY <1>2 DEF processOneQueue
  <2> HIDE DEF t, enough, f
  <2>4. sendExpressFrame(t, q) \in SchedulerState
    BY <2>2, SendExpressEffect DEF ExpressSent
  <2>5. SendFront(t, q) \in SchedulerState
    BY <2>2, SendFrontEffect DEF NormalSent
  <2>6. LookLater(t, q, ph, enough) \in SchedulerState
    BY <2>2 DEF LookLater, SchedulerState
  <2>7. QED
    BY <2>2, <2>3, <2>4, <2>5, <2>6 DEF processFront
<1>3. QED
  BY <1>1, <1>2

LEMMA SidesExist == "RING" \in Side /\ "INTERNAL" \in Side /\ \A side \in Side : OtherSide(side) \in Side
BY DEF Side, OtherSide

LEMMA LoopType ==
  ASSUME NEW s \in SchedulerState, NEW first \in Side, NEW ph, NEW fits
  PROVE  loopQueues(s, first, ph, fits) \in SchedulerState
<1> DEFINE second == OtherSide(first)
<1>1. \A p \in Priority : <<p, first>> \in queueName /\ <<p, second>> \in queueName
  BY SidesExist DEF queueName
<1>2. "EXPRESS" \in Priority /\ "HIGH" \in Priority /\ "LOW" \in Priority
  BY DEF Priority
<1> HIDE DEF second
<1>3. QED
  BY <1>1, <1>2, OneQueueType DEF loopQueues, second

LEMMA ProcessingType ==
  ASSUME NEW s \in SchedulerState, NEW ph, NEW fits
  PROVE  processQueues(s, ph, fits) \in SchedulerState
<1>1. s.curQueueState \in Side
  BY DEF SchedulerState
<1>2. \A side \in Side : loopQueues(s, side, ph, fits) \in SchedulerState
  BY LoopType
<1>3. \A r \in SchedulerState : [r EXCEPT !.curQueueState = OtherSide(@)] \in SchedulerState
  BY SidesExist DEF SchedulerState
<1>4. QED
  BY <1>1, <1>2, <1>3, SidesExist DEF processQueues

-----------------------------------------------------------------------------
(* The CPU port takes the front of every queue, whatever the locks say.    *)

(* In r, queue q has lost the frame it had at its front in s. *)
FrontGone(s, r, q) ==
  /\ s.queues[q] = <<>> => r.queues[q] = <<>>
  /\ s.queues[q] # <<>> => r.queues[q] = Tail(s.queues[q])

CpuStepOK(s, r, q) ==
  /\ r \in SchedulerState
  /\ FrontGone(s, r, q)
  /\ \A p \in queueName : p # q => r.queues[p] = s.queues[p]

LEMMA CpuStep ==
  ASSUME schedID = "C", NEW s \in SchedulerState, NEW q \in queueName,
         NEW ph, NEW fits, NEW r, r = processOneQueue(s, q, ph, fits)
  PROVE  CpuStepOK(s, r, q)
<1>1. CASE s.queues[q] = <<>>
  BY <1>1 DEF processOneQueue, CpuStepOK, FrontGone
<1>2. CASE s.queues[q] # <<>>
  <2> DEFINE f      == Head(s.queues[q])
             t      == CreditContainer(s, f)
             enough == containerHasEnoughBytes(s, f)
  <2>1. f \in Frame
    BY <1>2, FrontType
  <2>2. t \in SchedulerState /\ t.queues = s.queues
    BY <2>1, CreditContainerEffect
  <2>3. r = processFront(t, q, ph, fits, enough)
    BY <1>2 DEF processOneQueue
  <2> HIDE DEF t, enough, f
  <2>4. r = sendExpressFrame(t, q) \/ r = SendFront(t, q)
    BY <2>3 DEF processFront
  <2>5. r \in SchedulerState /\ r.queues = [t.queues EXCEPT ![q] = Tail(@)]
    <3>1. ASSUME r = sendExpressFrame(t, q)
          PROVE  ExpressSent(t, q, Head(t.queues[q]), r)
      BY <1>2, <2>2, <3>1, SendExpressEffect
    <3>2. ASSUME r = SendFront(t, q)
          PROVE  NormalSent(t, q, Head(t.queues[q]), r)
      BY <1>2, <2>2, <3>2, SendFrontEffect
    <3>3. QED
      BY <2>4, <3>1, <3>2 DEF ExpressSent, NormalSent
  <2>6. s.queues \in [queueName -> Seq(Frame)]
    BY DEF SchedulerState
  <2>7. QED
    BY <1>2, <2>2, <2>5, <2>6 DEF CpuStepOK, FrontGone
<1>3. QED
  BY <1>1, <1>2

LEMMA CpuLoop ==
  ASSUME schedID = "C", NEW s \in SchedulerState, NEW first \in Side, NEW ph, NEW fits,
         NEW r, r = loopQueues(s, first, ph, fits), NEW q \in queueName
  PROVE  FrontGone(s, r, q)
<1> DEFINE second == OtherSide(first)
           q1 == <<"EXPRESS", first>>
           q2 == <<"EXPRESS", second>>
           q3 == <<"HIGH", first>>
           q4 == <<"HIGH", second>>
           q5 == <<"LOW", first>>
           q6 == <<"LOW", second>>
           s1 == processOneQueue(s, q1, ph, fits)
           s2 == processOneQueue(s1, q2, ph, fits)
           s3 == processOneQueue(s2, q3, ph, fits)
           s4 == processOneQueue(s3, q4, ph, fits)
           s5 == processOneQueue(s4, q5, ph, fits)
<1>1. r = processOneQueue(s5, q6, ph, fits)
  BY DEF loopQueues
<1>2. /\ q1 \in queueName /\ q2 \in queueName /\ q3 \in queueName
      /\ q4 \in queueName /\ q5 \in queueName /\ q6 \in queueName
  BY SidesExist DEF queueName, Priority
<1>3. /\ q1 \notin {q2, q3, q4, q5, q6} /\ q2 \notin {q3, q4, q5, q6}
      /\ q3 \notin {q4, q5, q6} /\ q4 \notin {q5, q6} /\ q5 # q6
  BY DEF OtherSide, Side
<1>4. q \in {q1, q2, q3, q4, q5, q6}
  BY DEF queueName, Priority, Side, OtherSide
<1> HIDE DEF q1, q2, q3, q4, q5, q6, s1, s2, s3, s4, s5
<1>5. CpuStepOK(s, s1, q1)
  BY <1>2, CpuStep DEF s1
<1>6. CpuStepOK(s1, s2, q2)
  BY <1>2, <1>5, CpuStep DEF s2, CpuStepOK
<1>7. CpuStepOK(s2, s3, q3)
  BY <1>2, <1>6, CpuStep DEF s3, CpuStepOK
<1>8. CpuStepOK(s3, s4, q4)
  BY <1>2, <1>7, CpuStep DEF s4, CpuStepOK
<1>9. CpuStepOK(s4, s5, q5)
  BY <1>2, <1>8, CpuStep DEF s5, CpuStepOK
<1>10. CpuStepOK(s5, r, q6)
  BY <1>1, <1>2, <1>9, CpuStep DEF CpuStepOK
<1>11. QED
  BY <1>2, <1>3, <1>4, <1>5, <1>6, <1>7, <1>8, <1>9, <1>10 DEF CpuStepOK, FrontGone

LEMMA CpuProcessing ==
  ASSUME schedID = "C", schedmode # "TOKENS", NEW s \in SchedulerState, NEW ph, NEW fits,
         NEW r, r = processQueues(s, ph, fits), NEW q \in queueName
  PROVE  FrontGone(s, r, q)
<1>1. s.curQueueState \in Side
  BY DEF SchedulerState
<1>2. PICK side \in Side : r.queues = loopQueues(s, side, ph, fits).queues
  <2>1. CASE schedmode = "ZIPPER"
    <3> DEFINE t == loopQueues(s, s.curQueueState, ph, fits)
    <3>1. t \in SchedulerState
      BY <1>1, LoopType
    <3>2. r = [t EXCEPT !.curQueueState = OtherSide(@)]
      BY <2>1 DEF processQueues
    <3> HIDE DEF t
    <3>3. r.queues = t.queues
      BY <3>1, <3>2 DEF SchedulerState
    <3>4. QED
      BY <1>1, <3>3 DEF t
  <2>2. CASE schedmode # "ZIPPER"
    BY <2>2, SidesExist, SchedulerAssumption DEF processQueues
  <2>3. QED
    BY <2>1, <2>2
<1>3. FrontGone(s, loopQueues(s, side, ph, fits), q)
  BY CpuLoop
<1>4. QED
  BY <1>2, <1>3 DEF FrontGone

-----------------------------------------------------------------------------
(* Any port: the types.                                                    *)

LEMMA FrameType ==
  ASSUME NEW kind \in FrameKind, NEW k \in Nat
  PROVE  [id |-> k, prio |-> kind.prio, cpu |-> kind.cpu, len |-> kind.len] \in Frame
BY SchedulerPortAssumption DEF Frame

LEMMA InitRecordType ==
  ASSUME NEW qs \in [queueName -> Seq(Frame)], NEW f \in Frame
  PROVE  [queues |-> qs, transmitLock |-> FALSE, transmitLockExp |-> FALSE,
          nextUpAnotherExp |-> FALSE, curQueueState |-> "RING", framebytecontainer |-> 0,
          credit |-> 0, notifiedToken |-> FALSE, notifiedTimeslot |-> FALSE,
          timerToken |-> FALSE, timerTimeslot |-> FALSE, sendingStatus |-> f,
          out |-> <<>>, outExp |-> <<>>, failed |-> FALSE] \in SchedulerState
<1>1. 0 \in (IF framebyteLimit = -1 THEN {-1, 0} ELSE 0 .. framebyteLimit) /\ 0 \in 0 .. framebyteLimit + 1
  BY SchedulerAssumption
<1>2. <<>> \in Seq(Frame) /\ "RING" \in Side
  BY DEF Side
<1>3. QED
  BY <1>1, <1>2 DEF SchedulerState

LEMMA InitType == initScheduler \in SchedulerState
<1>1. NoFrame \in Frame
  BY DEF NoFrame, Frame, Priority
<1>2. [q \in queueName |-> <<>>] \in [queueName -> Seq(Frame)]
  OBVIOUS
<1>3. QED
  BY <1>1, <1>2, InitRecordType, Zenon DEF initScheduler

LEMMA TypeInductive ==
  ASSUME TypeOK, [Next]_vars
  PROVE  TypeOK'
<1> USE DEF TypeOK
<1>1. ASSUME NEW kind \in FrameKind, NEW side \in Side, EnqueueFrame(kind, side)
      PROVE  TypeOK'
  <2> DEFINE f == [id |-> enqueued + 1, prio |-> kind.prio, cpu |-> kind.cpu, len |-> kind.len]
  <2>1. f \in Frame /\ f.prio = kind.prio
    BY FrameType
  <2>2. sched' = enqueueMessage(sched, f, <<kind.prio, side>>)
    BY <1>1 DEF EnqueueFrame
  <2> HIDE DEF f
  <2>3. sched' \in SchedulerState
    BY <2>1, <2>2, EnqueueEffect DEF Enqueued
  <2>4. QED
    BY <1>1, <2>3 DEF EnqueueFrame
<1>2. ASSUME NEW fits \in BOOLEAN, ProcessSelfMessage(fits)
      PROVE  TypeOK'
  BY <1>2, ProcessingType DEF ProcessSelfMessage
<1>3. ASSUME NEW fits \in BOOLEAN, TokenSelfMessage(fits)
      PROVE  TypeOK'
  <2>1. resetNotifiedToken([sched EXCEPT !.timerToken = FALSE]) \in SchedulerState
    BY DEF resetNotifiedToken, SchedulerState
  <2>2. QED
    BY <1>3, <2>1, ProcessingType DEF TokenSelfMessage
<1>4. ASSUME NEW fits \in BOOLEAN, TimeslotSelfMessage(fits)
      PROVE  TypeOK'
  <2>1. resetNotifiedTimeslot([sched EXCEPT !.timerTimeslot = FALSE]) \in SchedulerState
    BY DEF resetNotifiedTimeslot, SchedulerState
  <2>2. QED
    BY <1>4, <2>1, ProcessingType DEF TimeslotSelfMessage
<1>5. ASSUME NEW fits \in BOOLEAN, InterfaceIdle(fits)
      PROVE  TypeOK'
  <2>1. unlock(sched) \in SchedulerState
    BY DEF unlock, SchedulerState
  <2>2. QED
    BY <1>5, <2>1, ProcessingType DEF InterfaceIdle
<1>6. ASSUME NEW fits \in BOOLEAN, ExpressInterfaceIdle(fits)
      PROVE  TypeOK'
  <2>1. unlockExp(sched) \in SchedulerState
    BY UnlockExpType
  <2>2. QED
    BY <1>6, <2>1, ProcessingType DEF ExpressInterfaceIdle
<1>7. CASE Transmitted
  <2>1. Tail(sched.out) \in Seq(Frame)
    BY <1>7 DEF Transmitted, SchedulerState
  <2>2. [sched EXCEPT !.out = Tail(@)] \in SchedulerState
    BY <2>1 DEF SchedulerState
  <2>3. QED
    BY <1>7, <2>2 DEF Transmitted
<1>8. CASE ExpressTransmitted
  <2>1. Tail(sched.outExp) \in Seq(Frame)
    BY <1>8 DEF ExpressTransmitted, SchedulerState
  <2>2. [sched EXCEPT !.outExp = Tail(@)] \in SchedulerState
    BY <2>1 DEF SchedulerState
  <2>3. QED
    BY <1>8, <2>2 DEF ExpressTransmitted
<1>9. CASE PhaseBoundary
  <2>1. sched.timerTimeslot \in BOOLEAN
    BY DEF SchedulerState
  <2>2. QED
    BY <1>9, <2>1 DEF PhaseBoundary
<1>10. CASE TokenTime
  BY <1>10 DEF TokenTime
<1>11. CASE CreditGrows
  <2>1. sched.credit + 1 \in 0 .. framebyteLimit + 1
    BY <1>11, SchedulerAssumption DEF CreditGrows, SchedulerState
  <2>2. [sched EXCEPT !.credit = @ + 1] \in SchedulerState
    BY <2>1 DEF SchedulerState
  <2>3. QED
    BY <1>11, <2>2 DEF CreditGrows
<1>12. CASE UNCHANGED vars
  BY <1>12 DEF vars
<1> HIDE DEF TypeOK
<1>13. CASE \E fits \in BOOLEAN :
              \/ ProcessSelfMessage(fits)
              \/ TokenSelfMessage(fits)
              \/ TimeslotSelfMessage(fits)
              \/ InterfaceIdle(fits)
              \/ ExpressInterfaceIdle(fits)
  BY <1>2, <1>3, <1>4, <1>5, <1>6, <1>13
<1>14. CASE \E kind \in FrameKind, side \in Side : EnqueueFrame(kind, side)
  BY <1>1, <1>14
<1>15. QED
  BY <1>7, <1>8, <1>9, <1>10, <1>11, <1>12, <1>13, <1>14 DEF Next

(* The state of every port is typed; in particular the byte container of   *)
(* the limiter never leaves 0 .. framebyteLimit.                           *)
THEOREM PortTyped == SafeSpec => []TypeOK
<1>1. Init => TypeOK
  <2>1. Init => sched \in SchedulerState
    BY InitType, Zenon DEF Init
  <2>2. Init => pending \in Nat /\ enqueued \in Nat
    BY DEF Init
  <2>3. QED
    BY <2>1, <2>2, Zenon DEF Init, TypeOK
<1>2. TypeOK /\ [Next]_vars => TypeOK'
  BY TypeInductive
<1>3. QED
  BY <1>1, <1>2, PTL DEF SafeSpec

-----------------------------------------------------------------------------
(* Ring ports.                                                             *)

(* Every waiting frame will be looked at again. *)
Looked == \A q \in queueName : pending > 0 \/ Covered(sched, q)

PortInv ==
  /\ TypeOK
  /\ Core(sched, notify, notifyExp)
  /\ Fresh(sched)
  /\ tokenDue => sched.timerToken
  /\ slotDue => sched.timerTimeslot
  /\ Looked

(* The initial scheduler: empty queues, nothing locked, nothing asked for. *)
LEMMA InitPort == ASSUME Init PROVE PortInv
<1>1. TypeOK
  <2>1. sched \in SchedulerState
    BY InitType, Zenon DEF Init
  <2>2. pending \in Nat /\ enqueued \in Nat
    BY DEF Init
  <2>3. QED
    BY <2>1, <2>2, Zenon DEF Init, TypeOK
<1>2. \A q \in queueName : sched.queues[q] = <<>>
  BY DEF Init, initScheduler
<1>3. Sorted(sched)
  BY <1>2 DEF Sorted
<1>4. /\ sched.transmitLock = FALSE /\ sched.transmitLockExp = FALSE
      /\ sched.nextUpAnotherExp = FALSE /\ sched.out = <<>> /\ sched.outExp = <<>>
      /\ sched.notifiedToken = FALSE /\ sched.notifiedTimeslot = FALSE
      /\ sched.timerToken = FALSE /\ sched.timerTimeslot = FALSE /\ sched.failed = FALSE
  BY DEF Init, initScheduler
<1>5. notify = FALSE /\ notifyExp = FALSE /\ tokenDue = FALSE /\ slotDue = FALSE
  BY DEF Init
<1>6. Locks(sched, notify, notifyExp)
  BY <1>4, <1>5 DEF Locks
<1>7. Attached(sched) /\ Timers(sched) /\ Fresh(sched)
  BY <1>4 DEF Attached, Timers, Fresh
<1>8. Core(sched, notify, notifyExp)
  BY <1>1, <1>3, <1>4, <1>6, <1>7 DEF Core, TypeOK
<1>9. Looked
  BY <1>2 DEF Looked, Covered
<1>10. QED
  BY <1>1, <1>5, <1>7, <1>8, <1>9 DEF PortInv

LEMMA FreshIsFreshSoon == ASSUME NEW s, Fresh(s) PROVE FreshSoon(s)
BY DEF Fresh, FreshSoon

(* A handler that ends in processQueues leaves nothing undone. *)
LEMMA Handled ==
  ASSUME RingPort, TypeOK', NEW s, Core(s, notify', notifyExp'), FreshSoon(s),
         NEW ph, NEW fits \in BOOLEAN, sched' = processQueues(s, ph, fits),
         tokenDue' => s.timerToken, slotDue' => s.timerTimeslot
  PROVE  PortInv'
<1>1. notify' \in BOOLEAN /\ notifyExp' \in BOOLEAN
  BY DEF TypeOK
<1>2. Quiet(s, sched', notify', notifyExp')
  BY <1>1, Processing
<1>3. Looked'
  BY <1>2 DEF Quiet, Looked
<1>4. QED
  BY <1>2, <1>3 DEF Quiet, PortInv

(* A step that changes neither queues, locks nor wake-ups of the scheduler. *)
LEMMA Untouched ==
  ASSUME PortInv, TypeOK', sched'.queues = sched.queues, sched'.failed = sched.failed,
         sched'.nextUpAnotherExp = sched.nextUpAnotherExp,
         sched'.transmitLock = sched.transmitLock,
         sched'.transmitLockExp = sched.transmitLockExp,
         SameWakeups(sched', sched), Core(sched', notify', notifyExp'), pending' = pending,
         tokenDue' => sched.timerToken, slotDue' => sched.timerTimeslot
  PROVE  PortInv'
<1>1. Fresh(sched')
  BY DEF PortInv, Fresh
<1>2. Looked'
  BY DEF PortInv, Looked, Covered, SameWakeups
<1>3. QED
  BY <1>1, <1>2 DEF PortInv, SameWakeups

(* A frame has been sent; it was the only one, so the interface announces  *)
(* that it is idle, and the lock stays until that is heard.                *)
LEMMA SentOne ==
  ASSUME NEW S, NEW sq \in Seq(S), sq # <<>>, Len(sq) <= 1
  PROVE  Len(sq) = 1 /\ Tail(sq) = <<>>
<1>1. Len(sq) \in Nat /\ Len(sq) # 0
  OBVIOUS
<1>2. Len(sq) = 1
  BY <1>1
<1>3. Tail(sq) \in Seq(S) /\ Len(Tail(sq)) = 0
  BY <1>2
<1>4. QED
  BY <1>2, <1>3, EmptySeq

LEMMA TransmittedKeeps ==
  ASSUME RingPort, PortInv, TypeOK', Transmitted
  PROVE  PortInv'
<1>1. Core(sched, notify, notifyExp) /\ sched \in SchedulerState /\ notify \in BOOLEAN
  BY DEF PortInv, TypeOK
<1>2. ~ notify /\ Len(sched.out) <= 1 /\ sched.out \in Seq(Frame) /\ sched.out # <<>>
  <2>1. sched.out # <<>> /\ sched.out \in Seq(Frame)
    BY <1>1 DEF Transmitted, SchedulerState
  <2>2. Len(sched.out) \in Nat /\ Len(sched.out) # 0
    BY <2>1
  <2>3. QED
    BY <1>1, <2>1, <2>2 DEF Core, Locks
<1>3. Tail(sched.out) = <<>>
  BY <1>2, SentOne
<1>4. sched' = [sched EXCEPT !.out = <<>>] /\ notify' = TRUE
  BY <1>3 DEF Transmitted, RingPort
<1>5. /\ sched'.queues = sched.queues /\ sched'.failed = sched.failed
      /\ sched'.nextUpAnotherExp = sched.nextUpAnotherExp
      /\ sched'.transmitLock = sched.transmitLock
      /\ sched'.transmitLockExp = sched.transmitLockExp
      /\ sched'.sendingStatus = sched.sendingStatus
      /\ sched'.out = <<>> /\ sched'.outExp = sched.outExp
  BY <1>1, <1>4 DEF SchedulerState
<1>6. SameWakeups(sched', sched)
  BY <1>1, <1>4 DEF SchedulerState, SameWakeups
<1>7. sched.transmitLock
  BY <1>1, <1>2 DEF Core, Locks
<1>8. Locks(sched', TRUE, notifyExp)
  BY <1>1, <1>5, <1>7 DEF Core, Locks
<1>9. Sorted(sched') /\ (sched'.transmitLockExp => Cuttable(sched')) /\ Attached(sched')
  BY <1>1, <1>5 DEF Core, Sorted, Cuttable, Attached
<1>10. Timers(sched') /\ ~ sched'.failed
  BY <1>1, <1>5, <1>6 DEF Core, Timers, SameWakeups
<1>11. notifyExp' = notifyExp /\ pending' = pending /\ tokenDue' = tokenDue /\ slotDue' = slotDue
  BY DEF Transmitted
<1>12. Core(sched', notify', notifyExp')
  BY <1>4, <1>8, <1>9, <1>10, <1>11 DEF Core, TypeOK
<1>13. QED
  BY <1>5, <1>6, <1>11, <1>12, Untouched DEF PortInv

LEMMA ExpressTransmittedKeeps ==
  ASSUME RingPort, PortInv, TypeOK', ExpressTransmitted
  PROVE  PortInv'
<1>1. Core(sched, notify, notifyExp) /\ sched \in SchedulerState /\ notifyExp \in BOOLEAN
  BY DEF PortInv, TypeOK
<1>2. ~ notifyExp /\ Len(sched.outExp) <= 1 /\ sched.outExp \in Seq(Frame) /\ sched.outExp # <<>>
  <2>1. sched.outExp # <<>> /\ sched.outExp \in Seq(Frame)
    BY <1>1 DEF ExpressTransmitted, SchedulerState
  <2>2. Len(sched.outExp) \in Nat /\ Len(sched.outExp) # 0
    BY <2>1
  <2>3. QED
    BY <1>1, <2>1, <2>2 DEF Core, Locks
<1>3. Tail(sched.outExp) = <<>>
  BY <1>2, SentOne
<1>4. sched' = [sched EXCEPT !.outExp = <<>>] /\ notifyExp' = TRUE
  BY <1>3 DEF ExpressTransmitted, RingPort
<1>5. /\ sched'.queues = sched.queues /\ sched'.failed = sched.failed
      /\ sched'.nextUpAnotherExp = sched.nextUpAnotherExp
      /\ sched'.transmitLock = sched.transmitLock
      /\ sched'.transmitLockExp = sched.transmitLockExp
      /\ sched'.sendingStatus = sched.sendingStatus
      /\ sched'.out = sched.out /\ sched'.outExp = <<>>
  BY <1>1, <1>4 DEF SchedulerState
<1>6. SameWakeups(sched', sched)
  BY <1>1, <1>4 DEF SchedulerState, SameWakeups
<1>7. sched.transmitLockExp
  BY <1>1, <1>2 DEF Core, Locks
<1>8. Locks(sched', notify, TRUE)
  BY <1>1, <1>5, <1>7 DEF Core, Locks
<1>9. Sorted(sched') /\ (sched'.transmitLockExp => Cuttable(sched')) /\ Attached(sched')
  BY <1>1, <1>5 DEF Core, Sorted, Cuttable, Attached
<1>10. Timers(sched') /\ ~ sched'.failed
  BY <1>1, <1>5, <1>6 DEF Core, Timers, SameWakeups
<1>11. notify' = notify /\ pending' = pending /\ tokenDue' = tokenDue /\ slotDue' = slotDue
  BY DEF ExpressTransmitted
<1>12. Core(sched', notify', notifyExp')
  BY <1>4, <1>8, <1>9, <1>10, <1>11 DEF Core, TypeOK
<1>13. QED
  BY <1>5, <1>6, <1>11, <1>12, Untouched DEF PortInv

LEMMA CreditGrowsKeeps ==
  ASSUME PortInv, TypeOK', CreditGrows
  PROVE  PortInv'
<1>1. sched \in SchedulerState /\ sched' \in SchedulerState /\ Core(sched, notify, notifyExp)
  BY DEF PortInv, TypeOK
<1>2. sched' = [sched EXCEPT !.credit = @ + 1]
  BY DEF CreditGrows
<1>3. /\ sched'.queues = sched.queues /\ sched'.failed = sched.failed
      /\ sched'.nextUpAnotherExp = sched.nextUpAnotherExp
  BY <1>1, <1>2 DEF SchedulerState
<1>4. SameLinks(sched', sched)
  BY <1>1, <1>2 DEF SchedulerState, SameLinks
<1>5. SameWakeups(sched', sched)
  BY <1>1, <1>2 DEF SchedulerState, SameWakeups
<1>6. Timers(sched')
  BY <1>1, <1>5 DEF Core, Timers, SameWakeups
<1>7. Core(sched', notify, notifyExp)
  BY <1>1, <1>3, <1>4, <1>6, CoreSame
<1>8. /\ notify' = notify /\ notifyExp' = notifyExp /\ pending' = pending
      /\ tokenDue' = tokenDue /\ slotDue' = slotDue
  BY DEF CreditGrows
<1>9. QED
  BY <1>3, <1>4, <1>5, <1>7, <1>8, Untouched DEF PortInv, SameLinks

LEMMA PortInductive ==
  ASSUME RingPort, PortInv, [Next]_vars
  PROVE  PortInv'
<1>1. TypeOK'
  BY TypeInductive DEF PortInv
<1>2. Core(sched, notify, notifyExp) /\ Fresh(sched) /\ TypeOK
  BY DEF PortInv
<1>3. sched \in SchedulerState /\ notify \in BOOLEAN /\ notifyExp \in BOOLEAN
  BY <1>2 DEF TypeOK
<1>4. ASSUME NEW kind \in FrameKind, NEW side \in Side, EnqueueFrame(kind, side)
      PROVE  PortInv'
  <2> DEFINE f == [id |-> enqueued + 1, prio |-> kind.prio, cpu |-> kind.cpu, len |-> kind.len]
  <2>1. f \in Frame /\ f.prio = kind.prio
    BY <1>2, FrameType DEF TypeOK
  <2>2. sched' = enqueueMessage(sched, f, <<kind.prio, side>>)
    BY <1>4 DEF EnqueueFrame
  <2> HIDE DEF f
  <2>3. Core(sched', notify, notifyExp) /\ Fresh(sched') /\ SameWakeups(sched', sched)
    BY <1>2, <2>1, <2>2, EnqueueKeeps
  <2>4. pending' > 0 /\ UNCHANGED <<notify, notifyExp, tokenDue, slotDue>>
    BY <1>2, <1>4 DEF EnqueueFrame, TypeOK
  <2>5. Looked'
    BY <2>4 DEF Looked
  <2>6. QED
    BY <1>1, <2>3, <2>4, <2>5 DEF PortInv, SameWakeups
<1>5. ASSUME NEW fits \in BOOLEAN, ProcessSelfMessage(fits)
      PROVE  PortInv'
  <2>1. FreshSoon(sched)
    BY <1>2, FreshIsFreshSoon
  <2>2. sched' = processQueues(sched, phase, fits) /\ UNCHANGED <<notify, notifyExp, tokenDue, slotDue>>
    BY <1>5 DEF ProcessSelfMessage
  <2>3. QED
    BY <1>1, <1>2, <2>1, <2>2, Handled DEF PortInv
<1>6. ASSUME NEW fits \in BOOLEAN, TokenSelfMessage(fits)
      PROVE  PortInv'
  <2> DEFINE r == resetNotifiedToken([sched EXCEPT !.timerToken = FALSE])
  <2>1. Core(r, notify, notifyExp) /\ Fresh(r) /\ r.timerTimeslot = sched.timerTimeslot
    BY <1>2, TokenDelivered
  <2>2. /\ sched' = processQueues(r, phase, fits) /\ tokenDue' = FALSE
        /\ UNCHANGED <<notify, notifyExp, slotDue>>
    BY <1>6 DEF TokenSelfMessage
  <2> HIDE DEF r
  <2>3. FreshSoon(r)
    BY <2>1, FreshIsFreshSoon
  <2>4. QED
    BY <1>1, <2>1, <2>2, <2>3, Handled DEF PortInv
<1>7. ASSUME NEW fits \in BOOLEAN, TimeslotSelfMessage(fits)
      PROVE  PortInv'
  <2> DEFINE r == resetNotifiedTimeslot([sched EXCEPT !.timerTimeslot = FALSE])
  <2>1. Core(r, notify, notifyExp) /\ Fresh(r) /\ r.timerToken = sched.timerToken
    BY <1>2, TimeslotDelivered
  <2>2. /\ sched' = processQueues(r, phase, fits) /\ slotDue' = FALSE
        /\ UNCHANGED <<notify, notifyExp, tokenDue>>
    BY <1>7 DEF TimeslotSelfMessage
  <2> HIDE DEF r
  <2>3. FreshSoon(r)
    BY <2>1, FreshIsFreshSoon
  <2>4. QED
    BY <1>1, <2>1, <2>2, <2>3, Handled DEF PortInv
<1>8. ASSUME NEW fits \in BOOLEAN, InterfaceIdle(fits)
      PROVE  PortInv'
  <2> DEFINE r == unlock(sched)
  <2>1. /\ notify = TRUE /\ notify' = FALSE /\ sched' = processQueues(r, phase, fits)
        /\ UNCHANGED <<notifyExp, tokenDue, slotDue>>
    BY <1>3, <1>8 DEF InterfaceIdle
  <2>2. /\ Core(r, FALSE, notifyExp) /\ FreshSoon(r)
        /\ r.timerToken = sched.timerToken /\ r.timerTimeslot = sched.timerTimeslot
    BY <1>2, <1>3, <2>1, UnlockKeeps
  <2> HIDE DEF r
  <2>3. QED
    BY <1>1, <2>1, <2>2, Handled DEF PortInv
<1>9. ASSUME NEW fits \in BOOLEAN, ExpressInterfaceIdle(fits)
      PROVE  PortInv'
  <2> DEFINE r == unlockExp(sched)
  <2>1. /\ notifyExp = TRUE /\ notifyExp' = FALSE /\ sched' = processQueues(r, phase, fits)
        /\ UNCHANGED <<notify, tokenDue, slotDue>>
    BY <1>3, <1>9 DEF ExpressInterfaceIdle
  <2>2. /\ Core(r, notify, FALSE) /\ FreshSoon(r)
        /\ r.timerToken = sched.timerToken /\ r.timerTimeslot = sched.timerTimeslot
    BY <1>2, <1>3, <2>1, UnlockExpKeeps
  <2> HIDE DEF r
  <2>3. QED
    BY <1>1, <2>1, <2>2, Handled DEF PortInv
<1>10. CASE Transmitted
  BY <1>1, <1>10, TransmittedKeeps
<1>11. CASE ExpressTransmitted
  BY <1>1, <1>11, ExpressTransmittedKeeps
<1>12. CASE PhaseBoundary
  <2>1. /\ UNCHANGED <<sched, pending, notify, notifyExp, tokenDue>>
        /\ slotDue' => sched.timerTimeslot
    BY <1>12 DEF PhaseBoundary
  <2>2. QED
    BY <1>1, <2>1, Zenon DEF PortInv, Looked
<1>13. CASE TokenTime
  <2>1. UNCHANGED <<sched, pending, notify, notifyExp, slotDue>> /\ sched.timerToken
    BY <1>13 DEF TokenTime
  <2>2. QED
    BY <1>1, <2>1, Zenon DEF PortInv, Looked
<1>14. CASE CreditGrows
  BY <1>1, <1>14, CreditGrowsKeeps
<1>15. CASE UNCHANGED vars
  <2>1. UNCHANGED <<sched, pending, notify, notifyExp, tokenDue, slotDue>>
    BY <1>15 DEF vars
  <2>2. QED
    BY <1>1, <2>1, Zenon DEF PortInv, Looked
<1>16. CASE \E fits \in BOOLEAN :
              \/ ProcessSelfMessage(fits)
              \/ TokenSelfMessage(fits)
              \/ TimeslotSelfMessage(fits)
              \/ InterfaceIdle(fits)
              \/ ExpressInterfaceIdle(fits)
  BY <1>5, <1>6, <1>7, <1>8, <1>9, <1>16
<1>17. CASE \E kind \in FrameKind, side \in Side : EnqueueFrame(kind, side)
  BY <1>4, <1>17
<1>18. QED
  BY <1>10, <1>11, <1>12, <1>13, <1>14, <1>15, <1>16, <1>17 DEF Next

(* What the invariant gives. *)
LEMMA PortInvImplies ==
  ASSUME PortInv
  PROVE  /\ LockTracksInterface
         /\ OnlyLongFramesArePreempted
         /\ ExpressFlagIsFresh
         /\ TimersMatchFlags
         /\ LimiterNeverThrows
         /\ NoLostWakeup
<1>1. Core(sched, notify, notifyExp) /\ sched \in SchedulerState
  BY DEF PortInv, TypeOK
<1>2. LockTracksInterface
  BY <1>1 DEF Core, Locks, LockTracksInterface
<1>3. OnlyLongFramesArePreempted
  BY <1>1 DEF Core, Cuttable, Attached, OnlyLongFramesArePreempted
<1>4. ExpressFlagIsFresh
  BY DEF PortInv, Fresh, ExpressFlagIsFresh
<1>5. TimersMatchFlags
  BY <1>1 DEF PortInv, Core, Timers, TimersMatchFlags
<1>6. LimiterNeverThrows
  BY <1>1 DEF Core, LimiterNeverThrows
<1>7. NoLostWakeup
  BY DEF PortInv, Looked, Covered, NoLostWakeup
<1>8. QED
  BY <1>2, <1>3, <1>4, <1>5, <1>6, <1>7

LEMMA PortInvAlways == ASSUME RingPort PROVE SafeSpec => []PortInv
<1>1. Init => PortInv
  BY InitPort
<1>2. PortInv /\ [Next]_vars => PortInv'
  BY PortInductive
<1>3. QED
  BY <1>1, <1>2, PTL DEF SafeSpec

(* A ring port is locked exactly while one frame of it is with the         *)
(* interface or has just left it: no unlock is missed, no frame handed     *)
(* over twice (processOneQueue, unlock, unlockExp).                        *)
THEOREM NeverStuckLocked == ASSUME RingPort PROVE SafeSpec => []LockTracksInterface
<1>1. PortInv => LockTracksInterface
  BY PortInvImplies
<1>2. QED
  BY <1>1, PortInvAlways, PTL

(* Only frames of at least FragmentMin bytes are interrupted, and it is    *)
(* the attached frame that is (getExpressSendTime).                        *)
THEOREM PreemptionIsSafe == ASSUME RingPort PROVE SafeSpec => []OnlyLongFramesArePreempted
<1>1. PortInv => OnlyLongFramesArePreempted
  BY PortInvImplies
<1>2. QED
  BY <1>1, PortInvAlways, PTL

(* nextUpAnotherExp is never found set once its chain of express frames    *)
(* has ended (unlockExp, unlock).                                          *)
THEOREM ExpressFlagNeverStale == ASSUME RingPort PROVE SafeSpec => []ExpressFlagIsFresh
<1>1. PortInv => ExpressFlagIsFresh
  BY PortInvImplies
<1>2. QED
  BY <1>1, PortInvAlways, PTL

(* The scheduler believes in a wake-up exactly when one is on its way      *)
(* (notifiedToken, notifiedTimeslot).                                      *)
THEOREM WakeupsAreReal == ASSUME RingPort PROVE SafeSpec => []TimersMatchFlags
<1>1. PortInv => TimersMatchFlags
  BY PortInvImplies
<1>2. QED
  BY <1>1, PortInvAlways, PTL

(* A frame the limiter let through is always affordable when it is paid    *)
(* for, so the exception of subtractFromByteContainer is unreachable.      *)
THEOREM LimiterIsSafe == ASSUME RingPort PROVE SafeSpec => []LimiterNeverThrows
<1>1. PortInv => LimiterNeverThrows
  BY PortInvImplies
<1>2. QED
  BY <1>1, PortInvAlways, PTL

(* No frame of a ring port waits without an event on its way that will     *)
(* look at its queue again.                                                *)
THEOREM NothingIsForgotten == ASSUME RingPort PROVE SafeSpec => []NoLostWakeup
<1>1. PortInv => NoLostWakeup
  BY PortInvImplies
<1>2. QED
  BY <1>1, PortInvAlways, PTL

-----------------------------------------------------------------------------
(* The CPU port.                                                           *)

CpuInv == TypeOK /\ EveryFrameHasAProcessing

(* A processing takes one frame from every queue that has one. *)
LEMMA CpuProcessed ==
  ASSUME schedID = "C", schedmode # "TOKENS", NEW s \in SchedulerState, NEW ph, NEW fits,
         NEW k \in Nat, \A q \in queueName : Len(s.queues[q]) <= k,
         NEW r, r = processQueues(s, ph, fits), NEW q \in queueName
  PROVE  Len(r.queues[q]) <= k /\ (k > 0 => Len(r.queues[q]) <= k - 1)
<1>1. FrontGone(s, r, q)
  BY CpuProcessing
<1>2. s.queues[q] \in Seq(Frame) /\ Len(s.queues[q]) \in Nat /\ Len(s.queues[q]) <= k
  BY DEF SchedulerState
<1>3. CASE s.queues[q] = <<>>
  BY <1>1, <1>3, EmptySeq DEF FrontGone
<1>4. CASE s.queues[q] # <<>>
  <2>1. Len(Tail(s.queues[q])) = Len(s.queues[q]) - 1 /\ Len(s.queues[q]) # 0
    BY <1>2, <1>4, EmptySeq
  <2>2. Len(r.queues[q]) = Len(s.queues[q]) - 1
    BY <1>1, <1>4, <2>1 DEF FrontGone
  <2>3. QED
    BY <1>2, <2>1, <2>2
<1>5. QED
  BY <1>3, <1>4

LEMMA CpuInductive ==
  ASSUME schedID = "C", schedmode # "TOKENS", CpuInv, [Next]_vars
  PROVE  EveryFrameHasAProcessing'
<1>1. sched \in SchedulerState /\ pending \in Nat /\ enqueued \in Nat
  BY DEF CpuInv, TypeOK
<1>2. \A q \in queueName : Len(sched.queues[q]) <= pending
  BY DEF CpuInv, EveryFrameHasAProcessing
<1>3. ASSUME NEW kind \in FrameKind, NEW side \in Side, EnqueueFrame(kind, side)
      PROVE  EveryFrameHasAProcessing'
  <2> DEFINE f == [id |-> enqueued + 1, prio |-> kind.prio, cpu |-> kind.cpu, len |-> kind.len]
  <2>1. f \in Frame /\ f.prio = kind.prio
    BY <1>1, FrameType
  <2>2. sched' = enqueueMessage(sched, f, <<kind.prio, side>>) /\ pending' = pending + 1
    BY <1>3 DEF EnqueueFrame
  <2> HIDE DEF f
  <2>3. PICK p \in queueName : Enqueued(sched, p, f, sched')
    BY <1>1, <2>1, <2>2, EnqueueEffect
  <2>4. ASSUME NEW q \in queueName
        PROVE  Len(sched'.queues[q]) <= pending'
    <3>1. sched.queues \in [queueName -> Seq(Frame)]
      BY <1>1 DEF SchedulerState
    <3>2. Len(sched.queues[q]) \in Nat
      BY <3>1
    <3>3. CASE q # p
      <4>1. sched'.queues[q] = sched.queues[q]
        BY <2>3, <3>1, <3>3 DEF Enqueued
      <4>2. QED
        BY <1>1, <1>2, <2>2, <3>2, <4>1
    <3>4. CASE q = p
      <4>1. sched'.queues[q] = Append(sched.queues[q], f) /\ sched.queues[q] \in Seq(Frame)
        BY <2>3, <3>1, <3>4 DEF Enqueued
      <4>2. Len(sched'.queues[q]) = Len(sched.queues[q]) + 1
        BY <2>1, <4>1
      <4>3. QED
        BY <1>1, <1>2, <2>2, <3>2, <4>2
    <3>5. QED
      BY <3>3, <3>4
  <2>5. QED
    BY <2>4 DEF EveryFrameHasAProcessing
<1>4. ASSUME NEW fits \in BOOLEAN, ProcessSelfMessage(fits)
      PROVE  EveryFrameHasAProcessing'
  <2>1. sched' = processQueues(sched, phase, fits) /\ pending > 0 /\ pending' = pending - 1
    BY <1>4 DEF ProcessSelfMessage
  <2>2. QED
    BY <1>1, <1>2, <2>1, CpuProcessed DEF EveryFrameHasAProcessing
<1>5. ASSUME NEW s \in SchedulerState, s.queues = sched.queues, NEW fits \in BOOLEAN,
             sched' = processQueues(s, phase, fits), pending' = pending
      PROVE  EveryFrameHasAProcessing'
  BY <1>1, <1>2, <1>5, CpuProcessed DEF EveryFrameHasAProcessing
<1>6. ASSUME NEW fits \in BOOLEAN, TokenSelfMessage(fits)
      PROVE  EveryFrameHasAProcessing'
  <2> DEFINE s == resetNotifiedToken([sched EXCEPT !.timerToken = FALSE])
  <2>1. s \in SchedulerState /\ s.queues = sched.queues
    BY <1>1 DEF resetNotifiedToken, SchedulerState
  <2>2. sched' = processQueues(s, phase, fits) /\ pending' = pending
    BY <1>6 DEF TokenSelfMessage
  <2> HIDE DEF s
  <2>3. QED
    BY <1>5, <2>1, <2>2
<1>7. ASSUME NEW fits \in BOOLEAN, TimeslotSelfMessage(fits)
      PROVE  EveryFrameHasAProcessing'
  <2> DEFINE s == resetNotifiedTimeslot([sched EXCEPT !.timerTimeslot = FALSE])
  <2>1. s \in SchedulerState /\ s.queues = sched.queues
    BY <1>1 DEF resetNotifiedTimeslot, SchedulerState
  <2>2. sched' = processQueues(s, phase, fits) /\ pending' = pending
    BY <1>7 DEF TimeslotSelfMessage
  <2> HIDE DEF s
  <2>3. QED
    BY <1>5, <2>1, <2>2
<1>8. ASSUME NEW fits \in BOOLEAN, InterfaceIdle(fits)
      PROVE  EveryFrameHasAProcessing'
  <2>1. unlock(sched) \in SchedulerState /\ unlock(sched).queues = sched.queues
    BY <1>1 DEF unlock, SchedulerState
  <2>2. QED
    BY <1>5, <1>8, <2>1 DEF InterfaceIdle
<1>9. ASSUME NEW fits \in BOOLEAN, ExpressInterfaceIdle(fits)
      PROVE  EveryFrameHasAProcessing'
  <2>1. unlockExp(sched) \in SchedulerState /\ unlockExp(sched).queues = sched.queues
    BY <1>1, UnlockExpType
  <2>2. QED
    BY <1>5, <1>9, <2>1 DEF ExpressInterfaceIdle
<1>10. ASSUME sched'.queues = sched.queues, pending' = pending
       PROVE  EveryFrameHasAProcessing'
  BY <1>2, <1>10 DEF EveryFrameHasAProcessing
<1>11. CASE Transmitted \/ ExpressTransmitted \/ CreditGrows
  <2>1. CASE Transmitted
    BY <1>1, <1>10, <2>1 DEF Transmitted, SchedulerState
  <2>2. CASE ExpressTransmitted
    BY <1>1, <1>10, <2>2 DEF ExpressTransmitted, SchedulerState
  <2>3. CASE CreditGrows
    BY <1>1, <1>10, <2>3 DEF CreditGrows, SchedulerState
  <2>4. QED
    BY <1>11, <2>1, <2>2, <2>3
<1>12. CASE PhaseBoundary \/ TokenTime \/ UNCHANGED vars
  BY <1>10, <1>12 DEF PhaseBoundary, TokenTime, vars
<1>13. CASE \E fits \in BOOLEAN :
              \/ ProcessSelfMessage(fits)
              \/ TokenSelfMessage(fits)
              \/ TimeslotSelfMessage(fits)
              \/ InterfaceIdle(fits)
              \/ ExpressInterfaceIdle(fits)
  BY <1>4, <1>6, <1>7, <1>8, <1>9, <1>13
<1>14. CASE \E kind \in FrameKind, side \in Side : EnqueueFrame(kind, side)
  BY <1>3, <1>14
<1>15. QED
  BY <1>11, <1>12, <1>13, <1>14 DEF Next

(* Nothing unlocks the CPU port and a processing takes one frame from each *)
(* queue only; yet no frame stays behind, for no queue of it is ever       *)
(* longer than the number of processings to come (EndNodeSwitch schedules  *)
(* one per frame).                                                         *)
THEOREM CpuFramesAreProcessed ==
  ASSUME schedID = "C", schedmode # "TOKENS"
  PROVE  SafeSpec => []EveryFrameHasAProcessing
<1>1. Init => EveryFrameHasAProcessing
  BY EmptySeq DEF Init, initScheduler, EveryFrameHasAProcessing
<1>2. Init => TypeOK
  BY InitPort DEF PortInv
<1>3. CpuInv /\ [Next]_vars => CpuInv'
  BY CpuInductive, TypeInductive DEF CpuInv
<1>4. QED
  BY <1>1, <1>2, <1>3, PTL DEF SafeSpec, CpuInv

-----------------------------------------------------------------------------
(* What a processing of all queues of a ring port sends: at most one       *)
(* frame, on one interface, and a normal frame only when everything before *)
(* it in the sort order is empty or held back by the time slot or the      *)
(* limiter.  From this follow, for every mode and every set of frames, the *)
(* order properties of the port: strict priority, the order of the two     *)
(* sides within a class, and first come first served.                      *)

(* Frame f went to the express interface, or to the normal one. *)
ExpressOut(s, r, f, fits) ==
  /\ ~ s.transmitLockExp
  /\ s.transmitLock => getExpressSendTime(s, fits)
  /\ s.outExp = <<>> /\ r.outExp = <<f>>
  /\ r.out = s.out
  /\ r.transmitLock = s.transmitLock /\ r.transmitLockExp
  /\ r.sendingStatus = s.sendingStatus

NormalOut(s, r, f) ==
  /\ BothIdle(s)
  /\ s.out = <<>> /\ r.out = <<f>>
  /\ r.outExp = s.outExp
  /\ r.transmitLock /\ ~ r.transmitLockExp
  /\ r.sendingStatus = f

(* Why a queue that was processed still holds frames. *)
HeldBack(r, q, ph) ==
  r.queues[q] # <<>> => ~ timeslotIsValid(q, ph) \/ Limited(Head(r.queues[q]))

Passed(r, q, ph, fits) ==
  \/ HeldBack(r, q, ph)
  \/ r.transmitLockExp
  \/ r.transmitLock /\ (q[1] = "EXPRESS" => ~ getExpressSendTime(r, fits))

(* f was the front of queue q, and is gone. *)
TakenFrom(s, r, q, f) ==
  /\ s.queues[q] # <<>>
  /\ f = Head(s.queues[q]) /\ f.prio = q[1]
  /\ r.queues[q] = Tail(s.queues[q])

(* What a processing of queue q does to the two interfaces. *)
QueueEffect(s, r, q, ph, fits) ==
  \/ SameLinks(r, s) /\ r.queues = s.queues
  \/ /\ q[1] = "EXPRESS"
     /\ \E f \in Frame : TakenFrom(s, r, q, f) /\ ExpressOut(s, r, f, fits)
  \/ /\ q[1] # "EXPRESS"
     /\ timeslotIsValid(q, ph)
     /\ \E f \in Frame : TakenFrom(s, r, q, f) /\ NormalOut(s, r, f)

LEMMA OneAppended ==
  ASSUME NEW sq, sq = <<>>, NEW f
  PROVE  Append(sq, f) = <<f>>
OBVIOUS

LEMMA EffectOfQueue ==
  ASSUME RingPort, NEW n \in BOOLEAN, NEW ne \in BOOLEAN, NEW s, Core(s, n, ne),
         NEW q \in queueName, NEW ph, NEW fits \in BOOLEAN,
         NEW r, r = processOneQueue(s, q, ph, fits)
  PROVE  QueueEffect(s, r, q, ph, fits) /\ Passed(r, q, ph, fits)
<1>1. CASE s.queues[q] = <<>>
  <2>1. r = s
    BY <1>1 DEF processOneQueue
  <2>2. QED
    BY <1>1, <2>1 DEF QueueEffect, Passed, HeldBack, SameLinks
<1>2. CASE s.queues[q] # <<>>
  <2> DEFINE f == Head(s.queues[q])
  <2>1. s \in SchedulerState /\ Sorted(s) /\ Locks(s, n, ne)
    BY DEF Core
  <2>2. PICK t \in SchedulerState, enough \in BOOLEAN :
           /\ processOneQueue(s, q, ph, fits) = processFront(t, q, ph, fits, enough)
           /\ t.queues = s.queues
           /\ t.nextUpAnotherExp = s.nextUpAnotherExp
           /\ t.failed = s.failed
           /\ SameLinks(t, s)
           /\ SameWakeups(t, s)
           /\ enough => Affordable(t, Head(s.queues[q]))
           /\ ~ enough => Limited(Head(s.queues[q]))
           /\ q[1] = "EXPRESS" => enough
    BY <1>2, <2>1, OneQueue
  <2>3. f \in Frame /\ f.prio = q[1] /\ f = Head(t.queues[q]) /\ t.queues[q] # <<>>
    BY <1>2, <2>1, <2>2, FrontType, SortedFront
  <2>4. getExpressSendTime(t, fits) <=> getExpressSendTime(s, fits)
    BY <2>2 DEF getExpressSendTime, SameLinks
  <2>5. \/ SendsExpress(t, q, fits, r)
        \/ SendsNormal(t, q, ph, enough, r)
        \/ CannotCut(t, q, fits, r)
        \/ Waits(t, q, ph, enough, r)
    BY <2>2, Branches
  <2> HIDE DEF f
  <2>6. CASE SendsExpress(t, q, fits, r)
    <3>1. ExpressSent(t, q, f, r)
      BY <2>2, <2>3, <2>6, SendExpressEffect DEF SendsExpress
    <3>2. s.outExp = <<>> /\ s.outExp \in Seq(Frame)
      BY <2>1, <2>2, <2>6 DEF SendsExpress, SameLinks, Locks, SchedulerState
    <3>3. r.outExp = <<f>>
      BY <2>2, <3>1, <3>2, OneAppended DEF ExpressSent, SameLinks
    <3>4. ExpressOut(s, r, f, fits)
      BY <2>2, <2>4, <2>6, <3>1, <3>2, <3>3 DEF SendsExpress, ExpressSent, ExpressOut, SameLinks
    <3>5. TakenFrom(s, r, q, f)
      <4>1. r.queues = [s.queues EXCEPT ![q] = Tail(@)]
        BY <2>2, <3>1 DEF ExpressSent
      <4>2. r.queues[q] = Tail(s.queues[q])
        BY <2>1, <4>1 DEF SchedulerState
      <4>3. QED
        BY <1>2, <2>2, <2>3, <4>2 DEF TakenFrom
    <3>6. QED
      BY <2>3, <2>6, <3>4, <3>5 DEF QueueEffect, Passed, ExpressOut, SendsExpress
  <2>7. CASE SendsNormal(t, q, ph, enough, r)
    <3>1. NormalSent(t, q, f, r)
      BY <2>2, <2>3, <2>7, SendFrontEffect DEF SendsNormal
    <3>2. s.out = <<>> /\ BothIdle(s)
      BY <2>1, <2>2, <2>7 DEF SendsNormal, BothIdle, SameLinks, Locks
    <3>3. r.out = <<f>>
      BY <2>2, <3>1, <3>2, OneAppended DEF NormalSent, SameLinks
    <3>4. NormalOut(s, r, f)
      BY <2>2, <3>1, <3>2, <3>3 DEF NormalSent, NormalOut, SameLinks, BothIdle
    <3>5. TakenFrom(s, r, q, f)
      <4>1. r.queues = [s.queues EXCEPT ![q] = Tail(@)]
        BY <2>2, <3>1 DEF NormalSent
      <4>2. r.queues[q] = Tail(s.queues[q])
        BY <2>1, <4>1 DEF SchedulerState
      <4>3. QED
        BY <1>2, <2>2, <2>3, <4>2 DEF TakenFrom
    <3>6. QED
      BY <2>3, <2>7, <3>4, <3>5 DEF QueueEffect, Passed, NormalOut, SendsNormal
  <2>8. CASE CannotCut(t, q, fits, r)
    BY <2>2, <2>8 DEF CannotCut, QueueEffect, Passed
  <2>9. CASE Waits(t, q, ph, enough, r)
    <3>1. r.queues = t.queues /\ SameLinks(r, t)
      BY <2>1, <2>2, <2>9, LookLaterEffect DEF Waits, Core
    <3>2. SameLinks(r, s) /\ r.queues = s.queues
      BY <2>2, <3>1 DEF SameLinks
    <3>3. Passed(r, q, ph, fits)
      BY <2>2, <2>9, <3>1 DEF Waits, Passed, HeldBack, BothIdle, SameLinks
    <3>4. QED
      BY <3>2, <3>3 DEF QueueEffect
  <2>10. QED
    BY <2>5, <2>6, <2>7, <2>8, <2>9
<1>3. QED
  BY <1>1, <1>2

-----------------------------------------------------------------------------
(* All six queues.                                                         *)

Before(p, q, first) ==
  \/ p[1] = "EXPRESS" /\ q[1] # "EXPRESS"
  \/ p[1] = "HIGH" /\ q[1] = "LOW"
  \/ p[1] = q[1] /\ p[2] = first /\ q[2] # first

(* One frame left, from queue q: an express frame, or a normal one when    *)
(* nothing before its queue could be sent.                                 *)
OnlyFrom(s, r, q, f) ==
  /\ TakenFrom(s, r, q, f)
  /\ \A p \in queueName : p # q => r.queues[p] = s.queues[p]

ExpressFrom(s, r, q, f, fits) ==
  q[1] = "EXPRESS" /\ OnlyFrom(s, r, q, f) /\ ExpressOut(s, r, f, fits)

NormalFrom(s, r, q, f, first, ph) ==
  /\ q[1] # "EXPRESS" /\ OnlyFrom(s, r, q, f) /\ NormalOut(s, r, f)
  /\ timeslotIsValid(q, ph)
  /\ \A p \in queueName : Before(p, q, first) => HeldBack(r, p, ph)

(* r has come about from s by processing the queues in done. *)
Sent(s, r, done, first, ph, fits) ==
  \/ SameLinks(r, s) /\ r.queues = s.queues
  \/ \E f \in Frame, q \in done :
       ExpressFrom(s, r, q, f, fits) \/ NormalFrom(s, r, q, f, first, ph)

Progress(s, r, done, first, ph, fits) ==
  /\ r.nextUpAnotherExp = s.nextUpAnotherExp
  /\ \A q \in done : Passed(r, q, ph, fits)
  /\ \A q \in queueName : q \notin done => r.queues[q] = s.queues[q]
  /\ Sent(s, r, done, first, ph, fits)

LEMMA PassedStays ==
  ASSUME NEW n, NEW ne, NEW s, NEW r, NEW ph, NEW fits \in BOOLEAN,
         NEW q \in queueName, StepOK(s, r, q, n, ne), QueueEffect(s, r, q, ph, fits),
         NEW p \in queueName, p # q, Passed(s, p, ph, fits)
  PROVE  Passed(r, p, ph, fits)
<1>1. r.queues[p] = s.queues[p] /\ r.nextUpAnotherExp = s.nextUpAnotherExp
  BY DEF StepOK
<1>2. (s.transmitLock => r.transmitLock) /\ (s.transmitLockExp => r.transmitLockExp)
  BY DEF StepOK
<1>3. CASE SameLinks(r, s)
  BY <1>1, <1>3 DEF Passed, HeldBack, SameLinks, getExpressSendTime
<1>4. CASE \E f \in Frame : ExpressOut(s, r, f, fits)
  BY <1>4 DEF Passed, ExpressOut
<1>5. CASE \E f \in Frame : NormalOut(s, r, f)
  <2>1. HeldBack(s, p, ph)
    BY <1>5 DEF Passed, NormalOut, BothIdle
  <2>2. QED
    BY <1>1, <2>1 DEF Passed, HeldBack
<1>6. QED
  BY <1>3, <1>4, <1>5 DEF QueueEffect

LEMMA ProgressStep ==
  ASSUME RingPort, NEW n \in BOOLEAN, NEW ne \in BOOLEAN, NEW s, NEW r, Core(r, n, ne),
         NEW done \in SUBSET queueName, NEW first \in Side, NEW ph, NEW fits \in BOOLEAN,
         Progress(s, r, done, first, ph, fits),
         NEW q \in queueName, q \notin done,
         \A p \in queueName : Before(p, q, first) => p \in done,
         q[1] = "EXPRESS" => \A p \in done : p[1] = "EXPRESS",
         NEW t, t = processOneQueue(r, q, ph, fits)
  PROVE  Core(t, n, ne) /\ Progress(s, t, done \cup {q}, first, ph, fits)
<1>1. StepOK(r, t, q, n, ne)
  BY Step
<1>2. QueueEffect(r, t, q, ph, fits) /\ Passed(t, q, ph, fits)
  BY EffectOfQueue
<1>3. Core(t, n, ne) /\ t.nextUpAnotherExp = s.nextUpAnotherExp
  BY <1>1 DEF StepOK, Progress
<1>4. \A p \in done : Passed(t, p, ph, fits)
  BY <1>1, <1>2, PassedStays DEF Progress
<1>5. \A p \in queueName : p # q => t.queues[p] = r.queues[p]
  BY <1>1 DEF StepOK
<1>6. \A p \in queueName : p \notin done \cup {q} => t.queues[p] = s.queues[p]
  BY <1>5 DEF Progress
<1>7. Sent(s, t, done \cup {q}, first, ph, fits)
  <2>1. CASE SameLinks(t, r) /\ t.queues = r.queues
    <3>1. CASE SameLinks(r, s) /\ r.queues = s.queues
      BY <2>1, <3>1 DEF Sent, SameLinks
    <3>2. ASSUME NEW f \in Frame, NEW p \in done, ExpressFrom(s, r, p, f, fits)
          PROVE  ExpressFrom(s, t, p, f, fits)
      BY <2>1, <3>2 DEF ExpressFrom, OnlyFrom, TakenFrom, SameLinks, ExpressOut
    <3>3. ASSUME NEW f \in Frame, NEW p \in done, NormalFrom(s, r, p, f, first, ph)
          PROVE  NormalFrom(s, t, p, f, first, ph)
      BY <2>1, <3>3 DEF NormalFrom, OnlyFrom, TakenFrom, SameLinks, NormalOut, HeldBack
    <3>4. QED
      BY <3>1, <3>2, <3>3 DEF Progress, Sent
  <2>2. CASE /\ q[1] = "EXPRESS"
             /\ \E f \in Frame : TakenFrom(r, t, q, f) /\ ExpressOut(r, t, f, fits)
    <3>1. PICK f \in Frame : TakenFrom(r, t, q, f) /\ ExpressOut(r, t, f, fits)
      BY <2>2
    <3>2. SameLinks(r, s) /\ r.queues = s.queues
      <4>1. ASSUME NEW g \in Frame, NEW p \in done
            PROVE  ~ ExpressFrom(s, r, p, g, fits) /\ ~ NormalFrom(s, r, p, g, first, ph)
        BY <2>2, <3>1 DEF ExpressFrom, NormalFrom, ExpressOut
      <4>2. QED
        BY <4>1 DEF Progress, Sent
    <3>3. ExpressOut(s, t, f, fits)
      BY <3>1, <3>2 DEF Progress, SameLinks, ExpressOut, getExpressSendTime
    <3>4. OnlyFrom(s, t, q, f)
      BY <1>5, <3>1, <3>2 DEF OnlyFrom, TakenFrom
    <3>5. QED
      BY <2>2, <3>3, <3>4 DEF Sent, ExpressFrom
  <2>3. CASE /\ q[1] # "EXPRESS"
             /\ timeslotIsValid(q, ph)
             /\ \E f \in Frame : TakenFrom(r, t, q, f) /\ NormalOut(r, t, f)
    <3>1. PICK f \in Frame : TakenFrom(r, t, q, f) /\ NormalOut(r, t, f)
      BY <2>3
    <3>2. BothIdle(r)
      BY <3>1 DEF NormalOut
    <3>3. SameLinks(r, s) /\ r.queues = s.queues
      BY <3>2 DEF Progress, Sent, ExpressFrom, NormalFrom, ExpressOut, NormalOut, BothIdle
    <3>4. NormalOut(s, t, f)
      BY <3>1, <3>3 DEF NormalOut, SameLinks, BothIdle
    <3>5. OnlyFrom(s, t, q, f)
      BY <1>5, <3>1, <3>3 DEF OnlyFrom, TakenFrom
    <3>6. ASSUME NEW p \in queueName, Before(p, q, first)
          PROVE  HeldBack(t, p, ph)
      <4>1. HeldBack(r, p, ph)
        BY <3>2, <3>6 DEF Progress, Passed, BothIdle
      <4>2. p # q
        BY <3>6 DEF Before
      <4>3. QED
        BY <1>5, <4>1, <4>2 DEF HeldBack
    <3>7. QED
      BY <2>3, <3>4, <3>5, <3>6 DEF Sent, NormalFrom
  <2>4. QED
    BY <1>2, <2>1, <2>2, <2>3 DEF QueueEffect
<1>8. QED
  BY <1>2, <1>3, <1>4, <1>6, <1>7 DEF Progress

(* Nothing is done before the first queue. *)
LEMMA ProgressStart ==
  ASSUME NEW s, NEW first, NEW ph, NEW fits
  PROVE  Progress(s, s, {}, first, ph, fits)
BY DEF Progress, Sent, SameLinks

LEMMA ProgressLoop ==
  ASSUME RingPort, NEW n \in BOOLEAN, NEW ne \in BOOLEAN, NEW s, Core(s, n, ne),
         NEW first \in Side, NEW ph, NEW fits \in BOOLEAN
  PROVE  Progress(s, loopQueues(s, first, ph, fits), queueName, first, ph, fits)
<1> DEFINE second == OtherSide(first)
           q1 == <<"EXPRESS", first>>
           q2 == <<"EXPRESS", second>>
           q3 == <<"HIGH", first>>
           q4 == <<"HIGH", second>>
           q5 == <<"LOW", first>>
           q6 == <<"LOW", second>>
           s1 == processOneQueue(s, q1, ph, fits)
           s2 == processOneQueue(s1, q2, ph, fits)
           s3 == processOneQueue(s2, q3, ph, fits)
           s4 == processOneQueue(s3, q4, ph, fits)
           s5 == processOneQueue(s4, q5, ph, fits)
           s6 == processOneQueue(s5, q6, ph, fits)
           After(r, done) == Core(r, n, ne) /\ Progress(s, r, done, first, ph, fits)
<1>1. loopQueues(s, first, ph, fits) = s6
  BY DEF loopQueues
<1>2. second \in Side /\ Side = {first, second} /\ first # second
  BY DEF Side, OtherSide
<1>3. /\ q1 \in queueName /\ q2 \in queueName /\ q3 \in queueName
      /\ q4 \in queueName /\ q5 \in queueName /\ q6 \in queueName
  BY <1>2 DEF queueName, Priority
<1>4. queueName = {q1, q2, q3, q4, q5, q6}
  BY <1>2 DEF queueName, Priority
<1>5. /\ q1 \notin {}
      /\ q2 \notin {q1}
      /\ q3 \notin {q1, q2}
      /\ q4 \notin {q1, q2, q3}
      /\ q5 \notin {q1, q2, q3, q4}
      /\ q6 \notin {q1, q2, q3, q4, q5}
  BY <1>2
<1>6. \A p \in queueName :
        /\ ~ Before(p, q1, first)
        /\ Before(p, q2, first) => p \in {q1}
        /\ Before(p, q3, first) => p \in {q1, q2}
        /\ Before(p, q4, first) => p \in {q1, q2, q3}
        /\ Before(p, q5, first) => p \in {q1, q2, q3, q4}
        /\ Before(p, q6, first) => p \in {q1, q2, q3, q4, q5}
  BY <1>2, <1>4 DEF Before
<1>7. /\ q1[1] = "EXPRESS"
      /\ q3[1] # "EXPRESS" /\ q4[1] # "EXPRESS" /\ q5[1] # "EXPRESS" /\ q6[1] # "EXPRESS"
  OBVIOUS
<1>8. ASSUME NEW r, NEW done \in SUBSET queueName, After(r, done),
             NEW q \in queueName, q \notin done,
             \A p \in queueName : Before(p, q, first) => p \in done,
             q[1] = "EXPRESS" => \A p \in done : p[1] = "EXPRESS"
      PROVE  After(processOneQueue(r, q, ph, fits), done \cup {q})
  BY <1>8, ProgressStep
<1>9. After(s, {})
  BY ProgressStart
<1> HIDE DEF second, q1, q2, q3, q4, q5, q6, After
<1>10. After(s1, {q1})
  BY <1>3, <1>5, <1>6, <1>8, <1>9
<1> HIDE DEF s1
<1>11. After(s2, {q1, q2})
  <2>1. After(s2, {q1} \cup {q2})
    BY <1>3, <1>5, <1>6, <1>7, <1>8, <1>10
  <2>2. {q1} \cup {q2} = {q1, q2}
    OBVIOUS
  <2>3. QED
    BY <2>1, <2>2
<1> HIDE DEF s2
<1>12. After(s3, {q1, q2, q3})
  <2>1. After(s3, {q1, q2} \cup {q3})
    BY <1>3, <1>5, <1>6, <1>7, <1>8, <1>11
  <2>2. {q1, q2} \cup {q3} = {q1, q2, q3}
    OBVIOUS
  <2>3. QED
    BY <2>1, <2>2
<1> HIDE DEF s3
<1>13. After(s4, {q1, q2, q3, q4})
  <2>1. After(s4, {q1, q2, q3} \cup {q4})
    BY <1>3, <1>5, <1>6, <1>7, <1>8, <1>12
  <2>2. {q1, q2, q3} \cup {q4} = {q1, q2, q3, q4}
    OBVIOUS
  <2>3. QED
    BY <2>1, <2>2
<1> HIDE DEF s4
<1>14. After(s5, {q1, q2, q3, q4, q5})
  <2>1. After(s5, {q1, q2, q3, q4} \cup {q5})
    BY <1>3, <1>5, <1>6, <1>7, <1>8, <1>13
  <2>2. {q1, q2, q3, q4} \cup {q5} = {q1, q2, q3, q4, q5}
    OBVIOUS
  <2>3. QED
    BY <2>1, <2>2
<1> HIDE DEF s5
<1>15. After(s6, {q1, q2, q3, q4, q5} \cup {q6})
  BY <1>3, <1>5, <1>6, <1>7, <1>8, <1>14
<1>16. {q1, q2, q3, q4, q5} \cup {q6} = queueName
  BY <1>4
<1>17. QED
  BY <1>1, <1>15, <1>16 DEF After

(* The side a mode serves first. *)
FirstSide(s) ==
  CASE schedmode \in {"FCFS", "RING_FIRST"} -> "RING"
    [] schedmode = "INTERNAL_FIRST" -> "INTERNAL"
    [] OTHER -> s.curQueueState

LEMMA ProgressTurned ==
  ASSUME NEW s, NEW r \in SchedulerState, NEW done, NEW first, NEW ph, NEW fits,
         Progress(s, r, done, first, ph, fits), NEW side \in Side
  PROVE  Progress(s, [r EXCEPT !.curQueueState = side], done, first, ph, fits)
<1> DEFINE t == [r EXCEPT !.curQueueState = side]
<1>1. t.queues = r.queues /\ t.nextUpAnotherExp = r.nextUpAnotherExp
  BY DEF SchedulerState
<1>2. SameLinks(t, r)
  BY DEF SchedulerState, SameLinks
<1> HIDE DEF t
<1>3. ASSUME NEW q \in done, Passed(r, q, ph, fits)
      PROVE  Passed(t, q, ph, fits)
  BY <1>1, <1>2, <1>3 DEF Passed, HeldBack, SameLinks, getExpressSendTime
<1>4. Sent(s, t, done, first, ph, fits)
  <2>1. CASE SameLinks(r, s) /\ r.queues = s.queues
    BY <1>1, <1>2, <2>1 DEF SameLinks, Sent
  <2>2. ASSUME NEW f \in Frame, NEW q \in done, ExpressFrom(s, r, q, f, fits)
        PROVE  ExpressFrom(s, t, q, f, fits)
    BY <1>1, <1>2, <2>2 DEF ExpressFrom, OnlyFrom, TakenFrom, SameLinks, ExpressOut
  <2>3. ASSUME NEW f \in Frame, NEW q \in done, NormalFrom(s, r, q, f, first, ph)
        PROVE  NormalFrom(s, t, q, f, first, ph)
    BY <1>1, <1>2, <2>3 DEF NormalFrom, OnlyFrom, TakenFrom, SameLinks, NormalOut, HeldBack
  <2>4. QED
    BY <2>1, <2>2, <2>3 DEF Progress, Sent
<1>5. Progress(s, t, done, first, ph, fits)
  BY <1>1, <1>3, <1>4 DEF Progress
<1>6. QED
  BY <1>5 DEF t

(* What a processing of all queues does, whatever the mode. *)
LEMMA ProcessingOrder ==
  ASSUME RingPort, NEW n \in BOOLEAN, NEW ne \in BOOLEAN, NEW s, Core(s, n, ne),
         NEW ph, NEW fits \in BOOLEAN
  PROVE  Progress(s, processQueues(s, ph, fits), queueName, FirstSide(s), ph, fits)
<1>1. "RING" \in Side /\ "INTERNAL" \in Side /\ s.curQueueState \in Side /\ s \in SchedulerState
  BY DEF Side, Core, SchedulerState
<1>2. CASE schedmode \in {"FCFS", "RING_FIRST"}
  BY <1>1, <1>2, ProgressLoop DEF processQueues, FirstSide
<1>3. CASE schedmode = "INTERNAL_FIRST"
  BY <1>1, <1>3, ProgressLoop DEF processQueues, FirstSide
<1>4. CASE schedmode = "ZIPPER"
  <2> DEFINE r == loopQueues(s, s.curQueueState, ph, fits)
  <2>1. r \in SchedulerState
    BY <1>1, LoopType
  <2>2. Progress(s, r, queueName, s.curQueueState, ph, fits)
    BY <1>1, ProgressLoop
  <2>3. OtherSide(r.curQueueState) \in Side
    BY <2>1, SidesExist DEF SchedulerState
  <2>4. processQueues(s, ph, fits) = [r EXCEPT !.curQueueState = OtherSide(@)]
    BY <1>4 DEF processQueues
  <2>5. FirstSide(s) = s.curQueueState
    BY <1>4 DEF FirstSide
  <2> HIDE DEF r
  <2>6. QED
    BY <2>1, <2>2, <2>3, <2>4, <2>5, ProgressTurned
<1>5. QED
  BY <1>2, <1>3, <1>4, SchedulerAssumption DEF RingPort

-----------------------------------------------------------------------------
(* The port's order properties.                                            *)

(* Three kinds of steps: a frame is enqueued, a handler processes all      *)
(* queues, or nothing is enqueued and nothing sent.                        *)
Enqueues ==
  \E q \in queueName, f \in Frame :
    /\ Enqueued(sched, q, f, sched')
    /\ q[2] = IF schedmode = "FCFS" \/ f.cpu THEN "INTERNAL" ELSE "RING"
    /\ f.id = enqueued + 1
    /\ enqueued' = enqueued + 1

Handles ==
  \E s \in SchedulerState, fits \in BOOLEAN :
    /\ Core(s, notify', notifyExp')
    /\ s.queues = sched.queues
    /\ s.out = sched.out /\ s.outExp = sched.outExp
    /\ sched' = processQueues(s, phase, fits)
    /\ enqueued' = enqueued

Rests ==
  /\ sched'.queues = sched.queues
  /\ Len(sched'.out) <= Len(sched.out)
  /\ Len(sched'.outExp) <= Len(sched.outExp)
  /\ enqueued' = enqueued

LEMMA HandlesWith ==
  ASSUME NEW s, NEW fits \in BOOLEAN, Core(s, notify', notifyExp'), s.queues = sched.queues,
         s.out = sched.out, s.outExp = sched.outExp,
         sched' = processQueues(s, phase, fits), enqueued' = enqueued
  PROVE  Handles
BY Zenon DEF Handles, Core

LEMMA EnqueueShape ==
  ASSUME RingPort, PortInv, NEW kind \in FrameKind, NEW side \in Side, EnqueueFrame(kind, side)
  PROVE  Enqueues
<1> DEFINE f == [id |-> enqueued + 1, prio |-> kind.prio, cpu |-> kind.cpu, len |-> kind.len]
<1>1. sched \in SchedulerState /\ enqueued \in Nat
  BY DEF PortInv, TypeOK
<1>2. f \in Frame /\ f.prio = kind.prio /\ f.id = enqueued + 1 /\ f.cpu = kind.cpu
  BY <1>1, FrameType
<1>3. sched' = enqueueMessage(sched, f, <<kind.prio, side>>) /\ enqueued' = enqueued + 1
  BY DEF EnqueueFrame
<1>4. side = IF kind.cpu THEN "INTERNAL" ELSE "RING"
  BY DEF EnqueueFrame, SideAllowed, RingPort
<1> HIDE DEF f
<1>5. PICK q \in queueName :
        /\ q[2] = IF schedmode = "FCFS" THEN "INTERNAL" ELSE side
        /\ Enqueued(sched, q, f, sched')
  BY <1>1, <1>2, <1>3, EnqueueEffect
<1>6. q[2] = IF schedmode = "FCFS" \/ f.cpu THEN "INTERNAL" ELSE "RING"
  BY <1>2, <1>4, <1>5
<1>7. QED
  BY <1>2, <1>3, <1>5, <1>6 DEF Enqueues

LEMMA HandlerShape ==
  ASSUME RingPort, PortInv, NEW fits \in BOOLEAN,
         \/ ProcessSelfMessage(fits)
         \/ TokenSelfMessage(fits)
         \/ TimeslotSelfMessage(fits)
         \/ InterfaceIdle(fits)
         \/ ExpressInterfaceIdle(fits)
  PROVE  Handles
<1>1. Core(sched, notify, notifyExp) /\ Fresh(sched) /\ sched \in SchedulerState
  BY DEF PortInv, TypeOK
<1>2. notify \in BOOLEAN /\ notifyExp \in BOOLEAN
  BY DEF PortInv, TypeOK
<1>3. CASE ProcessSelfMessage(fits)
  BY <1>1, <1>3, HandlesWith DEF ProcessSelfMessage
<1>4. CASE TokenSelfMessage(fits)
  <2> DEFINE s == resetNotifiedToken([sched EXCEPT !.timerToken = FALSE])
  <2>1. Core(s, notify, notifyExp)
    BY <1>1, TokenDelivered
  <2>2. s.queues = sched.queues /\ s.out = sched.out /\ s.outExp = sched.outExp
    BY <1>1 DEF resetNotifiedToken, SchedulerState
  <2>3. sched' = processQueues(s, phase, fits) /\ UNCHANGED <<notify, notifyExp, enqueued>>
    BY <1>4 DEF TokenSelfMessage
  <2> HIDE DEF s
  <2>4. QED
    BY <2>1, <2>2, <2>3, HandlesWith
<1>5. CASE TimeslotSelfMessage(fits)
  <2> DEFINE s == resetNotifiedTimeslot([sched EXCEPT !.timerTimeslot = FALSE])
  <2>1. Core(s, notify, notifyExp)
    BY <1>1, TimeslotDelivered
  <2>2. s.queues = sched.queues /\ s.out = sched.out /\ s.outExp = sched.outExp
    BY <1>1 DEF resetNotifiedTimeslot, SchedulerState
  <2>3. sched' = processQueues(s, phase, fits) /\ UNCHANGED <<notify, notifyExp, enqueued>>
    BY <1>5 DEF TimeslotSelfMessage
  <2> HIDE DEF s
  <2>4. QED
    BY <2>1, <2>2, <2>3, HandlesWith
<1>6. CASE InterfaceIdle(fits)
  <2> DEFINE s == unlock(sched)
  <2>1. notify = TRUE /\ notify' = FALSE /\ UNCHANGED <<notifyExp, enqueued>>
    BY <1>2, <1>6 DEF InterfaceIdle
  <2>2. Core(s, FALSE, notifyExp)
    BY <1>1, <1>2, <2>1, UnlockKeeps
  <2>3. s.queues = sched.queues /\ s.out = sched.out /\ s.outExp = sched.outExp
    BY <1>1 DEF unlock, SchedulerState
  <2>4. sched' = processQueues(s, phase, fits)
    BY <1>6 DEF InterfaceIdle
  <2> HIDE DEF s
  <2>5. QED
    BY <2>1, <2>2, <2>3, <2>4, HandlesWith
<1>7. CASE ExpressInterfaceIdle(fits)
  <2> DEFINE s == unlockExp(sched)
  <2>1. notifyExp = TRUE /\ notifyExp' = FALSE /\ UNCHANGED <<notify, enqueued>>
    BY <1>2, <1>7 DEF ExpressInterfaceIdle
  <2>2. Core(s, notify, FALSE)
    BY <1>1, <1>2, <2>1, UnlockExpKeeps
  <2>3. s.queues = sched.queues /\ s.out = sched.out /\ s.outExp = sched.outExp
    BY <1>1 DEF unlockExp, SchedulerState
  <2>4. sched' = processQueues(s, phase, fits)
    BY <1>7 DEF ExpressInterfaceIdle
  <2> HIDE DEF s
  <2>5. QED
    BY <2>1, <2>2, <2>3, <2>4, HandlesWith
<1>8. QED
  BY <1>3, <1>4, <1>5, <1>6, <1>7

LEMMA StepShape ==
  ASSUME RingPort, PortInv, [Next]_vars
  PROVE  Enqueues \/ Handles \/ Rests
<1>1. sched \in SchedulerState
  BY DEF PortInv, TypeOK
<1>2. /\ sched.out \in Seq(Frame) /\ sched.outExp \in Seq(Frame)
      /\ Len(sched.out) \in Nat /\ Len(sched.outExp) \in Nat
  BY <1>1 DEF SchedulerState
<1>3. ASSUME NEW kind \in FrameKind, NEW side \in Side, EnqueueFrame(kind, side)
      PROVE  Enqueues
  BY <1>3, EnqueueShape
<1>4. ASSUME NEW fits \in BOOLEAN,
             \/ ProcessSelfMessage(fits)
             \/ TokenSelfMessage(fits)
             \/ TimeslotSelfMessage(fits)
             \/ InterfaceIdle(fits)
             \/ ExpressInterfaceIdle(fits)
      PROVE  Handles
  BY <1>4, HandlerShape
<1>5. CASE Transmitted
  <2>1. Len(Tail(sched.out)) <= Len(sched.out)
    BY <1>2, <1>5 DEF Transmitted
  <2>2. sched'.queues = sched.queues /\ sched'.out = Tail(sched.out) /\ sched'.outExp = sched.outExp
    BY <1>1, <1>5 DEF Transmitted, SchedulerState
  <2>3. QED
    BY <1>2, <1>5, <2>1, <2>2 DEF Transmitted, Rests
<1>6. CASE ExpressTransmitted
  <2>1. Len(Tail(sched.outExp)) <= Len(sched.outExp)
    BY <1>2, <1>6 DEF ExpressTransmitted
  <2>2. sched'.queues = sched.queues /\ sched'.out = sched.out /\ sched'.outExp = Tail(sched.outExp)
    BY <1>1, <1>6 DEF ExpressTransmitted, SchedulerState
  <2>3. QED
    BY <1>2, <1>6, <2>1, <2>2 DEF ExpressTransmitted, Rests
<1>7. CASE CreditGrows
  <2>1. sched'.queues = sched.queues /\ sched'.out = sched.out /\ sched'.outExp = sched.outExp
    BY <1>1, <1>7 DEF CreditGrows, SchedulerState
  <2>2. QED
    BY <1>2, <1>7, <2>1 DEF CreditGrows, Rests
<1>8. CASE PhaseBoundary \/ TokenTime \/ UNCHANGED vars
  <2>1. sched' = sched /\ enqueued' = enqueued
    BY <1>8 DEF PhaseBoundary, TokenTime, vars
  <2>2. QED
    BY <1>2, <2>1 DEF Rests
<1>9. QED
  BY <1>3, <1>4, <1>5, <1>6, <1>7, <1>8 DEF Next

(* A processing seen from the port.                                        *)
NormalStart(q, f, first) ==
  /\ q[1] # "EXPRESS"
  /\ sched.out = <<>> /\ sched'.out = <<f>> /\ sched'.outExp = sched.outExp
  /\ OnlyFrom(sched, sched', q, f)
  /\ timeslotIsValid(q, phase)
  /\ \A p \in queueName : Before(p, q, first) => HeldBack(sched', p, phase)
  /\ schedmode = "RING_FIRST" => first = "RING"
  /\ schedmode = "INTERNAL_FIRST" => first = "INTERNAL"

ExpressStart(q, f) ==
  /\ q[1] = "EXPRESS"
  /\ sched.outExp = <<>> /\ sched'.outExp = <<f>> /\ sched'.out = sched.out
  /\ OnlyFrom(sched, sched', q, f)

LEMMA HandlesShape ==
  ASSUME RingPort, PortInv, PortInv', Handles
  PROVE  /\ enqueued' = enqueued
         /\ \/ /\ sched'.queues = sched.queues
               /\ sched'.out = sched.out /\ sched'.outExp = sched.outExp
            \/ \E q \in queueName, f \in Frame :
                 ExpressStart(q, f) \/ \E first \in Side : NormalStart(q, f, first)
<1>1. PICK s \in SchedulerState, fits \in BOOLEAN :
        /\ Core(s, notify', notifyExp')
        /\ s.queues = sched.queues
        /\ s.out = sched.out /\ s.outExp = sched.outExp
        /\ sched' = processQueues(s, phase, fits)
        /\ enqueued' = enqueued
  BY DEF Handles
<1>2. notify' \in BOOLEAN /\ notifyExp' \in BOOLEAN
  BY DEF PortInv, TypeOK
<1> DEFINE first == FirstSide(s)
<1>3. Progress(s, sched', queueName, first, phase, fits)
  BY <1>1, <1>2, ProcessingOrder
<1>4. /\ first \in Side
      /\ schedmode = "RING_FIRST" => first = "RING"
      /\ schedmode = "INTERNAL_FIRST" => first = "INTERNAL"
  BY SidesExist DEF FirstSide, SchedulerState
<1> HIDE DEF first
<1>5. CASE SameLinks(sched', s) /\ sched'.queues = s.queues
  BY <1>1, <1>5 DEF SameLinks
<1>6. ASSUME NEW f \in Frame, NEW q \in queueName, ExpressFrom(s, sched', q, f, fits)
      PROVE  ExpressStart(q, f)
  BY <1>1, <1>6 DEF ExpressFrom, ExpressStart, ExpressOut, OnlyFrom, TakenFrom
<1>7. ASSUME NEW f \in Frame, NEW q \in queueName, NormalFrom(s, sched', q, f, first, phase)
      PROVE  NormalStart(q, f, first)
  BY <1>1, <1>4, <1>7 DEF NormalFrom, NormalStart, NormalOut, OnlyFrom, TakenFrom
<1>8. QED
  BY <1>1, <1>3, <1>4, <1>5, <1>6, <1>7 DEF Progress, Sent

LEMMA StartShape ==
  ASSUME RingPort, PortInv, PortInv', [Next]_vars
  PROVE  /\ Starts => \E q \in queueName, f \in Frame, first \in Side : NormalStart(q, f, first)
         /\ StartsExpress => \E q \in queueName, f \in Frame : ExpressStart(q, f)
<1>1. Enqueues \/ Handles \/ Rests
  BY StepShape
<1>2. Len(sched.out) \in Nat /\ Len(sched.outExp) \in Nat
  BY DEF PortInv, TypeOK, SchedulerState
<1>3. CASE Enqueues
  BY <1>2, <1>3 DEF Enqueues, Enqueued, SameLinks, Starts, StartsExpress
<1>4. CASE Rests
  <2>1. Len(sched'.out) \in Nat /\ Len(sched'.outExp) \in Nat
    BY DEF PortInv, TypeOK, SchedulerState
  <2>2. QED
    BY <1>2, <1>4, <2>1 DEF Rests, Starts, StartsExpress
<1>5. CASE Handles
  <2>1. ASSUME NEW q \in queueName, NEW f \in Frame, ExpressStart(q, f)
        PROVE  ~ Starts
    BY <1>2, <2>1 DEF ExpressStart, Starts
  <2>2. ASSUME NEW q \in queueName, NEW f \in Frame, NEW first \in Side, NormalStart(q, f, first)
        PROVE  ~ StartsExpress
    BY <1>2, <2>2 DEF NormalStart, StartsExpress
  <2>3. CASE sched'.out = sched.out /\ sched'.outExp = sched.outExp
    BY <1>2, <2>3 DEF Starts, StartsExpress
  <2>4. QED
    BY <1>5, <2>1, <2>2, <2>3, HandlesShape
<1>6. QED
  BY <1>1, <1>3, <1>4, <1>5

LEMMA LastOfOne == ASSUME NEW f PROVE Last(<<f>>) = f
BY DEF Last

(* Strict priority between the classes holds in every mode, and time slots *)
(* are its only exception (loopQueues and the branches of processOneQueue).*)
THEOREM PrioritiesAreStrict == ASSUME RingPort PROVE SafeSpec => StrictPriority
<1>1. ASSUME PortInv, PortInv', [Next]_vars
      PROVE  [StartRespectsPriority]_vars
  <2>1. SUFFICES ASSUME Starts, NEW p \in queueName, sched'.queues[p] # <<>>,
                        Rank(p[1]) < Rank(Last(sched'.out).prio)
                 PROVE  p[1] = "HIGH" /\ ~ timeslotIsValid(p, phase)
    BY DEF StartRespectsPriority
  <2>2. PICK q \in queueName, f \in Frame, first \in Side : NormalStart(q, f, first)
    BY <1>1, <2>1, StartShape
  <2>3. Last(sched'.out) = f /\ f.prio = q[1] /\ q[1] # "EXPRESS"
    BY <2>2, LastOfOne DEF NormalStart, OnlyFrom, TakenFrom
  <2>4. q[1] \in Priority /\ p[1] \in Priority
    BY DEF queueName
  <2>5. p[1] # "LOW" /\ Before(p, q, first)
    BY <2>1, <2>3, <2>4 DEF Rank, Before, Priority
  <2>6. Head(sched'.queues[p]).prio = p[1]
    BY <1>1, <2>1, SortedFront DEF PortInv, Core
  <2>7. HeldBack(sched', p, phase)
    BY <2>2, <2>5 DEF NormalStart
  <2>8. ~ timeslotIsValid(p, phase)
    BY <2>1, <2>5, <2>6, <2>7 DEF HeldBack, Limited
  <2>9. QED
    BY <2>8 DEF timeslotIsValid
<1>2. QED
  BY <1>1, PortInvAlways, PTL DEF SafeSpec, StrictPriority

-----------------------------------------------------------------------------
(* The order within a class.                                               *)

(* The frames sq of queue q, numbered up to k, stand in the order of their *)
(* numbers and on the side of their origin; FCFS keeps one side only.      *)
Filed(sq, q, k) ==
  \A i \in DOMAIN sq :
    /\ sq[i].id <= k
    /\ q[2] = IF schedmode = "FCFS" \/ sq[i].cpu THEN "INTERNAL" ELSE "RING"
    /\ \A j \in DOMAIN sq : i < j => sq[i].id < sq[j].id

LEMMA FiledAppend ==
  ASSUME NEW k \in Nat, NEW q, NEW sq \in Seq(Frame), Filed(sq, q, k),
         NEW f \in Frame, f.id = k + 1,
         q[2] = IF schedmode = "FCFS" \/ f.cpu THEN "INTERNAL" ELSE "RING"
  PROVE  Filed(Append(sq, f), q, k + 1)
<1> DEFINE r == Append(sq, f)
<1>1. /\ Len(sq) \in Nat /\ DOMAIN sq = 1 .. Len(sq) /\ DOMAIN r = 1 .. Len(sq) + 1
      /\ \A i \in DOMAIN sq : r[i] = sq[i] /\ sq[i] \in Frame
      /\ r[Len(sq) + 1] = f
  OBVIOUS
<1> HIDE DEF r
<1>2. ASSUME NEW i \in DOMAIN r
      PROVE  /\ r[i].id <= k + 1
             /\ q[2] = IF schedmode = "FCFS" \/ r[i].cpu THEN "INTERNAL" ELSE "RING"
  <2>1. CASE i \in DOMAIN sq
    <3>1. sq[i].id <= k /\ sq[i].id \in Nat /\ r[i] = sq[i]
      BY <1>1, <2>1 DEF Filed, Frame
    <3>2. q[2] = IF schedmode = "FCFS" \/ sq[i].cpu THEN "INTERNAL" ELSE "RING"
      BY <2>1 DEF Filed
    <3>3. QED
      BY <3>1, <3>2
  <2>2. CASE i = Len(sq) + 1
    BY <1>1, <2>2
  <2>3. QED
    BY <1>1, <2>1, <2>2
<1>3. ASSUME NEW i \in DOMAIN r, NEW j \in DOMAIN r, i < j
      PROVE  r[i].id < r[j].id
  <2>1. i \in DOMAIN sq
    BY <1>1, <1>3
  <2>2. CASE j \in DOMAIN sq
    BY <1>1, <1>3, <2>1, <2>2 DEF Filed
  <2>3. CASE j = Len(sq) + 1
    <3>1. sq[i].id <= k /\ sq[i].id \in Nat
      BY <1>1, <2>1 DEF Filed, Frame
    <3>2. QED
      BY <1>1, <2>1, <2>3, <3>1
  <2>4. QED
    BY <1>1, <2>2, <2>3
<1>4. QED
  BY <1>2, <1>3 DEF Filed, r

LEMMA FiledTail ==
  ASSUME NEW k, NEW q, NEW sq \in Seq(Frame), sq # <<>>, Filed(sq, q, k)
  PROVE  /\ Filed(Tail(sq), q, k)
         /\ \A i \in DOMAIN Tail(sq) : Tail(sq)[i].id > Head(sq).id
<1>1. \A i \in DOMAIN Tail(sq) : i \in Int /\ i >= 1 /\ i + 1 \in DOMAIN sq /\ Tail(sq)[i] = sq[i + 1]
  <2>1. Tail(sq) \in Seq(Frame) /\ Len(Tail(sq)) \in Nat
    OBVIOUS
  <2>2. QED
    BY <2>1, TailShifts
<1>2. 1 \in DOMAIN sq /\ Head(sq) = sq[1] /\ Len(sq) \in Nat
  OBVIOUS
<1>3. ASSUME NEW i \in DOMAIN Tail(sq)
      PROVE  Tail(sq)[i].id > Head(sq).id
  <2>1. sq[1].id < sq[i + 1].id
    BY <1>1, <1>2 DEF Filed
  <2>2. sq[1] \in Frame /\ sq[i + 1] \in Frame
    BY <1>1, <1>2
  <2>3. QED
    BY <1>1, <1>2, <2>1, <2>2 DEF Frame
<1>4. ASSUME NEW i \in DOMAIN Tail(sq), NEW j \in DOMAIN Tail(sq), i < j
      PROVE  Tail(sq)[i].id < Tail(sq)[j].id
  BY <1>1, <1>4 DEF Filed
<1>5. \A i \in DOMAIN Tail(sq) :
        /\ Tail(sq)[i].id <= k
        /\ q[2] = IF schedmode = "FCFS" \/ Tail(sq)[i].cpu THEN "INTERNAL" ELSE "RING"
  BY <1>1 DEF Filed
<1>6. QED
  BY <1>3, <1>4, <1>5 DEF Filed

LEMMA FiledLater ==
  ASSUME NEW k \in Nat, NEW q, NEW sq \in Seq(Frame), Filed(sq, q, k)
  PROVE  Filed(sq, q, k + 1)
<1>1. \A i \in DOMAIN sq : sq[i] \in Frame
  OBVIOUS
<1>2. ASSUME NEW i \in DOMAIN sq, sq[i].id <= k
      PROVE  sq[i].id <= k + 1
  BY <1>1, <1>2 DEF Frame
<1>3. QED
  BY <1>2 DEF Filed

OrderInv == PortInv /\ \A q \in queueName : Filed(sched.queues[q], q, enqueued)

LEMMA OrderInductive ==
  ASSUME RingPort, OrderInv, PortInv', [Next]_vars, NEW p \in queueName
  PROVE  Filed(sched'.queues[p], p, enqueued')
<1>1. Enqueues \/ Handles \/ Rests
  BY StepShape DEF OrderInv
<1>2. /\ sched.queues \in [queueName -> Seq(Frame)] /\ enqueued \in Nat
      /\ Filed(sched.queues[p], p, enqueued)
  BY DEF OrderInv, PortInv, TypeOK, SchedulerState
<1>3. CASE Enqueues
  <2>1. PICK q \in queueName, f \in Frame :
          /\ Enqueued(sched, q, f, sched')
          /\ q[2] = IF schedmode = "FCFS" \/ f.cpu THEN "INTERNAL" ELSE "RING"
          /\ f.id = enqueued + 1
          /\ enqueued' = enqueued + 1
    BY <1>3 DEF Enqueues
  <2>2. CASE p = q
    <3>1. sched'.queues[p] = Append(sched.queues[p], f) /\ sched.queues[p] \in Seq(Frame)
      BY <1>2, <2>1, <2>2 DEF Enqueued
    <3>2. QED
      BY <1>2, <2>1, <2>2, <3>1, FiledAppend
  <2>3. CASE p # q
    <3>1. sched'.queues[p] = sched.queues[p] /\ sched.queues[p] \in Seq(Frame)
      BY <1>2, <2>1, <2>3 DEF Enqueued
    <3>2. QED
      BY <1>2, <2>1, <3>1, FiledLater
  <2>4. QED
    BY <2>2, <2>3
<1>4. CASE Rests
  BY <1>2, <1>4 DEF Rests
<1>5. CASE Handles
  <2>1. enqueued' = enqueued
    BY <1>5, HandlesShape DEF OrderInv
  <2>2. \/ sched'.queues = sched.queues
        \/ \E q \in queueName, f \in Frame : OnlyFrom(sched, sched', q, f)
    BY <1>5, HandlesShape DEF OrderInv, ExpressStart, NormalStart
  <2>3. CASE sched'.queues = sched.queues
    BY <1>2, <2>1, <2>3
  <2>4. ASSUME NEW q \in queueName, NEW f \in Frame, OnlyFrom(sched, sched', q, f)
        PROVE  Filed(sched'.queues[p], p, enqueued)
    <3>1. CASE p = q
      <4>1. /\ sched.queues[p] # <<>> /\ sched.queues[p] \in Seq(Frame)
            /\ sched'.queues[p] = Tail(sched.queues[p])
        BY <1>2, <2>4, <3>1 DEF OnlyFrom, TakenFrom
      <4>2. QED
        BY <1>2, <4>1, FiledTail
    <3>2. CASE p # q
      BY <1>2, <2>4, <3>2 DEF OnlyFrom
    <3>3. QED
      BY <3>1, <3>2
  <2>5. QED
    BY <2>1, <2>2, <2>3, <2>4
<1>6. QED
  BY <1>1, <1>3, <1>4, <1>5

LEMMA OrderInvAlways == ASSUME RingPort PROVE SafeSpec => []OrderInv
<1>1. Init => OrderInv
  <2>1. Init => \A q \in queueName : sched.queues[q] = <<>>
    BY DEF Init, initScheduler
  <2>2. ASSUME NEW q \in queueName
        PROVE  Filed(<<>>, q, enqueued)
    BY DEF Filed
  <2>3. QED
    BY <2>1, <2>2, InitPort DEF OrderInv
<1>2. OrderInv /\ [Next]_vars => OrderInv'
  BY PortInductive, OrderInductive DEF OrderInv
<1>3. QED
  BY <1>1, <1>2, PTL DEF SafeSpec

LEMMA SameClassIsOpen ==
  ASSUME NEW p, NEW q, p[1] = q[1], NEW ph, timeslotIsValid(q, ph)
  PROVE  timeslotIsValid(p, ph)
BY DEF timeslotIsValid

(* Within a class the mode decides which side goes first, and only the     *)
(* limiter makes an exception (ringFirstSortOrder, internalFirstSortOrder).*)
THEOREM SidesAreOrdered == ASSUME RingPort PROVE SafeSpec => SideOrder
<1>1. ASSUME OrderInv, OrderInv', [Next]_vars
      PROVE  [StartRespectsSide]_vars
  <2>1. SUFFICES ASSUME Starts
                 PROVE  StartRespectsSide
    BY DEF StartRespectsSide
  <2>2. PICK q \in queueName, f \in Frame, first \in Side : NormalStart(q, f, first)
    BY <1>1, <2>1, StartShape DEF OrderInv
  <2>3. Last(sched'.out) = f /\ f.prio = q[1] /\ f = Head(sched.queues[q]) /\ sched.queues[q] # <<>>
    BY <2>2, LastOfOne DEF NormalStart, OnlyFrom, TakenFrom
  <2>4. schedmode # "FCFS" => q[2] = IF f.cpu THEN "INTERNAL" ELSE "RING"
    <3>1. sched.queues[q] \in Seq(Frame) /\ Filed(sched.queues[q], q, enqueued)
      BY <1>1 DEF OrderInv, PortInv, TypeOK, SchedulerState
    <3>2. 1 \in DOMAIN sched.queues[q] /\ f = sched.queues[q][1]
      BY <2>3, <3>1
    <3>3. QED
      BY <3>1, <3>2 DEF Filed
  <2> DEFINE other == <<f.prio, OtherSide(q[2])>>
  <2>5. other \in queueName /\ other[1] = q[1] /\ other[2] # q[2]
    BY <2>3 DEF queueName, Side, OtherSide
  <2>6. schedmode # "FCFS" => other = <<f.prio, IF f.cpu THEN "RING" ELSE "INTERNAL">>
    BY <2>4 DEF OtherSide
  <2> HIDE DEF other
  <2>7. other[2] = first => sched'.queues[other] = <<>> \/ Limited(Head(sched'.queues[other]))
    <3>1. SUFFICES ASSUME other[2] = first
                   PROVE  sched'.queues[other] = <<>> \/ Limited(Head(sched'.queues[other]))
      OBVIOUS
    <3>2. HeldBack(sched', other, phase)
      BY <2>2, <2>5, <3>1 DEF NormalStart, Before
    <3>3. timeslotIsValid(other, phase)
      BY <2>2, <2>5, SameClassIsOpen DEF NormalStart
    <3>4. QED
      BY <3>2, <3>3 DEF HeldBack
  <2>8. ASSUME schedmode = "RING_FIRST", f.cpu
        PROVE  sched'.queues[<<f.prio, "RING">>] = <<>>
    <3>1. other = <<f.prio, "RING">> /\ other[2] = first
      BY <2>2, <2>6, <2>8 DEF NormalStart
    <3>2. SUFFICES ASSUME sched'.queues[other] # <<>>
                   PROVE  FALSE
      BY <3>1
    <3>3. sched'.queues[other] \in Seq(Frame) /\ Filed(sched'.queues[other], other, enqueued')
      BY <1>1, <2>5 DEF OrderInv, PortInv, TypeOK, SchedulerState
    <3>4. ~ Head(sched'.queues[other]).cpu
      <4>1. 1 \in DOMAIN sched'.queues[other] /\ Head(sched'.queues[other]) = sched'.queues[other][1]
        BY <3>2, <3>3
      <4>2. QED
        BY <2>8, <3>1, <3>3, <4>1 DEF Filed
    <3>5. QED
      BY <2>7, <3>1, <3>2, <3>4 DEF Limited
  <2>9. ASSUME schedmode = "INTERNAL_FIRST", ~ f.cpu
        PROVE  LET waiting == sched'.queues[<<f.prio, "INTERNAL">>]
               IN waiting = <<>> \/ Limited(Head(waiting))
    BY <2>2, <2>6, <2>7, <2>9 DEF NormalStart
  <2>10. QED
    BY <2>3, <2>8, <2>9 DEF StartRespectsSide
<1>2. QED
  BY <1>1, OrderInvAlways, PTL DEF SafeSpec, SideOrder

(* In FCFS mode no frame overtakes another of its class, on either         *)
(* interface (enqueueMessage drops the side, and the queues are FIFOs).    *)
THEOREM FcfsKeepsOrder ==
  ASSUME RingPort, schedmode = "FCFS" PROVE SafeSpec => FirstComeFirstServed
<1>1. ASSUME OrderInv, OrderInv', [Next]_vars
      PROVE  [StartRespectsArrival]_vars
  <2>1. ASSUME NEW q \in queueName, NEW f \in Frame, OnlyFrom(sched, sched', q, f),
               NEW p \in queueName, p[1] = f.prio, NEW i \in DOMAIN sched'.queues[p]
        PROVE  sched'.queues[p][i].id > f.id
    <3>1. /\ sched.queues[q] \in Seq(Frame) /\ sched.queues[q] # <<>>
          /\ f = Head(sched.queues[q]) /\ f.prio = q[1]
          /\ sched'.queues[q] = Tail(sched.queues[q])
          /\ Filed(sched.queues[q], q, enqueued)
      BY <1>1, <2>1 DEF OrderInv, PortInv, TypeOK, SchedulerState, OnlyFrom, TakenFrom
    <3>2. p[2] = "INTERNAL"
      BY <1>1, <2>1 DEF OrderInv, Filed
    <3>3. q[2] = "INTERNAL"
      <4>1. 1 \in DOMAIN sched.queues[q]
        BY <3>1
      <4>2. QED
        BY <3>1, <4>1 DEF Filed
    <3>4. p = q
      BY <2>1, <3>1, <3>2, <3>3 DEF queueName
    <3>5. sched'.queues[p] = Tail(sched.queues[q]) /\ i \in DOMAIN Tail(sched.queues[q])
      BY <2>1, <3>1, <3>4
    <3>6. Tail(sched.queues[q])[i].id > Head(sched.queues[q]).id
      BY <3>1, <3>5, FiledTail
    <3>7. QED
      BY <3>1, <3>5, <3>6
  <2>2. Starts => \E q \in queueName, f \in Frame :
                    Last(sched'.out) = f /\ OnlyFrom(sched, sched', q, f)
    BY <1>1, StartShape, LastOfOne DEF OrderInv, NormalStart
  <2>3. StartsExpress => \E q \in queueName, f \in Frame :
                           Last(sched'.outExp) = f /\ OnlyFrom(sched, sched', q, f)
    BY <1>1, StartShape, LastOfOne DEF OrderInv, ExpressStart
  <2>4. QED
    BY <2>1, <2>2, <2>3 DEF StartRespectsArrival
<1>2. QED
  BY <1>1, OrderInvAlways, PTL DEF SafeSpec, FirstComeFirstServed
=============================================================================
