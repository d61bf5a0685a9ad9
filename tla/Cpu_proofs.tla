------------------------------ MODULE Cpu_proofs ------------------------------
(***************************************************************************)
(* What the processors of project PA14 promise, for any configuration, any *)
(* nodes and any delay of the network (Cpu, MCCpu): loads are kept to,     *)
(* frames are sent on schedule and logged once, they stay whole, and only  *)
(* the patterns that ask for it make the kernel schedule into the past.    *)
(*                                                                         *)
(* The invariants are layered: Base says what is pending, Underway what is *)
(* under way; each property then rests on one relation of its own, which a *)
(* sender's counter has to its pending messages.                           *)
(***************************************************************************)
EXTENDS MCCpu, FiniteSetTheorems, TLAPS

(* A pattern read from a configuration. *)
TypedPattern(d) ==
  /\ d.startTime \in Int /\ d.stopTime \in Int
  /\ d.last \in Int /\ d.maxLast \in Int
  /\ d.interval \in Int /\ d.maxInterval \in Int
  /\ d.epsilon \in Int /\ d.standardabweichung \in Int
  /\ d.paketgroesse \in Nat
  /\ d.frameprio \in framePriority

(* A pattern that makes the kernel schedule into the past. *)
AsksForThePast(d) ==
  \/ ~ scheduleMessage(d) \/ d.startTime < 0
  \/ d.interval > 0 /\ (d.last < 0 \/ (d.last > 0 /\ d.maxLast < 0))

(* The message a pending one was when it was loaded. *)
Loaded(m) == cpuSelfMessage(m.cpu, m.place, m.data)

(* What the delay logger keeps of the delays of one priority.              *)
Stats == [count : Nat, min : Int, max : Int]

(* Types, as far as the proofs need them.                                  *)
TypeInv ==
  /\ rootelement \in Configuration
  /\ now \in Nat /\ messageCount \in Nat /\ thrown \in BOOLEAN
  /\ sequenceNumber \in [Node -> Nat] /\ numFramesSent \in [Node -> Nat]

(* A pending message is one that was loaded, at another time perhaps, and  *)
(* each is pending once.                                                   *)
PendingInv ==
  /\ \A m \in pending :
       /\ m = [cpu |-> m.cpu, place |-> m.place, data |-> m.data, at |-> m.at]
       /\ m.cpu \in Node /\ m.at \in Int
       /\ Loaded(m) \in loadXMLFile(m.cpu)
  /\ \A m1, m2 \in pending : m1.cpu = m2.cpu /\ m1.place = m2.place => m1 = m2

(* While the simulation goes on every pattern was accepted and no message  *)
(* is overdue.                                                             *)
NothingIsLate ==
  ~ thrown => /\ \A n \in Node : \A m \in loadXMLFile(n) :
                   scheduleMessage(m.data) /\ m.data.startTime >= 0
              /\ \A m \in pending : m.at >= now

(* What every other invariant rests on.                                    *)
Base == TypeInv /\ PendingInv /\ NothingIsLate /\ OnlyNegativeLoadsThrow

(* When a pending message is due: at its start, or an interval after a     *)
(* time before its stop.                                                   *)
PendingEnds == \A m \in pending : thrown \/ \E t \in Ends(m.data) : m.at <= t

(* A frame as generateOnePacket builds it, message in message. *)
Data(d, counter) ==
  [class |-> "dataMessage", length |-> d.paketgroesse, inside |-> <<>>, counter |-> counter]
Hsr(d, number, counter) ==
  [class |-> "hsrMessage", length |-> d.paketgroesse + 6, inside |-> <<Data(d, counter)>>,
   ownEtherType |-> "0x0800", path |-> 2, sequencenumber |-> number]
Vlan(d, number, counter) ==
  [class |-> "vlanMessage", length |-> d.paketgroesse + 6,
   inside |-> <<Hsr(d, number, counter)>>,
   ownEtherType |-> "0x88FB", user_priority |-> d.frameprio, preemptionDelay |-> 0]
Whole(n, d, number, counter, t) ==
  [class |-> "EthernetIIFrame", length |-> d.paketgroesse + 24,
   inside |-> <<Vlan(d, number, counter)>>,
   etherType |-> "0x8100", dest |-> d.destination, src |-> n, creationTime |-> t]

(* The number of the data message inside three others.                     *)
Counter(f) == f.inside[1].inside[1].inside[1].counter

(* What is known of a copy under way: its frame is one a processor made    *)
(* from a pattern of its own, at most MaxDelay ago.                        *)
Travels(c, n, d, number, counter, t) ==
  /\ c = [cpu |-> c.cpu, frame |-> Whole(n, d, number, counter, t)]
  /\ counter < messageCount
  /\ t <= now /\ now - t <= MaxDelay
  /\ \E e \in Ends(d) : t <= e

(* Every copy under way travels like this.                                 *)
Underway ==
  \A c \in flight : \E n \in Node : \E d \in Patterns(n) :
    \E number, counter, t \in Nat : Travels(c, n, d, number, counter, t)

(* Why frames stay whole and the simulation ends.                          *)
FlightInv == Base /\ PendingEnds /\ Underway

(* The load a pattern never asks more than.                                *)
MaxLoad(d) == IF d.sendBehavior = "UNIFORM_LOADGEN" /\ d.maxLast > d.last
              THEN d.maxLast ELSE d.last

(* A sender with one pattern that states a load.                           *)
Restricted(n, m) ==
  /\ loadXMLFile(n) = {m} /\ m.data.sendBehavior \in {"CONSTANT_LOADGEN", "UNIFORM_LOADGEN"}
  /\ m.data.last > 0

(* k frames fit into the time up to the next one, and k ticks of rounding. *)
Keeps(k, d, time) ==
  IF k = 0 THEN time = d.startTime
  ELSE k * (d.paketgroesse + 32) < MaxLoad(d) * (time - d.startTime + k)

(* The statement of LoadIsKept about one sender.                           *)
KeptBy(n, d) ==
  LET k == numFramesSent[n] - 1
  IN k > 0 => k * (d.paketgroesse + 32) < MaxLoad(d) * (now - d.startTime + k)

(* KeptBy is not inductive: the next frame must fit when it is due.        *)
LoadInv ==
  \A n \in Node : \A m0 \in loadXMLFile(n) : Restricted(n, m0) =>
    /\ KeptBy(n, m0.data)
    /\ \A m \in pending : m.cpu = n /\ ~ thrown => Keeps(numFramesSent[n], m0.data, m.at)

(* A load generator that waits for i each time.                            *)
Every(d, i) == Intervals(d) = {i}

(* The message of a pattern, pending or as loaded.                         *)
SameMessage(q, m) == q.cpu = m.cpu /\ q.place = m.place

(* After k frames the next is due at that time.                            *)
Ongoing(d, k, at) ==
  /\ k > 0 => d.sendBehavior # "STD"
  /\ k = 0 => at = d.startTime
  /\ d.sendBehavior # "STD" =>
       \A i \in Intervals(d) : Every(d, i) =>
         /\ at = d.startTime + k * i
         /\ k > 0 => /\ d.startTime + (k - 1) * i <= now
                     /\ d.startTime + (k - 1) * i < d.stopTime

(* All frames are sent: k of them before stopTime, the next would be due   *)
(* no earlier than that.                                                   *)
Finished(d, k) ==
  /\ d.sendBehavior = "STD" => k = 1 /\ d.startTime <= now
  /\ d.sendBehavior # "STD" =>
       /\ k > 0 /\ d.stopTime <= now
       /\ \A i \in Intervals(d) : Every(d, i) =>
            d.startTime + (k - 1) * i < d.stopTime /\ d.stopTime <= d.startTime + k * i

(* A pattern goes on, or its message has left.                             *)
Progress(m, k) ==
  \/ \E q \in pending : SameMessage(q, m) /\ Ongoing(m.data, k, q.at)
  \/ (\A q \in pending : ~ SameMessage(q, m)) /\ Finished(m.data, k)

(* A pattern that leaves nothing to chance.                                *)
Steady(d) == d.sendBehavior = "STD" \/ \E i \in Intervals(d) : Every(d, i)

(* Its frames, by the place of the pattern and a number.                   *)
Numbered(own, c) == UNION {{m.place} \X (1 .. c[m]) : m \in own}

(* Counts c of a sender's patterns that add up to its numFramesSent.       *)
Accounted(n, own, c) ==
  /\ IsFiniteSet(Numbered(own, c)) /\ numFramesSent[n] = Cardinality(Numbered(own, c))
  /\ \A m \in own : Progress(m, c[m])

(* There are such counts for every sender without random patterns.         *)
ScheduleInv ==
  \A n \in Node :
    LET own == loadXMLFile(n)
    IN ~ thrown /\ (\A m \in own : Steady(m.data)) =>
         \E c \in [own -> Nat] : Accounted(n, own, c)

(* The frames under way to a processor that will log them. *)
ToLog == {c \in flight : Logs(c.cpu, c.frame)}

(* The logger has types, and EachFrameIsLoggedOnce counts a finite set.    *)
LogInv ==
  /\ endToEndDelayStats \in [framePriority -> Stats]
  /\ IsFiniteSet(ToLog)
  /\ EachFrameIsLoggedOnce

-----------------------------------------------------------------------------
(* Patterns, as a configuration gives them.                                *)

(* The lengths, times, loads and priorities of a pattern are such.         *)
LEMMA ElementTyped ==
  ASSUME rootelement \in Configuration, NEW n, NEW p \in Places(n)
  PROVE  TypedPattern(sendDataOf(Element(p)))
<1> DEFINE e == Element(p)
           d == sendDataOf(e)
<1>1. p[1] \in DOMAIN rootelement /\ p[2] \in DOMAIN rootelement[p[1]].lastmuster
  BY DEF Places
<1>2. /\ \A t \in SendData \ {"destination", "sendType", "sendBehavior", "frameprio"} :
           t \in DOMAIN e => e[t] \in Int
      /\ "frameprio" \in DOMAIN e => e.frameprio \in framePriority
  BY <1>1, ConfigurationAssumption DEF Element
<1>3. \A t \in SendData : d[t] = IF t \notin DOMAIN e THEN Default[t]
                                 ELSE IF t \in {"paketgroesse", "vlan"} THEN Short(e[t])
                                 ELSE e[t]
  BY DEF sendDataOf
<1>4. \A t \in SendData \ {"destination", "sendType", "sendBehavior", "frameprio"} :
        Default[t] = 0
  BY DEF Default, SendData
<1>5. ASSUME NEW t \in {"startTime", "stopTime", "last", "maxLast", "interval", "epsilon",
                        "maxInterval", "standardabweichung"}
      PROVE  d[t] \in Int
  BY <1>2, <1>3, <1>4 DEF SendData
<1>6. d.paketgroesse \in Nat
  <2>1. "paketgroesse" \in DOMAIN e => e.paketgroesse \in Int
    BY <1>2 DEF SendData
  <2>2. d.paketgroesse = IF "paketgroesse" \notin DOMAIN e THEN 0 ELSE e.paketgroesse % 65536
    BY <1>3, <1>4 DEF SendData, Short
  <2>. QED  BY <2>1, <2>2
<1>7. d.frameprio \in framePriority
  <2>1. Default.frameprio = "LOW"
    BY DEF Default, SendData
  <2>. QED  BY <1>2, <1>3, <2>1 DEF SendData, framePriority
<1>. HIDE DEF d
<1>8. TypedPattern(d)
  BY <1>5, <1>6, <1>7 DEF TypedPattern
<1>. QED  BY <1>8 DEF d

(* A processor has its self messages under its own name, at the start of   *)
(* their pattern, and none for frames to itself.                           *)
LEMMA LoadedMessages ==
  ASSUME rootelement \in Configuration, NEW n, NEW m \in loadXMLFile(n)
  PROVE  /\ TypedPattern(m.data) /\ m.data.destination # n
         /\ m.cpu = n /\ m.at = m.data.startTime
         /\ m = Loaded(m)
         /\ m = [cpu |-> m.cpu, place |-> m.place, data |-> m.data, at |-> m.at]
         /\ m.data \in Patterns(n)
<1>1. PICK p \in Places(n) : /\ sendDataOf(Element(p)).destination # n
                             /\ m = cpuSelfMessage(n, p, sendDataOf(Element(p)))
  BY DEF loadXMLFile
<1>2. TypedPattern(sendDataOf(Element(p)))
  BY ElementTyped
<1>3. m.data = sendDataOf(Element(p)) /\ m.cpu = n /\ m.place = p /\ m.at = m.data.startTime
  BY <1>1 DEF cpuSelfMessage
<1>. QED  BY <1>1, <1>2, <1>3 DEF cpuSelfMessage, Loaded, Patterns

(* Two self messages of a processor from one place are one.                *)
LEMMA PlacesDiffer ==
  ASSUME NEW n, NEW m1 \in loadXMLFile(n), NEW m2 \in loadXMLFile(n), m1.place = m2.place
  PROVE  m1 = m2
  BY DEF loadXMLFile, cpuSelfMessage

(* A pattern of a processor is typed and is not for itself.                *)
LEMMA PatternsTyped ==
  ASSUME rootelement \in Configuration, NEW n, NEW d \in Patterns(n)
  PROVE  /\ TypedPattern(d) /\ d.destination # n
         /\ \E m \in loadXMLFile(n) : m.data = d
  BY LoadedMessages DEF Patterns

(* A load above 0 gives an interval that never exceeds the time the frame  *)
(* takes at that load, by less than a tick; one below 0 gives a time in    *)
(* the past.                                                               *)
LEMMA LoadIntervals ==
  ASSUME NEW r \in Int, r # 0, NEW size \in Nat
  PROVE  /\ LoadInterval(r, size) \in Int
         /\ r > 0 => /\ LoadInterval(r, size) >= 0
                     /\ size + 32 < r * (LoadInterval(r, size) + 1)
         /\ r < 0 => LoadInterval(r, size) < 0
<1>1. ASSUME NEW a \in Int, NEW b \in Nat, b > 0
      PROVE  /\ a \div b \in Int /\ a < b * ((a \div b) + 1)
             /\ a >= 0 => a \div b >= 0
             /\ a < 0 => a \div b < 0
  BY <1>1, SMTT(30)
<1>2. CASE r > 0
  BY <1>1, <1>2 DEF LoadInterval
<1>3. CASE r < 0
  BY <1>1, <1>3 DEF LoadInterval
<1>. QED  BY <1>2, <1>3

(* A random number lies between its bounds.                                *)
LEMMA Variates ==
  /\ \A a, b \in Int : \A r \in uniform(a, b) :
       /\ r \in Int
       /\ (a <= r /\ r <= b) \/ (b <= r /\ r <= a)
  /\ \A m, s \in Int : \A r \in truncnormal(m, s) : r \in Int /\ r >= 1
<1>1. ASSUME NEW a \in Int, NEW b \in Int, NEW r \in uniform(a, b)
      PROVE  r \in Int /\ ((a <= r /\ r <= b) \/ (b <= r /\ r <= a))
  <2>1. CASE a <= b
    <3>1. r \in a .. b
      BY <2>1 DEF uniform
    <3>. QED  BY <3>1
  <2>2. CASE ~ (a <= b)
    <3>1. r \in b .. a
      BY <2>2 DEF uniform
    <3>. QED  BY <3>1
  <2>. QED  BY <2>1, <2>2
<1>2. ASSUME NEW m \in Int, NEW s \in Int, NEW r \in truncnormal(m, s)
      PROVE  r \in Int /\ r >= 1
  BY <1>2 DEF truncnormal, Deviations
<1>. QED  BY <1>1, <1>2

(* How long a load generator waits: an interval of its own, or that of one *)
(* of its loads.                                                           *)
Waits(d, m, x) ==
  CASE d.sendBehavior = "CONSTANT_LOADGEN" ->
         IF d.last = 0 /\ d.epsilon > 0 THEN uniform(m, m + d.epsilon) ELSE {m}
    [] d.sendBehavior = "UNIFORM_LOADGEN" -> uniform(m, x)
    [] OTHER -> truncnormal(m, d.standardabweichung)

(* An interval is drawn in one of these two ways.                          *)
LEMMA IntervalsAre ==
  ASSUME NEW d, NEW i \in Intervals(d)
  PROVE  \/ d.last = 0 /\ i \in Waits(d, d.interval, d.maxInterval)
         \/ /\ d.last # 0
            /\ \E r \in Waits(d, d.last, d.maxLast) :
                 r # 0 /\ i = LoadInterval(r, d.paketgroesse)
  BY DEF Intervals, Waits

(* A pattern that was accepted asks for the past only with a negative load *)
(* that an interval above 0 covers up.                                     *)
LEMMA IntervalsNotNegative ==
  ASSUME NEW d, TypedPattern(d), scheduleMessage(d), d.sendBehavior # "STD",
         NEW i \in Intervals(d)
  PROVE  i \in Int /\ (i >= 0 \/ AsksForThePast(d))
<1>1. CASE d.last = 0
  <2>1. i \in Waits(d, d.interval, d.maxInterval)
    BY <1>1, IntervalsAre
  <2>2. CASE d.sendBehavior = "CONSTANT_LOADGEN"
    <3>1. d.interval > 0
      BY <1>1, <2>2 DEF scheduleMessage
    <3>2. \/ i \in uniform(d.interval, d.interval + d.epsilon) /\ d.epsilon > 0
          \/ i = d.interval
      BY <2>1, <2>2 DEF Waits
    <3>. QED  BY <3>1, <3>2, Variates DEF TypedPattern
  <2>3. CASE d.sendBehavior = "UNIFORM_LOADGEN"
    <3>1. d.interval > 0 /\ d.maxInterval > d.interval
      BY <1>1, <2>3 DEF scheduleMessage, TypedPattern
    <3>2. i \in uniform(d.interval, d.maxInterval)
      BY <2>1, <2>3 DEF Waits
    <3>. QED  BY <3>1, <3>2, Variates DEF TypedPattern
  <2>4. CASE d.sendBehavior \notin {"CONSTANT_LOADGEN", "UNIFORM_LOADGEN"}
    <3>1. i \in truncnormal(d.interval, d.standardabweichung)
      BY <2>1, <2>4 DEF Waits
    <3>. QED  BY <3>1, Variates DEF TypedPattern
  <2>. QED  BY <2>2, <2>3, <2>4
<1>2. CASE d.last # 0
  <2>1. PICK r \in Waits(d, d.last, d.maxLast) : r # 0 /\ i = LoadInterval(r, d.paketgroesse)
    BY <1>2, IntervalsAre
  <2>2. r \in Int /\ (r > 0 \/ AsksForThePast(d))
    <3>1. CASE d.sendBehavior = "CONSTANT_LOADGEN"
      <4>1. r = d.last
        BY <1>2, <2>1, <3>1 DEF Waits
      <4>2. d.last > 0 \/ d.interval > 0
        BY <3>1 DEF scheduleMessage
      <4>. QED  BY <1>2, <4>1, <4>2 DEF TypedPattern, AsksForThePast
    <3>2. CASE d.sendBehavior = "UNIFORM_LOADGEN"
      <4>1. r \in uniform(d.last, d.maxLast)
        BY <2>1, <3>2 DEF Waits
      <4>2. \/ d.last > 0 /\ d.maxLast > d.last
            \/ d.interval > 0
        BY <3>2 DEF scheduleMessage
      <4>3. r \in Int /\ ((d.last <= r /\ r <= d.maxLast) \/ (d.maxLast <= r /\ r <= d.last))
        BY <4>1, Variates DEF TypedPattern
      <4>. QED  BY <1>2, <2>1, <4>2, <4>3 DEF TypedPattern, AsksForThePast
    <3>3. CASE d.sendBehavior \notin {"CONSTANT_LOADGEN", "UNIFORM_LOADGEN"}
      <4>1. r \in truncnormal(d.last, d.standardabweichung)
        BY <2>1, <3>3 DEF Waits
      <4>. QED  BY <4>1, Variates DEF TypedPattern
    <3>. QED  BY <3>1, <3>2, <3>3
  <2>. QED  BY <2>1, <2>2, LoadIntervals DEF TypedPattern
<1>. QED  BY <1>1, <1>2
-----------------------------------------------------------------------------
(* The steps, by what they do to the self messages.                        *)

(* What starts each of them: a message is due.                             *)
IsDue(m) == ~ thrown /\ m \in pending /\ m.at = now

(* What a self message never touches.                                      *)
AfterHearing == UNCHANGED <<rootelement, now, numFramesReceived, endToEndDelayStats>>

(* The message when it is used again.                                      *)
Postponed(m, i) == [m EXCEPT !.at = now + i]

(* The kernel is asked for the past.                                       *)
Throws(m, i) ==
  /\ IsDue(m) /\ Again(m.data) /\ i < 0
  /\ thrown' = TRUE /\ pending' = pending /\ SendNothing /\ AfterHearing

(* A load generator sends and goes on.                                     *)
Resends(m, i) ==
  /\ IsDue(m) /\ Again(m.data) /\ ~ (i < 0)
  /\ thrown' = FALSE /\ pending' = (pending \ {m}) \cup {Postponed(m, i)}
  /\ Send(m.cpu, m.data) /\ AfterHearing

(* A single frame is sent.                                                 *)
SendsOnce(m) ==
  /\ IsDue(m) /\ m.data.sendBehavior = "STD"
  /\ thrown' = FALSE /\ pending' = pending \ {m} /\ Send(m.cpu, m.data) /\ AfterHearing

(* A load generator has come to its stopTime.                              *)
Expires(m) ==
  /\ IsDue(m) /\ ~ Again(m.data) /\ m.data.sendBehavior # "STD"
  /\ thrown' = FALSE /\ pending' = pending \ {m} /\ SendNothing /\ AfterHearing

(* Every step is one of these, of a reception, of time, or none.           *)
LEMMA StepCases ==
  ASSUME [Next]_vars, thrown \in BOOLEAN
  PROVE  \/ \E m \in pending : \E i \in Intervals(m.data) : Throws(m, i) \/ Resends(m, i)
         \/ \E m \in pending : SendsOnce(m) \/ Expires(m)
         \/ \E c \in flight : Receive(c)
         \/ Tick
         \/ UNCHANGED vars
<1>1. ASSUME NEW m \in pending, SelfMessage(m)
      PROVE  \/ \E i \in Intervals(m.data) : Throws(m, i) \/ Resends(m, i)
             \/ SendsOnce(m) \/ Expires(m)
  <2>1. IsDue(m) /\ AfterHearing
    BY <1>1 DEF SelfMessage, IsDue, AfterHearing
  <2>2. CASE Again(m.data)
    <3>1. PICK i \in Intervals(m.data) :
            IF i < 0 THEN thrown' = TRUE /\ pending' = pending /\ SendNothing
            ELSE /\ pending' = (pending \ {m}) \cup {Postponed(m, i)}
                 /\ Send(m.cpu, m.data)
                 /\ thrown' = thrown
      BY <1>1, <2>2 DEF SelfMessage, LoadGenerator, Postponed
    <3>2. CASE i < 0
      BY <2>1, <2>2, <3>1, <3>2, Zenon DEF Throws
    <3>3. CASE ~ (i < 0)
      <4>1. thrown' = FALSE
        BY <2>1, <3>1, <3>3 DEF IsDue
      <4>. QED  BY <2>1, <2>2, <3>1, <3>3, <4>1, Zenon DEF Resends
    <3>. QED  BY <3>2, <3>3
  <2>3. CASE ~ Again(m.data)
    <3>1. /\ pending' = pending \ {m} /\ thrown' = thrown
          /\ IF m.data.sendBehavior = "STD" THEN Send(m.cpu, m.data) ELSE SendNothing
      BY <1>1, <2>3 DEF SelfMessage, Single
    <3>2. thrown' = FALSE
      BY <2>1, <3>1 DEF IsDue
    <3>. QED  BY <2>1, <2>3, <3>1, <3>2 DEF SendsOnce, Expires
  <2>. QED  BY <2>2, <2>3
<1>. QED  BY <1>1 DEF Next

(* The configuration stays, and with it what a processor loads from it.    *)
LEMMA ConfigurationStays ==
  ASSUME rootelement' = rootelement
  PROVE  \A n : loadXMLFile(n)' = loadXMLFile(n) /\ Patterns(n)' = Patterns(n)
<1>1. ASSUME NEW n  PROVE loadXMLFile(n)' = loadXMLFile(n)
  BY DEF loadXMLFile, Places, Element
<1>. QED  BY <1>1 DEF Patterns

LEMMA RootelementStays ==
  ASSUME [Next]_vars  PROVE  rootelement' = rootelement
  BY DEF Next, SelfMessage, Receive, Tick, vars

(* A message used again is the same one, later.                            *)
LEMMA UsedAgain ==
  ASSUME NEW m, m = [cpu |-> m.cpu, place |-> m.place, data |-> m.data, at |-> m.at], NEW i
  PROVE  LET q == Postponed(m, i)
         IN /\ q = [cpu |-> q.cpu, place |-> q.place, data |-> q.data, at |-> q.at]
            /\ q.cpu = m.cpu /\ q.place = m.place /\ q.data = m.data /\ q.at = now + i
            /\ Loaded(q) = Loaded(m)
<1>1. Postponed(m, i) = [cpu |-> m.cpu, place |-> m.place, data |-> m.data, at |-> now + i]
  BY DEF Postponed
<1>. QED  BY <1>1 DEF Loaded

(* What is known of a pending message.                                     *)
LEMMA PendingFacts ==
  ASSUME rootelement \in Configuration, PendingInv, NEW m \in pending
  PROVE  /\ m.cpu \in Node /\ m.at \in Int
         /\ Loaded(m) \in loadXMLFile(m.cpu) /\ m.data \in Patterns(m.cpu)
         /\ TypedPattern(m.data) /\ m.data.destination # m.cpu
         /\ m = [cpu |-> m.cpu, place |-> m.place, data |-> m.data, at |-> m.at]
<1>1. m.cpu \in Node /\ m.at \in Int /\ Loaded(m) \in loadXMLFile(m.cpu)
  BY DEF PendingInv
<1>2. Loaded(m).data = m.data
  BY DEF Loaded, cpuSelfMessage
<1>3. m = [cpu |-> m.cpu, place |-> m.place, data |-> m.data, at |-> m.at]
  BY DEF PendingInv
<1>. QED  BY <1>1, <1>2, <1>3, LoadedMessages

(* Sending counts a frame.                                                 *)
LEMMA SenderIsTyped ==
  ASSUME TypeInv, NEW n \in Node, NEW d, Send(n, d)
  PROVE  /\ messageCount' = messageCount + 1
         /\ numFramesSent' = [numFramesSent EXCEPT ![n] = @ + 1]
         /\ messageCount' \in Nat /\ sequenceNumber' \in [Node -> Nat]
         /\ numFramesSent' \in [Node -> Nat]
  BY DEF TypeInv, Send

-----------------------------------------------------------------------------
(* What is pending.                                                        *)

LEMMA TypeInitial == Init => TypeInv
  BY DEF Init, initialize, TypeInv

LEMMA CollectTyped ==
  ASSUME NEW stats \in Stats, NEW val \in Int
  PROVE  collect(stats, val) \in Stats
  BY DEF Stats, collect
-----------------------------------------------------------------------------
(* The frames: built, opened, closed again.                                *)

(* The three tags of a frame, each by itself.                              *)
EthTag(n, d, type, t) ==
  [class |-> "EthernetIIFrame", length |-> 18, inside |-> <<>>, etherType |-> type,
   dest |-> d.destination, src |-> n, creationTime |-> t]
VlanTag(d, type) ==
  [class |-> "vlanMessage", length |-> 0, inside |-> <<>>, ownEtherType |-> type,
   user_priority |-> d.frameprio, preemptionDelay |-> 0]
HsrTag(number, type) ==
  [class |-> "hsrMessage", length |-> 6, inside |-> <<>>, ownEtherType |-> type,
   path |-> 2, sequencenumber |-> number]

(* A frame whose HSR tag was taken off.                                    *)
PlainVlan(d, counter) ==
  [class |-> "vlanMessage", length |-> d.paketgroesse, inside |-> <<Data(d, counter)>>,
   ownEtherType |-> "0x0800", user_priority |-> d.frameprio, preemptionDelay |-> 0]
Plain(n, d, counter, t) ==
  [class |-> "EthernetIIFrame", length |-> d.paketgroesse + 18,
   inside |-> <<PlainVlan(d, counter)>>,
   etherType |-> "0x8100", dest |-> d.destination, src |-> n, creationTime |-> t]

LEMMA TagsAreNotNULL ==
  ASSUME NEW n, NEW d, NEW number, NEW counter, NEW type, NEW t
  PROVE  /\ VlanTag(d, type) # NULL /\ HsrTag(number, type) # NULL
         /\ Vlan(d, number, counter) \notin {NULL, BadCast}
         /\ PlainVlan(d, counter) \notin {NULL, BadCast}
         /\ Hsr(d, number, counter) \notin {NULL, BadCast}
         /\ Data(d, counter) \notin {NULL, BadCast}
  BY DEF VlanTag, HsrTag, Vlan, PlainVlan, Hsr, Data, NULL, BadCast

(* generateEthMessage closes the tags around the data, whatever EtherTypes *)
(* they had.                                                               *)
LEMMA Generated ==
  ASSUME NEW n, NEW d, d.paketgroesse \in Nat, NEW number, NEW counter, NEW t,
         NEW type1, NEW type2, NEW type3
  PROVE  /\ generateEthMessage(EthTag(n, d, type1, t), VlanTag(d, type2), HsrTag(number, type3),
                               Data(d, counter))
              = Whole(n, d, number, counter, t)
         /\ generateEthMessage(EthTag(n, d, type1, t), VlanTag(d, type2), NULL,
                               Data(d, counter))
              = Plain(n, d, counter, t)
<1>1. encapsulate([HsrTag(number, type3) EXCEPT !.ownEtherType = "0x0800"], Data(d, counter))
        = Hsr(d, number, counter)
  <2>1. [HsrTag(number, type3) EXCEPT !.ownEtherType = "0x0800"] = HsrTag(number, "0x0800")
    BY DEF HsrTag
  <2>2. encapsulate(HsrTag(number, "0x0800"), Data(d, counter))
          = [HsrTag(number, "0x0800") EXCEPT !.inside = <<Data(d, counter)>>,
                                             !.length = 6 + d.paketgroesse]
    <3>1. Data(d, counter).length = d.paketgroesse /\ HsrTag(number, "0x0800").length = 6
      BY DEF Data, HsrTag
    <3>. QED  BY <3>1, Zenon DEF encapsulate
  <2>3. 6 + d.paketgroesse = d.paketgroesse + 6
    OBVIOUS
  <2>. QED  BY <2>1, <2>2, <2>3 DEF HsrTag, Hsr
<1>2. ASSUME NEW type, NEW m, NEW l, m.length = l, l \in Nat
      PROVE  encapsulate([VlanTag(d, type2) EXCEPT !.ownEtherType = type], m)
               = [class |-> "vlanMessage", length |-> l, inside |-> <<m>>,
                  ownEtherType |-> type, user_priority |-> d.frameprio, preemptionDelay |-> 0]
  <2>1. [VlanTag(d, type2) EXCEPT !.ownEtherType = type] = VlanTag(d, type)
    BY DEF VlanTag
  <2>2. encapsulate(VlanTag(d, type), m)
          = [VlanTag(d, type) EXCEPT !.inside = <<m>>, !.length = 0 + l]
    <3>1. VlanTag(d, type).length = 0
      BY DEF VlanTag
    <3>. QED  BY <1>2, <3>1, Zenon DEF encapsulate
  <2>3. 0 + l = l
    BY <1>2
  <2>. QED  BY <2>1, <2>2, <2>3 DEF VlanTag
<1>3. ASSUME NEW m, NEW l, m.length = l, l \in Nat
      PROVE  encapsulate([EthTag(n, d, type1, t) EXCEPT !.etherType = "0x8100"], m)
               = [class |-> "EthernetIIFrame", length |-> l + 18, inside |-> <<m>>,
                  etherType |-> "0x8100", dest |-> d.destination, src |-> n,
                  creationTime |-> t]
  <2>1. [EthTag(n, d, type1, t) EXCEPT !.etherType = "0x8100"] = EthTag(n, d, "0x8100", t)
    BY DEF EthTag
  <2>2. encapsulate(EthTag(n, d, "0x8100", t), m)
          = [EthTag(n, d, "0x8100", t) EXCEPT !.inside = <<m>>, !.length = 18 + l]
    <3>1. EthTag(n, d, "0x8100", t).length = 18
      BY DEF EthTag
    <3>. QED  BY <1>3, <3>1, Zenon DEF encapsulate
  <2>3. 18 + l = l + 18
    BY <1>3
  <2>. QED  BY <2>1, <2>2, <2>3 DEF EthTag
<1>4. /\ Hsr(d, number, counter).length = d.paketgroesse + 6
      /\ Vlan(d, number, counter).length = d.paketgroesse + 6
      /\ PlainVlan(d, counter).length = d.paketgroesse
      /\ Data(d, counter).length = d.paketgroesse
  BY DEF Hsr, Vlan, PlainVlan, Data
<1>5. encapsulate([VlanTag(d, type2) EXCEPT !.ownEtherType = "0x88FB"], Hsr(d, number, counter))
        = Vlan(d, number, counter)
  BY <1>2, <1>4 DEF Vlan
<1>6. encapsulate([VlanTag(d, type2) EXCEPT !.ownEtherType = "0x0800"], Data(d, counter))
        = PlainVlan(d, counter)
  BY <1>2, <1>4 DEF PlainVlan
<1>7. encapsulate([EthTag(n, d, type1, t) EXCEPT !.etherType = "0x8100"],
                  Vlan(d, number, counter))
        = Whole(n, d, number, counter, t)
  <2>1. (d.paketgroesse + 6) + 18 = d.paketgroesse + 24
    OBVIOUS
  <2>. QED  BY <1>3, <1>4, <2>1 DEF Whole
<1>8. encapsulate([EthTag(n, d, type1, t) EXCEPT !.etherType = "0x8100"], PlainVlan(d, counter))
        = Plain(n, d, counter, t)
  BY <1>3, <1>4 DEF Plain
<1>. QED  BY <1>1, <1>5, <1>6, <1>7, <1>8, TagsAreNotNULL, Zenon DEF generateEthMessage

(* What a processor sends is such a frame.                                 *)
LEMMA GeneratedPacket ==
  ASSUME NEW n, NEW d, d.paketgroesse \in Nat
  PROVE  generateOnePacket(n, d) = Whole(n, d, sequenceNumber[n], messageCount, now)
<1>1. createETHTag(d.destination, n, now) = EthTag(n, d, "none", now)
  BY DEF createETHTag, EthTag
<1>2. createVLANTag(d.frameprio) = VlanTag(d, "0x8100")
  BY DEF createVLANTag, vlanMessage, VlanTag
<1>3. createHSRTag(1, sequenceNumber[n]) = HsrTag(sequenceNumber[n], "0x88FB")
  BY DEF createHSRTag, hsrMessage, HsrTag
<1>4. createDataMessage(d.paketgroesse, messageCount) = Data(d, messageCount)
  BY DEF createDataMessage, dataMessage, Data
<1>. QED  BY <1>1, <1>2, <1>3, <1>4, Generated DEF generateOnePacket

(* Opening it gives the three tags and the data back.                      *)
LEMMA Opened ==
  ASSUME NEW n, NEW d, d.paketgroesse \in Nat, NEW number, NEW counter, NEW t
  PROVE  /\ decapsulateMessage(Whole(n, d, number, counter, t))
              = [ethTag |-> EthTag(n, d, "0x8100", t), vlanTag |-> VlanTag(d, "0x88FB"),
                 hsrTag |-> HsrTag(number, "0x0800"), messageData |-> Data(d, counter)]
         /\ decapsulateMessage(Plain(n, d, counter, t))
              = [ethTag |-> EthTag(n, d, "0x8100", t), vlanTag |-> VlanTag(d, "0x0800"),
                 hsrTag |-> NULL, messageData |-> Data(d, counter)]
<1> DEFINE W == Whole(n, d, number, counter, t)
           P == Plain(n, d, counter, t)
           V == Vlan(d, number, counter)
           U == PlainVlan(d, counter)
           H == Hsr(d, number, counter)
           D == Data(d, counter)
<1>1. content(W) = V /\ content(P) = U /\ content(V) = H /\ content(U) = D /\ content(H) = D
  BY DEF content, Whole, Plain, Vlan, PlainVlan, Hsr
<1>2. /\ cast(V, "vlanMessage") = V /\ cast(U, "vlanMessage") = U
      /\ cast(H, "hsrMessage") = H /\ cast(D, "dataMessage") = D
  BY DEF cast, Vlan, PlainVlan, Hsr, Data
<1>3. W.etherType = "0x8100" /\ P.etherType = "0x8100"
  BY DEF Whole, Plain
<1>4. V.ownEtherType = "0x88FB" /\ U.ownEtherType = "0x0800"
  BY DEF Vlan, PlainVlan
<1>5. V # BadCast
  BY TagsAreNotNULL
<1>6. decapsulate(W) = EthTag(n, d, "0x8100", t) /\ decapsulate(P) = EthTag(n, d, "0x8100", t)
  <2>1. decapsulate(W) = [W EXCEPT !.inside = <<>>, !.length = 18]
    <3>1. W.length - V.length = 18
      BY DEF Whole, Vlan
    <3>. QED  BY <1>1, <3>1, Zenon DEF decapsulate
  <2>2. decapsulate(P) = [P EXCEPT !.inside = <<>>, !.length = 18]
    <3>1. P.length - U.length = 18
      BY DEF Plain, PlainVlan
    <3>. QED  BY <1>1, <3>1, Zenon DEF decapsulate
  <2>3. ASSUME NEW x, NEW l
        PROVE  [[class |-> "EthernetIIFrame", length |-> l, inside |-> x,
                 etherType |-> "0x8100", dest |-> d.destination, src |-> n,
                 creationTime |-> t] EXCEPT !.inside = <<>>, !.length = 18]
                 = EthTag(n, d, "0x8100", t)
    <3>1. [[class |-> "EthernetIIFrame", length |-> l, inside |-> x,
            etherType |-> "0x8100", dest |-> d.destination, src |-> n,
            creationTime |-> t] EXCEPT !.inside = <<>>]
            = [class |-> "EthernetIIFrame", length |-> l, inside |-> <<>>,
               etherType |-> "0x8100", dest |-> d.destination, src |-> n,
               creationTime |-> t]
      OBVIOUS
    <3>2. [[class |-> "EthernetIIFrame", length |-> l, inside |-> <<>>,
            etherType |-> "0x8100", dest |-> d.destination, src |-> n,
            creationTime |-> t] EXCEPT !.length = 18]
            = EthTag(n, d, "0x8100", t)
      BY DEF EthTag
    <3>. QED  BY <3>1, <3>2, Zenon
  <2>. QED  BY <2>1, <2>2, <2>3, Zenon DEF Whole, Plain
<1>7. decapsulate(V) = VlanTag(d, "0x88FB") /\ decapsulate(U) = VlanTag(d, "0x0800")
  <2>1. decapsulate(V) = [V EXCEPT !.inside = <<>>, !.length = 0]
    <3>1. V.length - H.length = 0
      BY DEF Vlan, Hsr
    <3>. QED  BY <1>1, <3>1, Zenon DEF decapsulate
  <2>2. decapsulate(U) = [U EXCEPT !.inside = <<>>, !.length = 0]
    <3>1. U.length - D.length = 0
      BY DEF PlainVlan, Data
    <3>. QED  BY <1>1, <3>1, Zenon DEF decapsulate
  <2>. QED  BY <2>1, <2>2 DEF Vlan, PlainVlan, VlanTag
<1>8. decapsulate(H) = HsrTag(number, "0x0800")
  <2>1. decapsulate(H) = [H EXCEPT !.inside = <<>>, !.length = 6]
    <3>1. H.length - D.length = 6
      BY DEF Hsr, Data
    <3>. QED  BY <1>1, <3>1, Zenon DEF decapsulate
  <2>. QED  BY <2>1 DEF Hsr, HsrTag
<1>9. decapsulate(NULL) = NULL
  <2>1. content(NULL) = NULL /\ NULL.length - NULL.length = 0
    BY DEF content, NULL
  <2>2. decapsulate(NULL) = [NULL EXCEPT !.inside = <<>>, !.length = 0]
    BY <2>1, Zenon DEF decapsulate
  <2>. QED  BY <2>2 DEF NULL
<1>10. openMessage(W) = [ethTag |-> W, vlanTag |-> V, hsrTag |-> H, messageData |-> D]
  BY <1>1, <1>2, <1>3, <1>4, <1>5, Zenon DEF openMessage
<1>11. openMessage(P) = [ethTag |-> P, vlanTag |-> U, hsrTag |-> NULL, messageData |-> D]
  <2>1. U.ownEtherType # "0x88FB"
    BY <1>4
  <2>. HIDE DEF P, U, D
  <2>. QED  BY <1>1, <1>2, <1>3, <2>1, SMT DEF openMessage
<1>. HIDE DEF W, P, V, U, H, D
<1>a. ASSUME NEW a, NEW b, NEW c, NEW e, NEW k,
             openMessage(k) = [ethTag |-> a, vlanTag |-> b, hsrTag |-> c, messageData |-> e]
      PROVE  decapsulateMessage(k)
               = [ethTag |-> decapsulate(a), vlanTag |-> decapsulate(b),
                  hsrTag |-> decapsulate(c), messageData |-> e]
  <2> DEFINE r == [ethTag |-> a, vlanTag |-> b, hsrTag |-> c, messageData |-> e]
  <2>1. decapsulateMessage(k)
          = [r EXCEPT !.ethTag = decapsulate(@), !.vlanTag = decapsulate(@),
                      !.hsrTag = decapsulate(@)]
    BY <1>a, Zenon DEF decapsulateMessage
  <2>2. ASSUME NEW x, NEW y, NEW z
        PROVE  [r EXCEPT !.ethTag = x, !.vlanTag = y, !.hsrTag = z]
                 = [ethTag |-> x, vlanTag |-> y, hsrTag |-> z, messageData |-> e]
    <3>1. [r EXCEPT !.ethTag = x]
            = [ethTag |-> x, vlanTag |-> b, hsrTag |-> c, messageData |-> e]
      OBVIOUS
    <3>2. [[ethTag |-> x, vlanTag |-> b, hsrTag |-> c, messageData |-> e] EXCEPT !.vlanTag = y]
            = [ethTag |-> x, vlanTag |-> y, hsrTag |-> c, messageData |-> e]
      OBVIOUS
    <3>3. [[ethTag |-> x, vlanTag |-> y, hsrTag |-> c, messageData |-> e] EXCEPT !.hsrTag = z]
            = [ethTag |-> x, vlanTag |-> y, hsrTag |-> z, messageData |-> e]
      OBVIOUS
    <3>. HIDE DEF r
    <3>. QED  BY <3>1, <3>2, <3>3, Zenon
  <2>3. r.ethTag = a /\ r.vlanTag = b /\ r.hsrTag = c
    OBVIOUS
  <2>. QED  BY <2>1, <2>2, <2>3, Zenon
<1>12. decapsulateMessage(W) = [ethTag |-> decapsulate(W), vlanTag |-> decapsulate(V),
                                hsrTag |-> decapsulate(H), messageData |-> D]
  BY <1>10, <1>a
<1>13. decapsulateMessage(P) = [ethTag |-> decapsulate(P), vlanTag |-> decapsulate(U),
                                hsrTag |-> decapsulate(NULL), messageData |-> D]
  BY <1>11, <1>a
<1>. QED  BY <1>6, <1>7, <1>8, <1>9, <1>12, <1>13 DEF W, P, D

(* So a switch that opens a frame and closes it again changes nothing, and *)
(* an HSR tag that was taken off can be put on again.                      *)
StaysWhole(f) ==
  LET m == decapsulateMessage(f)
  IN /\ {NULL, BadCast} \cap {m.vlanTag, m.hsrTag, m.messageData} = {}
     /\ f.length = m.messageData.length + 24
     /\ Forwarded(f) = f
     /\ EncapsulateMessage(DecapsulateMessage(f), 1, m.hsrTag.sequencenumber) = f

(* A frame a processor built stays whole, for every pattern and number.    *)
LEMMA WholeFrames ==
  ASSUME NEW n, NEW d, d.paketgroesse \in Nat, NEW number, NEW counter, NEW t,
         NEW f, f = Whole(n, d, number, counter, t)
  PROVE  StaysWhole(f)
<1> DEFINE m == decapsulateMessage(f)
           g == Plain(n, d, counter, t)
<1>1. /\ m.ethTag = EthTag(n, d, "0x8100", t) /\ m.vlanTag = VlanTag(d, "0x88FB")
      /\ m.hsrTag = HsrTag(number, "0x0800") /\ m.messageData = Data(d, counter)
  BY Opened
<1>2. VlanTag(d, "0x88FB") \notin {NULL, BadCast} /\ HsrTag(number, "0x0800") \notin {NULL, BadCast}
  BY DEF VlanTag, HsrTag, NULL, BadCast
<1>3. {NULL, BadCast} \cap {m.vlanTag, m.hsrTag, m.messageData} = {}
  BY <1>1, <1>2, TagsAreNotNULL
<1>4. f.length = m.messageData.length + 24
  BY <1>1 DEF Whole, Data
<1>5. Forwarded(f) = f
  <2>1. Forwarded(f) = generateEthMessage(m.ethTag, m.vlanTag, m.hsrTag, m.messageData)
    BY Zenon DEF Forwarded
  <2>. HIDE DEF m
  <2>2. Forwarded(f) = generateEthMessage(EthTag(n, d, "0x8100", t), VlanTag(d, "0x88FB"),
                                          HsrTag(number, "0x0800"), Data(d, counter))
    BY <1>1, <2>1, Zenon
  <2>. QED  BY <2>2, Generated
<1>6. DecapsulateMessage(f) = g
  <2>1. DecapsulateMessage(f) = generateEthMessage(m.ethTag, m.vlanTag, NULL, m.messageData)
    BY Zenon DEF DecapsulateMessage
  <2>. HIDE DEF m
  <2>2. DecapsulateMessage(f) = generateEthMessage(EthTag(n, d, "0x8100", t),
                                  VlanTag(d, "0x88FB"), NULL, Data(d, counter))
    BY <1>1, <2>1, Zenon
  <2>. QED  BY <2>2, Generated
<1>7. m.hsrTag.sequencenumber = number
  BY <1>1 DEF HsrTag
<1>8. createHSRTag(1, number) = HsrTag(number, "0x88FB")
  BY DEF createHSRTag, hsrMessage, HsrTag
<1>9. EncapsulateMessage(g, 1, number) = f
  <2>1. /\ decapsulateMessage(g).ethTag = EthTag(n, d, "0x8100", t)
        /\ decapsulateMessage(g).vlanTag = VlanTag(d, "0x0800")
        /\ decapsulateMessage(g).hsrTag = NULL
        /\ decapsulateMessage(g).messageData = Data(d, counter)
    BY Opened
  <2>2. EncapsulateMessage(g, 1, number)
          = generateEthMessage(EthTag(n, d, "0x8100", t), VlanTag(d, "0x0800"),
                               createHSRTag(1, number), Data(d, counter))
    <3> DEFINE o == decapsulateMessage(g)
    <3>1. EncapsulateMessage(g, 1, number)
            = generateEthMessage(o.ethTag, o.vlanTag,
                                 IF o.hsrTag = NULL THEN createHSRTag(1, number) ELSE o.hsrTag,
                                 o.messageData)
      BY Zenon DEF EncapsulateMessage
    <3>2. (IF o.hsrTag = NULL THEN createHSRTag(1, number) ELSE o.hsrTag)
            = createHSRTag(1, number)
      BY <2>1, Zenon
    <3>. HIDE DEF o
    <3>3. EncapsulateMessage(g, 1, number)
            = generateEthMessage(o.ethTag, o.vlanTag, createHSRTag(1, number), o.messageData)
      BY <3>1, <3>2, Zenon
    <3>. QED  BY <2>1, <3>3, Zenon DEF o
  <2>. QED  BY <1>8, <2>2, Generated
<1>. QED  BY <1>3, <1>4, <1>5, <1>6, <1>7, <1>9, Zenon DEF StaysWhole
-----------------------------------------------------------------------------
(* What is pending, and who may ask for the past.                          *)

LEMMA PendingInitial ==
  ASSUME Init
  PROVE  PendingInv
<1>1. rootelement \in Configuration /\ pending = UNION {loadXMLFile(n) : n \in Node}
  BY DEF Init, initialize
<1>2. ASSUME NEW m \in pending
      PROVE  /\ m.cpu \in Node /\ m \in loadXMLFile(m.cpu) /\ m.at \in Int
             /\ m = [cpu |-> m.cpu, place |-> m.place, data |-> m.data, at |-> m.at]
             /\ Loaded(m) \in loadXMLFile(m.cpu)
  <2>1. PICK n \in Node : m \in loadXMLFile(n)
    BY <1>1
  <2>. QED  BY <1>1, <2>1, LoadedMessages DEF TypedPattern
<1>3. ASSUME NEW m1 \in pending, NEW m2 \in pending, m1.cpu = m2.cpu, m1.place = m2.place
      PROVE  m1 = m2
  BY <1>2, <1>3, PlacesDiffer
<1>. QED  BY <1>2, <1>3, Zenon DEF PendingInv

(* Taking messages away keeps PendingInv.                                  *)
LEMMA PendingRemoved ==
  ASSUME PendingInv, rootelement' = rootelement, pending' \subseteq pending
  PROVE  PendingInv'
  BY ConfigurationStays DEF PendingInv

(* Using a message again keeps it.                                         *)
LEMMA PendingAgain ==
  ASSUME Base, rootelement' = rootelement, NEW m \in pending, NEW i \in Int,
         pending' = (pending \ {m}) \cup {Postponed(m, i)}
  PROVE  PendingInv'
<1> DEFINE q == Postponed(m, i)
<1>1. /\ q = [cpu |-> q.cpu, place |-> q.place, data |-> q.data, at |-> q.at]
      /\ q.cpu = m.cpu /\ q.place = m.place /\ q.at = now + i /\ Loaded(q) = Loaded(m)
  BY UsedAgain DEF Base, PendingInv
<1>2. q.cpu \in Node /\ q.at \in Int /\ Loaded(q) \in loadXMLFile(q.cpu)
  BY <1>1 DEF Base, TypeInv, PendingInv
<1>. HIDE DEF q
<1>3. pending' = (pending \ {m}) \cup {q}
  BY DEF q
<1>4. \A r \in pending' : /\ r = [cpu |-> r.cpu, place |-> r.place, data |-> r.data, at |-> r.at]
                          /\ r.cpu \in Node /\ r.at \in Int
                          /\ Loaded(r) \in loadXMLFile(r.cpu)
  BY <1>1, <1>2, <1>3 DEF Base, PendingInv
<1>5. \A m1, m2 \in pending' : m1.cpu = m2.cpu /\ m1.place = m2.place => m1 = m2
  BY <1>1, <1>3 DEF Base, PendingInv
<1>6. \A n : loadXMLFile(n)' = loadXMLFile(n)
  BY ConfigurationStays
<1>. QED  BY <1>4, <1>5, <1>6 DEF PendingInv

(* A pattern whose message is pending in a simulation that goes on was     *)
(* accepted.                                                               *)
LEMMA PendingAccepted ==
  ASSUME Base, ~ thrown, NEW m \in pending
  PROVE  /\ scheduleMessage(m.data) /\ m.data.startTime >= 0
         /\ m.data.sendBehavior # "STD" =>
              \A i \in Intervals(m.data) : i \in Int /\ (i >= 0 \/ AsksForThePast(m.data))
<1>1. m.cpu \in Node /\ Loaded(m) \in loadXMLFile(m.cpu) /\ TypedPattern(m.data)
  BY PendingFacts DEF Base, TypeInv
<1>2. Loaded(m).data = m.data
  BY DEF Loaded, cpuSelfMessage
<1>3. scheduleMessage(m.data) /\ m.data.startTime >= 0
  BY <1>1, <1>2 DEF Base, NothingIsLate
<1>. QED  BY <1>1, <1>3, IntervalsNotNegative

LEMMA TypeStep ==
  ASSUME Base, [Next]_vars
  PROVE  TypeInv'
<1>. USE DEF Base
<1>0. TypeInv
  OBVIOUS
<1>1. ASSUME NEW m \in pending, NEW i \in Intervals(m.data), Throws(m, i)
      PROVE  TypeInv'
  BY <1>1 DEF Throws, AfterHearing, SendNothing, TypeInv
<1>2. ASSUME NEW m \in pending, Send(m.cpu, m.data), AfterHearing, thrown' = FALSE
      PROVE  TypeInv'
  <2>1. m.cpu \in Node
    BY DEF PendingInv
  <2>2. /\ messageCount' \in Nat /\ sequenceNumber' \in [Node -> Nat]
        /\ numFramesSent' \in [Node -> Nat]
    BY <1>0, <1>2, <2>1, SenderIsTyped
  <2>. QED  BY <1>2, <2>2 DEF AfterHearing, TypeInv
<1>3. ASSUME NEW m \in pending, Expires(m)
      PROVE  TypeInv'
  BY <1>3 DEF Expires, AfterHearing, SendNothing, TypeInv
<1>4. ASSUME NEW c \in flight, Receive(c)
      PROVE  TypeInv'
  BY <1>4 DEF Receive, TypeInv
<1>5. CASE Tick
  BY <1>5 DEF Tick, TypeInv
<1>6. CASE UNCHANGED vars
  BY <1>6 DEF vars, TypeInv
<1>. QED  BY <1>1, <1>2, <1>3, <1>4, <1>5, <1>6, StepCases
          DEF Resends, SendsOnce, TypeInv

LEMMA PendingStep ==
  ASSUME Base, [Next]_vars
  PROVE  PendingInv'
<1>1. rootelement' = rootelement /\ PendingInv
  BY RootelementStays DEF Base
<1>2. ASSUME NEW m \in pending, NEW i \in Intervals(m.data), Resends(m, i)
      PROVE  PendingInv'
  <2>1. i \in Int
    <3>1. ~ thrown /\ m.data.sendBehavior # "STD"
      BY <1>2 DEF Resends, IsDue, Again
    <3>. QED  BY <3>1, PendingAccepted
  <2>. QED  BY <1>1, <1>2, <2>1, PendingAgain DEF Resends
<1>3. ASSUME NEW m \in pending, NEW i \in Intervals(m.data), Throws(m, i)
      PROVE  PendingInv'
  BY <1>1, <1>3, PendingRemoved DEF Throws
<1>4. ASSUME NEW m \in pending, SendsOnce(m) \/ Expires(m)
      PROVE  PendingInv'
  BY <1>1, <1>4, PendingRemoved DEF SendsOnce, Expires
<1>5. ASSUME NEW c \in flight, Receive(c)
      PROVE  PendingInv'
  BY <1>1, <1>5, PendingRemoved DEF Receive
<1>6. CASE Tick
  BY <1>1, <1>6, PendingRemoved DEF Tick
<1>7. CASE UNCHANGED vars
  BY <1>1, <1>7, PendingRemoved DEF vars
<1>. QED  BY <1>2, <1>3, <1>4, <1>5, <1>6, <1>7, StepCases DEF Base, TypeInv

(* A step of a simulation that goes on leaves no message overdue.          *)
LEMMA LateStep ==
  ASSUME Base, [Next]_vars, ~ thrown'
  PROVE  /\ ~ thrown
         /\ \A m \in pending' : m.at >= now'
<1>. USE DEF Base
<1>1. now \in Nat /\ thrown \in BOOLEAN
  BY DEF TypeInv
<1>2. ASSUME ~ thrown
      PROVE  \A m \in pending : m.at \in Int /\ m.at >= now
  BY <1>2 DEF NothingIsLate, PendingInv
<1>3. ASSUME NEW m \in pending, NEW i \in Intervals(m.data), Throws(m, i)
      PROVE  FALSE
  BY <1>3 DEF Throws
<1>4. ASSUME NEW m \in pending, NEW i \in Intervals(m.data), Resends(m, i)
      PROVE  ~ thrown /\ \A q \in pending' : q.at >= now'
  <2>1. /\ ~ thrown /\ now' = now /\ m.data.sendBehavior # "STD" /\ ~ (i < 0)
        /\ pending' = (pending \ {m}) \cup {Postponed(m, i)}
    BY <1>4 DEF Resends, IsDue, Again, AfterHearing
  <2>2. i \in Int
    BY <2>1, PendingAccepted
  <2>3. Postponed(m, i).at = now + i
    BY UsedAgain DEF PendingInv
  <2>. QED  BY <1>1, <1>2, <2>1, <2>2, <2>3
<1>5. ASSUME NEW m \in pending, SendsOnce(m) \/ Expires(m)
      PROVE  ~ thrown /\ \A q \in pending' : q.at >= now'
  BY <1>2, <1>5 DEF SendsOnce, Expires, IsDue, AfterHearing
<1>6. ASSUME NEW c \in flight, Receive(c)
      PROVE  ~ thrown /\ \A q \in pending' : q.at >= now'
  BY <1>2, <1>6 DEF Receive
<1>7. CASE Tick
  <2>1. ~ thrown /\ pending' = pending /\ now' = now + 1 /\ \A m \in pending : m.at > now
    BY <1>7 DEF Tick
  <2>. QED  BY <1>1, <1>2, <2>1
<1>8. CASE UNCHANGED vars
  BY <1>2, <1>8 DEF vars
<1>. QED  BY <1>1, <1>3, <1>4, <1>5, <1>6, <1>7, <1>8, StepCases

LEMMA BaseInitial == Init => Base
<1>. SUFFICES ASSUME Init  PROVE Base
  OBVIOUS
<1>1. TypeInv /\ PendingInv
  BY TypeInitial, PendingInitial
<1>2. /\ rootelement \in Configuration /\ now = 0
      /\ pending = UNION {loadXMLFile(n) : n \in Node}
      /\ thrown = \E m \in pending : ~ scheduleMessage(m.data) \/ m.at < 0
  BY DEF Init, initialize
<1>3. ASSUME NEW n \in Node, NEW m \in loadXMLFile(n)
      PROVE  m \in pending /\ m.data \in Patterns(n) /\ m.at = m.data.startTime /\ m.at \in Int
  BY <1>2, LoadedMessages DEF TypedPattern
<1>4. NothingIsLate
  <2>. SUFFICES ASSUME ~ thrown  PROVE /\ \A n \in Node : \A m \in loadXMLFile(n) :
                                           scheduleMessage(m.data) /\ m.data.startTime >= 0
                                      /\ \A m \in pending : m.at >= now
    BY DEF NothingIsLate
  <2>1. \A m \in pending : scheduleMessage(m.data) /\ ~ (m.at < 0)
    BY <1>2
  <2>2. \A m \in pending : m.at \in Int
    BY <1>1 DEF PendingInv
  <2>. QED  BY <1>2, <1>3, <2>1, <2>2
<1>5. OnlyNegativeLoadsThrow
  <2>. SUFFICES ASSUME thrown
                PROVE  \E n \in Node : \E d \in Patterns(n) :
                         ~ scheduleMessage(d) \/ d.startTime < 0
    BY Zenon DEF OnlyNegativeLoadsThrow
  <2>1. PICK m \in pending : ~ scheduleMessage(m.data) \/ m.at < 0
    BY <1>2
  <2>2. PICK n \in Node : m \in loadXMLFile(n)
    BY <1>2
  <2>. QED  BY <1>3, <2>1, <2>2
<1>. QED  BY <1>1, <1>4, <1>5 DEF Base

LEMMA BaseStep ==
  ASSUME Base, [Next]_vars
  PROVE  Base'
<1>1. TypeInv' /\ PendingInv'
  BY TypeStep, PendingStep
<1>2. rootelement' = rootelement
  BY RootelementStays
<1>3. NothingIsLate'
  <2>. SUFFICES ASSUME ~ thrown'
                PROVE  /\ \A n \in Node : \A m \in loadXMLFile(n)' :
                            scheduleMessage(m.data) /\ m.data.startTime >= 0
                       /\ \A m \in pending' : m.at >= now'
    BY DEF NothingIsLate
  <2>1. ~ thrown /\ \A m \in pending' : m.at >= now'
    BY LateStep
  <2>. QED  BY <1>2, <2>1, ConfigurationStays DEF Base, NothingIsLate
<1>4. OnlyNegativeLoadsThrow'
  <2>1. (\E n \in Node : \E d \in Patterns(n) : AsksForThePast(d)) =>
          (\E n \in Node : \E d \in Patterns(n)' : AsksForThePast(d))
    BY <1>2, ConfigurationStays
  <2>2. OnlyNegativeLoadsThrow <=>
          (thrown => \E n \in Node : \E d \in Patterns(n) : AsksForThePast(d))
    BY Zenon DEF OnlyNegativeLoadsThrow, AsksForThePast
  <2>3. OnlyNegativeLoadsThrow' <=>
          (thrown' => \E n \in Node : \E d \in Patterns(n)' : AsksForThePast(d))
    BY Zenon DEF OnlyNegativeLoadsThrow, AsksForThePast
  <2>4. ASSUME NEW m \in pending, NEW i \in Intervals(m.data), Throws(m, i)
        PROVE  \E n \in Node : \E d \in Patterns(n) : AsksForThePast(d)
    <3>1. ~ thrown /\ m.data.sendBehavior # "STD" /\ i < 0
      BY <2>4 DEF Throws, IsDue, Again
    <3>2. AsksForThePast(m.data)
      BY <3>1, PendingAccepted
    <3>3. m.cpu \in Node /\ m.data \in Patterns(m.cpu)
      BY PendingFacts DEF Base, TypeInv
    <3>. QED  BY <3>2, <3>3
  <2>5. ASSUME NEW m \in pending, NEW i \in Intervals(m.data), Resends(m, i)
        PROVE  ~ thrown'
    BY <2>5 DEF Resends
  <2>6. ASSUME NEW m \in pending, SendsOnce(m) \/ Expires(m)
        PROVE  ~ thrown'
    BY <2>6 DEF SendsOnce, Expires
  <2>7. ASSUME NEW c \in flight, Receive(c)
        PROVE  thrown' = thrown
    BY <2>7 DEF Receive
  <2>8. Tick \/ UNCHANGED vars => thrown' = thrown
    BY DEF Tick, vars
  <2>. QED  BY <2>1, <2>2, <2>3, <2>4, <2>5, <2>6, <2>7, <2>8, StepCases
            DEF Base, TypeInv
<1>. QED  BY <1>1, <1>3, <1>4 DEF Base

(* Base holds in every reachable state.                                    *)
LEMMA BaseInductive == Spec => []Base
<1>. QED  BY BaseInitial, BaseStep, PTL DEF Spec

(* OnlyNegativeLoadsThrow, for every configuration: scheduleAt (CPU.cc     *)
(* 147-186, 546) is asked for the past only by a pattern that starts       *)
(* before 0, or by one whose negative load an interval covers up.          *)
THEOREM OnlyThesePatternsThrow == Spec => []OnlyNegativeLoadsThrow
<1>. QED  BY BaseInductive, PTL DEF Base
-----------------------------------------------------------------------------
(* What is under way.                                                      *)

LEMMA EndsFacts ==
  ASSUME NEW d, TypedPattern(d)
  PROVE  /\ d.startTime \in Ends(d)
         /\ \A i \in Intervals(d) : d.sendBehavior # "STD" => d.stopTime - 1 + i \in Ends(d)
  BY DEF Ends

LEMMA EndsInitial == Init => PendingEnds
<1>. SUFFICES ASSUME Init, NEW m \in pending
              PROVE  \E t \in Ends(m.data) : m.at <= t
  BY Zenon DEF PendingEnds
<1>1. rootelement \in Configuration /\ \E n \in Node : m \in loadXMLFile(n)
  BY DEF Init, initialize
<1>2. TypedPattern(m.data) /\ m.at = m.data.startTime
  BY <1>1, LoadedMessages
<1>3. m.at \in Ends(m.data) /\ m.at \in Int
  BY <1>2, EndsFacts DEF TypedPattern
<1>. QED  BY <1>3

(* A message is due by its last time, whatever step is taken.              *)
LEMMA EndsStep ==
  ASSUME Base, PendingEnds, [Next]_vars
  PROVE  PendingEnds'
<1>1. ASSUME pending' \subseteq pending, thrown => thrown'
      PROVE  PendingEnds'
  BY <1>1 DEF PendingEnds
<1>2. ASSUME NEW m \in pending, NEW i \in Intervals(m.data), Resends(m, i)
      PROVE  PendingEnds'
  <2>1. /\ ~ thrown /\ now' = now /\ m.data.sendBehavior # "STD" /\ now < m.data.stopTime
        /\ pending' = (pending \ {m}) \cup {Postponed(m, i)}
    BY <1>2 DEF Resends, IsDue, Again, AfterHearing
  <2>2. i \in Int /\ now \in Int /\ TypedPattern(m.data)
    BY <2>1, PendingAccepted, PendingFacts DEF Base, TypeInv
  <2>3. Postponed(m, i).at = now + i /\ Postponed(m, i).data = m.data
    BY UsedAgain DEF Base, PendingInv
  <2>4. \E t \in Ends(m.data) : now + i <= t
    <3>1. m.data.stopTime - 1 + i \in Ends(m.data) /\ m.data.stopTime \in Int
      BY <2>1, <2>2, EndsFacts DEF TypedPattern
    <3>2. now + i <= m.data.stopTime - 1 + i
      BY <2>1, <2>2, <3>1
    <3>. QED  BY <3>1, <3>2
  <2>5. \A q \in pending' : thrown \/ \E t \in Ends(q.data) : q.at <= t
    BY <2>1, <2>3, <2>4 DEF PendingEnds
  <2>. QED  BY <2>1, <2>5 DEF PendingEnds
<1>3. ASSUME NEW m \in pending, NEW i \in Intervals(m.data), Throws(m, i)
      PROVE  PendingEnds'
  BY <1>1, <1>3 DEF Throws
<1>4. ASSUME NEW m \in pending, SendsOnce(m) \/ Expires(m)
      PROVE  PendingEnds'
  BY <1>1, <1>4 DEF SendsOnce, Expires, IsDue
<1>5. ASSUME NEW c \in flight, Receive(c)
      PROVE  PendingEnds'
  BY <1>1, <1>5 DEF Receive
<1>6. CASE Tick
  BY <1>1, <1>6 DEF Tick
<1>7. CASE UNCHANGED vars
  BY <1>1, <1>7 DEF vars
<1>. QED  BY <1>2, <1>3, <1>4, <1>5, <1>6, <1>7, StepCases DEF Base, TypeInv

(* What a copy under way carries. *)
LEMMA TravelsFacts ==
  ASSUME NEW c, NEW n, NEW d, TypedPattern(d), NEW number, NEW counter, NEW t,
         c.frame = Whole(n, d, number, counter, t)
  PROVE  /\ c.frame.src = n /\ c.frame.dest = d.destination /\ c.frame.creationTime = t
         /\ Counter(c.frame) = counter
         /\ decapsulateMessage(c.frame).vlanTag.user_priority = d.frameprio
         /\ decapsulateMessage(c.frame).vlanTag.preemptionDelay = 0
<1>1. /\ c.frame.src = n /\ c.frame.dest = d.destination /\ c.frame.creationTime = t
      /\ c.frame.inside[1] = Vlan(d, number, counter)
  BY DEF Whole
<1>2. Vlan(d, number, counter).inside[1] = Hsr(d, number, counter)
  BY DEF Vlan
<1>3. Hsr(d, number, counter).inside[1].counter = counter
  BY DEF Hsr, Data
<1>4. decapsulateMessage(c.frame).vlanTag = VlanTag(d, "0x88FB")
  BY Opened DEF TypedPattern
<1>. QED  BY <1>1, <1>2, <1>3, <1>4 DEF Counter, VlanTag

(* The copies a processor sends. *)
LEMMA SentFrames ==
  ASSUME NEW n, NEW d, TypedPattern(d), Send(n, d)
  PROVE  flight' = flight \cup
           {[cpu |-> c, frame |-> Whole(n, d, sequenceNumber[n], messageCount, now)] :
              c \in Audience(Whole(n, d, sequenceNumber[n], messageCount, now))}
<1>1. generateOnePacket(n, d) = Whole(n, d, sequenceNumber[n], messageCount, now)
  BY GeneratedPacket DEF TypedPattern
<1>2. Forwarded(Whole(n, d, sequenceNumber[n], messageCount, now))
        = Whole(n, d, sequenceNumber[n], messageCount, now)
  BY WholeFrames DEF TypedPattern, StaysWhole
<1>. QED  BY <1>1, <1>2 DEF Send

(* What is under way stays a processor's frame on time: Tick waits for     *)
(* what has been under way for MaxDelay.                                   *)
LEMMA UnderwayStep ==
  ASSUME Base, PendingEnds, Underway, [Next]_vars
  PROVE  Underway'
<1>0. TypeInv /\ PendingInv /\ NothingIsLate
  BY DEF Base
<1>1. now \in Nat /\ messageCount \in Nat /\ rootelement \in Configuration /\ MaxDelay \in Nat
  BY <1>0, CpuAssumption DEF TypeInv
<1>2. \A n : Patterns(n)' = Patterns(n)
  BY RootelementStays, ConfigurationStays
<1>3. ASSUME flight' \subseteq flight, now' = now, messageCount' = messageCount
      PROVE  Underway'
  BY <1>2, <1>3 DEF Underway, Travels
<1>4. ASSUME NEW m \in pending, IsDue(m), Send(m.cpu, m.data), AfterHearing
      PROVE  Underway'
  <2>0. PICK number, counter, time :
          number = sequenceNumber[m.cpu] /\ counter = messageCount /\ time = now
    OBVIOUS
  <2> DEFINE W == Whole(m.cpu, m.data, number, counter, time)
             New == {[cpu |-> c, frame |-> W] : c \in Audience(W)}
  <2>1. /\ m.cpu \in Node /\ m.data \in Patterns(m.cpu) /\ TypedPattern(m.data)
        /\ m.at = now /\ ~ thrown
    BY <1>0, <1>1, <1>4, PendingFacts DEF IsDue
  <2>2. flight' = flight \cup New /\ messageCount' = messageCount + 1 /\ now' = now
    <3>1. flight' = flight \cup New
      BY <1>4, <2>0, <2>1, SentFrames
    <3>. QED  BY <1>4, <3>1 DEF Send, AfterHearing
  <2>3. ASSUME NEW c \in flight
        PROVE  \E n \in Node : \E d \in Patterns(n) : \E k, l, t \in Nat :
                 Travels(c, n, d, k, l, t)'
    <3>1. PICK n \in Node : \E d \in Patterns(n) : \E k, l, t \in Nat :
                 Travels(c, n, d, k, l, t)
      BY DEF Underway
    <3>2. PICK d \in Patterns(n) : \E k, l, t \in Nat : Travels(c, n, d, k, l, t)
      BY <3>1
    <3>3. PICK k \in Nat, l \in Nat, t \in Nat : Travels(c, n, d, k, l, t)
      BY <3>2
    <3>4. Travels(c, n, d, k, l, t)'
      BY <1>1, <2>2, <3>3 DEF Travels
    <3>. QED  BY <3>4
  <2>4. ASSUME NEW c \in New
        PROVE  \E n \in Node : \E d \in Patterns(n) : \E k, l, t \in Nat :
                 Travels(c, n, d, k, l, t)'
    <3>1. c = [cpu |-> c.cpu, frame |-> W]
      OBVIOUS
    <3>2. number \in Nat /\ counter \in Nat /\ time \in Nat
      BY <1>0, <1>1, <2>0, <2>1 DEF TypeInv
    <3>3. \E e \in Ends(m.data) : now <= e
      BY <2>1 DEF PendingEnds
    <3>4. Travels(c, m.cpu, m.data, number, counter, time)'
      BY <1>1, <2>0, <2>2, <3>1, <3>3 DEF Travels
    <3>. QED  BY <2>1, <3>2, <3>4
  <2>. HIDE DEF New
  <2>5. \A c \in flight' : \E n \in Node : \E d \in Patterns(n) :
          \E k, l, t \in Nat : Travels(c, n, d, k, l, t)'
    BY <2>2, <2>3, <2>4, Zenon
  <2>. QED  BY <1>2, <2>5, Zenon DEF Underway
<1>5. CASE Tick
  <2>1. /\ flight' = flight /\ now' = now + 1 /\ messageCount' = messageCount
        /\ \A c \in flight : now - c.frame.creationTime < MaxDelay
    BY <1>5 DEF Tick
  <2>2. ASSUME NEW c \in flight
        PROVE  \E n \in Node : \E d \in Patterns(n) : \E number, counter, t \in Nat :
                 Travels(c, n, d, number, counter, t)'
    <3>1. PICK n \in Node : \E d \in Patterns(n) : \E number, counter, t \in Nat :
                 Travels(c, n, d, number, counter, t)
      BY DEF Underway
    <3>2. PICK d \in Patterns(n) : \E number, counter, t \in Nat :
                 Travels(c, n, d, number, counter, t)
      BY <3>1
    <3>3. PICK number \in Nat, counter \in Nat, t \in Nat : Travels(c, n, d, number, counter, t)
      BY <3>2
    <3>4. c.frame.creationTime = t
      BY <3>3 DEF Travels, Whole
    <3>5. now - t < MaxDelay
      BY <2>1, <3>4
    <3>6. Travels(c, n, d, number, counter, t)'
      BY <1>1, <2>1, <3>3, <3>5 DEF Travels
    <3>. QED  BY <3>6
  <2>. QED  BY <1>2, <2>1, <2>2, Zenon DEF Underway
<1>6. ASSUME NEW m \in pending, NEW i \in Intervals(m.data), Throws(m, i)
      PROVE  Underway'
  BY <1>3, <1>6 DEF Throws, SendNothing, AfterHearing
<1>7. ASSUME NEW m \in pending, NEW i \in Intervals(m.data), Resends(m, i)
      PROVE  Underway'
  BY <1>4, <1>7 DEF Resends
<1>8. ASSUME NEW m \in pending, SendsOnce(m)
      PROVE  Underway'
  BY <1>4, <1>8 DEF SendsOnce
<1>9. ASSUME NEW m \in pending, Expires(m)
      PROVE  Underway'
  BY <1>3, <1>9 DEF Expires, SendNothing, AfterHearing
<1>10. ASSUME NEW c \in flight, Receive(c)
       PROVE  Underway'
  BY <1>3, <1>10 DEF Receive
<1>11. CASE UNCHANGED vars
  BY <1>3, <1>11 DEF vars
<1>. QED  BY <1>5, <1>6, <1>7, <1>8, <1>9, <1>10, <1>11, <1>0, StepCases DEF TypeInv

LEMMA FlightInductive == Spec => []FlightInv
<1>1. Init => FlightInv
  <2>1. Init => Underway
    BY DEF Init, Underway
  <2>. QED  BY <2>1, BaseInitial, EndsInitial DEF FlightInv
<1>2. FlightInv /\ [Next]_vars => FlightInv'
  BY BaseStep, EndsStep, UnderwayStep DEF FlightInv
<1>. QED  BY <1>1, <1>2, PTL DEF Spec

(* FramesStayWhole, for every frame of every pattern: a switch that opens  *)
(* a frame and closes it again (MessagePacker) changes nothing, and the    *)
(* two modules for HSR tags undo each other.                               *)
THEOREM NoFrameIsDamaged == Spec => []FramesStayWhole
<1>1. FlightInv => FramesStayWhole
  <2>. SUFFICES ASSUME FlightInv, NEW c \in flight
                PROVE  StaysWhole(c.frame)
    BY Zenon DEF FramesStayWhole, StaysWhole
  <2>0. PICK n \in Node : \E d \in Patterns(n) : \E number, counter, t \in Nat :
          Travels(c, n, d, number, counter, t)
    BY DEF FlightInv, Underway
  <2>1. PICK d \in Patterns(n) : \E number, counter, t \in Nat :
          Travels(c, n, d, number, counter, t)
    BY <2>0
  <2>2. PICK number \in Nat, counter \in Nat, t \in Nat : Travels(c, n, d, number, counter, t)
    BY <2>1
  <2>3. c.frame = Whole(n, d, number, counter, t)
    BY <2>2 DEF Travels
  <2>4. d.paketgroesse \in Nat
    BY PatternsTyped DEF FlightInv, Base, TypeInv, TypedPattern
  <2>. QED  BY <2>3, <2>4, WholeFrames
<1>. QED  BY <1>1, FlightInductive, PTL

(* EndsInTime, for every configuration: an event that is left is at most   *)
(* MaxDelay after a start, or after the frame a load generator schedules   *)
(* last before its stop.                                                   *)
THEOREM SimulationEnds == Spec => []EndsInTime
<1>1. FlightInv => EndsInTime
  <2>. SUFFICES ASSUME FlightInv, ~ thrown, pending # {} \/ flight # {}
                PROVE  \E n \in Node : \E d \in Patterns(n) : \E t \in Ends(d) :
                         now <= t + MaxDelay
    BY DEF EndsInTime
  <2>1. now \in Nat /\ MaxDelay \in Nat /\ rootelement \in Configuration
    BY CpuAssumption DEF FlightInv, Base, TypeInv
  <2>2. ASSUME NEW n \in Node, NEW d \in Patterns(n), NEW e \in Ends(d)
        PROVE  e \in Int
    <3>1. TypedPattern(d) /\ \E m \in loadXMLFile(n) : m.data = d
      BY <2>1, PatternsTyped
    <3>2. scheduleMessage(d)
      BY <3>1 DEF FlightInv, Base, NothingIsLate
    <3>3. d.sendBehavior # "STD" => \A i \in Intervals(d) : i \in Int
      BY <3>1, <3>2, IntervalsNotNegative
    <3>. QED  BY <3>1, <3>3 DEF Ends, TypedPattern
  <2>3. CASE pending # {}
    <3>1. PICK m \in pending : TRUE
      BY <2>3
    <3>2. m.cpu \in Node /\ m.data \in Patterns(m.cpu) /\ m.at \in Int
      BY <2>1, PendingFacts DEF FlightInv, Base
    <3>3. m.at >= now /\ \E t \in Ends(m.data) : m.at <= t
      BY DEF FlightInv, Base, NothingIsLate, PendingEnds
    <3>. QED  BY <2>1, <2>2, <3>2, <3>3
  <2>4. CASE flight # {}
    <3>1. PICK c \in flight : TRUE
      BY <2>4
    <3>0. PICK n \in Node : \E d \in Patterns(n) : \E number, counter, t \in Nat :
            Travels(c, n, d, number, counter, t)
      BY <3>1 DEF FlightInv, Underway
    <3>2. PICK d \in Patterns(n) : \E number, counter, t \in Nat :
            Travels(c, n, d, number, counter, t)
      BY <3>0
    <3>3. PICK t \in Nat : now - t <= MaxDelay /\ \E e \in Ends(d) : t <= e
      BY <3>2 DEF Travels
    <3>4. PICK e \in Ends(d) : t <= e
      BY <3>3
    <3>5. now <= e + MaxDelay
      BY <2>1, <2>2, <3>3, <3>4
    <3>. QED  BY <3>5
  <2>. QED  BY <2>3, <2>4
<1>. QED  BY <1>1, FlightInductive, PTL
-----------------------------------------------------------------------------
(* What is logged.                                                         *)

(* The two parts of EachFrameIsLoggedOnce: the number of delays, and for   *)
(* each priority that they make sense.                                     *)
Counted ==
  messageCount = endToEndDelayStats["EXPRESS"].count + endToEndDelayStats["HIGH"].count
                   + endToEndDelayStats["LOW"].count + Cardinality(ToLog)

(* A delay was under way for a time, and of a pattern's priority.          *)
Plausible(p, s) ==
  s.count > 0 => /\ \E n \in Node : \E d \in Patterns(n) : d.frameprio = p
                 /\ 0 < s.min /\ s.min <= s.max /\ s.max <= MaxDelay

LEMMA LoggedParts ==
  EachFrameIsLoggedOnce
    <=> Counted /\ \A p \in framePriority : Plausible(p, endToEndDelayStats[p])
  BY Zenon DEF EachFrameIsLoggedOnce, Counted, Plausible, ToLog

LEMMA LoggedPartsNext ==
  EachFrameIsLoggedOnce'
    <=> Counted' /\ \A p \in framePriority : Plausible(p, endToEndDelayStats[p])'
  BY Zenon DEF EachFrameIsLoggedOnce, Counted, Plausible, ToLog

LEMMA CollectFacts ==
  ASSUME NEW s \in Stats, NEW val \in Int
  PROVE  /\ collect(s, val) \in Stats /\ collect(s, val).count = s.count + 1
         /\ s.count = 0 => collect(s, val).min = val /\ collect(s, val).max = val
         /\ s.count > 0 => /\ collect(s, val).min = IF val < s.min THEN val ELSE s.min
                           /\ collect(s, val).max = IF val > s.max THEN val ELSE s.max
<1>1. s.count \in Nat /\ s.min \in Int /\ s.max \in Int
  BY DEF Stats
<1>2. CASE s.count = 0
  BY <1>1, <1>2, CollectTyped DEF collect
<1>3. CASE s.count > 0
  BY <1>1, <1>3, CollectTyped DEF collect
<1>. QED  BY <1>1, <1>2, <1>3

(* A plausible delay leaves the histogram plausible.                       *)
LEMMA CollectPlausible ==
  ASSUME NEW p, NEW s \in Stats, NEW val \in Int, Plausible(p, s), 0 < val, val <= MaxDelay,
         \E n \in Node : \E d \in Patterns(n) : d.frameprio = p
  PROVE  Plausible(p, collect(s, val))
<1>1. s.count \in Nat /\ s.min \in Int /\ s.max \in Int /\ MaxDelay \in Int
  BY CpuAssumption DEF Stats
<1> DEFINE new == collect(s, val)
<1>2. 0 < new.min /\ new.min <= new.max /\ new.max <= MaxDelay
  <2>1. CASE s.count = 0
    <3>1. new.min = val /\ new.max = val
      BY <2>1, CollectFacts
    <3>. HIDE DEF new
    <3>. QED  BY <1>1, <3>1
  <2>2. CASE s.count > 0
    <3>1. 0 < s.min /\ s.min <= s.max /\ s.max <= MaxDelay
      BY <2>2 DEF Plausible
    <3>2. /\ new.min = IF val < s.min THEN val ELSE s.min
          /\ new.max = IF val > s.max THEN val ELSE s.max
      BY <2>2, CollectFacts
    <3>. HIDE DEF new
    <3>. QED  BY <1>1, <3>1, <3>2
  <2>. QED  BY <1>1, <2>1, <2>2
<1>. QED  BY <1>2, Zenon DEF Plausible

(* Of all that hear a frame one logs it.                                   *)
Logger(f) == IF f.dest \in {Group, Absent} THEN f.src ELSE f.dest

(* Of the processors that hear a frame one logs it.                        *)
LEMMA OneLogger ==
  ASSUME NEW n \in Node, NEW f, f.src = n, f.dest # n
  PROVE  {c \in {[cpu |-> a, frame |-> f] : a \in Audience(f)} : Logs(c.cpu, c.frame)}
           = {[cpu |-> Logger(f), frame |-> f]}
<1>1. n \in Nat /\ n # Group /\ n # Absent
  BY CpuAssumption DEF Group, Absent
<1>2. ASSUME NEW a \in Audience(f)
      PROVE  Logs(a, f) <=> a = Logger(f)
  <2>1. CASE f.dest = Group
    <3>1. a \in Node /\ a # Group
      BY <2>1, CpuAssumption DEF Audience, Group
    <3>. QED  BY <2>1, <3>1 DEF Logs, Logger
  <2>2. CASE f.dest = Absent
    BY <2>2 DEF Logs, Logger, Audience, Absent, Group
  <2>3. CASE f.dest # Group /\ f.dest # Absent
    BY <2>3 DEF Logs, Logger, Audience
  <2>. QED  BY <2>1, <2>2, <2>3
<1>3. Logger(f) \in Audience(f)
  <2>1. CASE f.dest = Group
    BY <2>1 DEF Logger, Audience
  <2>2. CASE f.dest = Absent
    BY <2>2 DEF Logger, Audience, Absent, Group
  <2>3. CASE f.dest # Group /\ f.dest # Absent
    BY <2>3 DEF Logger, Audience
  <2>. QED  BY <2>1, <2>2, <2>3
<1>. QED  BY <1>2, <1>3

LEMMA LogInitial == Init => LogInv
<1>. SUFFICES ASSUME Init  PROVE LogInv
  OBVIOUS
<1>1. /\ messageCount = 0 /\ flight = {}
      /\ endToEndDelayStats = [p \in framePriority |-> [count |-> 0, min |-> 0, max |-> 0]]
  BY DEF Init
<1>2. ToLog = {} /\ IsFiniteSet(ToLog) /\ Cardinality(ToLog) = 0
  BY <1>1, FS_EmptySet DEF ToLog
<1>3. endToEndDelayStats \in [framePriority -> Stats]
  BY <1>1 DEF Stats
<1>4. \A p \in framePriority : endToEndDelayStats[p].count = 0
  BY <1>1
<1>5. Counted
  BY <1>1, <1>2, <1>4 DEF Counted, framePriority
<1>6. \A p \in framePriority : Plausible(p, endToEndDelayStats[p])
  BY <1>4 DEF Plausible
<1>. QED  BY <1>2, <1>3, <1>5, <1>6, LoggedParts DEF LogInv

(* Each step logs a frame once or not at all.                              *)
LEMMA LogStep ==
  ASSUME FlightInv, LogInv, [Next]_vars
  PROVE  LogInv'
<1>0. /\ Base /\ TypeInv /\ PendingInv /\ Underway /\ rootelement \in Configuration
      /\ now \in Nat /\ messageCount \in Nat
      /\ IsFiniteSet(ToLog) /\ endToEndDelayStats \in [framePriority -> Stats]
      /\ Counted /\ \A p \in framePriority : Plausible(p, endToEndDelayStats[p])
  BY LoggedParts DEF FlightInv, LogInv, Base, TypeInv
<1>1. \A n : Patterns(n)' = Patterns(n)
  BY RootelementStays, ConfigurationStays
<1>3. ASSUME flight' = flight, messageCount' = messageCount,
             endToEndDelayStats' = endToEndDelayStats
      PROVE  LogInv'
  <2>1. ToLog' = ToLog
    BY <1>3 DEF ToLog
  <2>2. Counted'
    BY <1>0, <1>3, <2>1 DEF Counted
  <2>3. \A p \in framePriority : Plausible(p, endToEndDelayStats[p])'
    BY <1>0, <1>1, <1>3 DEF Plausible
  <2>. QED  BY <1>0, <1>3, <2>1, <2>2, <2>3, LoggedPartsNext DEF LogInv
<1>4. ASSUME NEW m \in pending, Send(m.cpu, m.data), AfterHearing
      PROVE  LogInv'
  <2>0. PICK number, counter, time :
          number = sequenceNumber[m.cpu] /\ counter = messageCount /\ time = now
    OBVIOUS
  <2> DEFINE W == Whole(m.cpu, m.data, number, counter, time)
             x == [cpu |-> Logger(W), frame |-> W]
             New == {[cpu |-> c, frame |-> W] : c \in Audience(W)}
  <2>1. /\ m.cpu \in Node /\ TypedPattern(m.data) /\ m.data.destination # m.cpu
    BY <1>0, PendingFacts
  <2>2. flight' = flight \cup New
    BY <1>4, <2>0, <2>1, SentFrames
  <2>3. messageCount' = messageCount + 1 /\ endToEndDelayStats' = endToEndDelayStats
    BY <1>4 DEF Send, AfterHearing
  <2>4. W.src = m.cpu /\ W.dest # m.cpu
    BY <2>1 DEF Whole
  <2>5. {c \in New : Logs(c.cpu, c.frame)} = {x}
    BY <2>1, <2>4, OneLogger
  <2>6. ToLog' = ToLog \cup {x}
    <3>. HIDE DEF New, x
    <3>. QED  BY <2>2, <2>5 DEF ToLog
  <2>7. x \notin flight
    <3>. SUFFICES ASSUME x \in flight  PROVE FALSE
      OBVIOUS
    <3>1. Counter(x.frame) = counter
      <4>1. x.frame = W
        OBVIOUS
      <4>. QED  BY <2>1, <4>1, TravelsFacts
    <3>2. PICK n \in Node : \E d \in Patterns(n) : \E k, l, t \in Nat : Travels(x, n, d, k, l, t)
      BY <1>0 DEF Underway
    <3>3. PICK d \in Patterns(n) : \E k, l, t \in Nat : Travels(x, n, d, k, l, t)
      BY <3>2
    <3>4. PICK k \in Nat, l \in Nat, t \in Nat : Travels(x, n, d, k, l, t)
      BY <3>3
    <3>5. x.frame = Whole(n, d, k, l, t) /\ l < messageCount
      BY <3>4 DEF Travels
    <3>6. Counter(x.frame) = l
      BY <1>0, <3>5, PatternsTyped, TravelsFacts
    <3>. QED  BY <1>0, <2>0, <3>1, <3>5, <3>6
  <2>8. IsFiniteSet(ToLog') /\ Cardinality(ToLog') = Cardinality(ToLog) + 1
    <3>1. x \notin ToLog
      BY <2>7 DEF ToLog
    <3>. HIDE DEF x
    <3>. QED  BY <1>0, <2>6, <3>1, FS_AddElement
  <2>9. Cardinality(ToLog) \in Nat
    BY <1>0, FS_CardinalityType
  <2>10. Counted'
    <3>1. \A p \in framePriority : endToEndDelayStats[p].count \in Nat
      BY <1>0 DEF Stats
    <3>. QED  BY <1>0, <2>3, <2>8, <2>9, <3>1 DEF Counted, framePriority
  <2>11. \A p \in framePriority : Plausible(p, endToEndDelayStats[p])'
    BY <1>0, <1>1, <2>3 DEF Plausible
  <2>. QED  BY <1>0, <2>3, <2>8, <2>10, <2>11, LoggedPartsNext DEF LogInv
<1>5. ASSUME NEW c \in flight, Receive(c)
      PROVE  LogInv'
  <2>1. /\ flight' = flight \ {c} /\ messageCount' = messageCount
        /\ c.frame.creationTime < now
        /\ IF Logs(c.cpu, c.frame) THEN addDelay(c.frame)
           ELSE endToEndDelayStats' = endToEndDelayStats
    BY <1>5 DEF Receive
  <2>2. CASE ~ Logs(c.cpu, c.frame)
    <3>1. ToLog' = ToLog
      BY <2>1, <2>2 DEF ToLog
    <3>2. Counted'
      BY <1>0, <2>1, <2>2, <3>1 DEF Counted
    <3>3. \A p \in framePriority : Plausible(p, endToEndDelayStats[p])'
      BY <1>0, <1>1, <2>1, <2>2 DEF Plausible
    <3>. QED  BY <1>0, <2>1, <2>2, <3>1, <3>2, <3>3, LoggedPartsNext DEF LogInv
  <2>3. CASE Logs(c.cpu, c.frame)
    <3>1. PICK n \in Node : \E d \in Patterns(n) : \E k, l, t \in Nat : Travels(c, n, d, k, l, t)
      BY <1>0 DEF Underway
    <3>2. PICK d \in Patterns(n) : \E k, l, t \in Nat : Travels(c, n, d, k, l, t)
      BY <3>1
    <3>3. PICK k \in Nat, l \in Nat, t \in Nat : Travels(c, n, d, k, l, t)
      BY <3>2
    <3>4. c.frame = Whole(n, d, k, l, t) /\ now - t <= MaxDelay
      BY <3>3 DEF Travels
    <3>5. TypedPattern(d) /\ d.frameprio \in framePriority
      BY <1>0, PatternsTyped DEF TypedPattern
    <3>6. /\ c.frame.creationTime = t
          /\ decapsulateMessage(c.frame).vlanTag.user_priority = d.frameprio
          /\ decapsulateMessage(c.frame).vlanTag.preemptionDelay = 0
      BY <3>4, <3>5, TravelsFacts
    <3>7. PICK q \in framePriority : q = d.frameprio
      BY <3>5
    <3>8. PICK val \in Int : val = now - t /\ 0 < val /\ val <= MaxDelay
      BY <1>0, <2>1, <3>4, <3>6
    <3>9. endToEndDelayStats' =
            [endToEndDelayStats EXCEPT ![q] = collect(endToEndDelayStats[q], val)]
      <4>1. now - t + 0 = val
        BY <1>0, <3>8
      <4>2. endToEndDelayStats' =
              [endToEndDelayStats EXCEPT ![d.frameprio] =
                 collect(endToEndDelayStats[d.frameprio], now - t + 0)]
        <5>1. addDelay(c.frame)
          BY <2>1, <2>3
        <5>. QED  BY <3>6, <5>1, Zenon DEF addDelay
      <4>. QED  BY <3>7, <4>1, <4>2, Zenon
    <3>10. /\ endToEndDelayStats[q] \in Stats
           /\ collect(endToEndDelayStats[q], val) \in Stats
           /\ collect(endToEndDelayStats[q], val).count = endToEndDelayStats[q].count + 1
      BY <1>0, CollectFacts
    <3>11. \A p \in framePriority :
             endToEndDelayStats'[p] = IF p = q THEN collect(endToEndDelayStats[q], val)
                                      ELSE endToEndDelayStats[p]
      BY <1>0, <3>9
    <3>12. endToEndDelayStats' \in [framePriority -> Stats]
      BY <1>0, <3>9, <3>10
    <3>13. IsFiniteSet(ToLog') /\ Cardinality(ToLog') = Cardinality(ToLog) - 1
      <4>1. ToLog' = ToLog \ {c} /\ c \in ToLog
        BY <2>1, <2>3 DEF ToLog
      <4>. QED  BY <1>0, <4>1, FS_RemoveElement
    <3>14. Cardinality(ToLog) \in Nat
      BY <1>0, FS_CardinalityType
    <3>15. Counted'
      <4> DEFINE count(p) == endToEndDelayStats[p].count
                 new(p) == endToEndDelayStats'[p].count
      <4>1. \A p \in framePriority : count(p) \in Nat /\ new(p) = IF p = q THEN count(p) + 1
                                                                ELSE count(p)
        BY <1>0, <3>10, <3>11 DEF Stats
      <4>2. messageCount = count("EXPRESS") + count("HIGH") + count("LOW") + Cardinality(ToLog)
        BY <1>0 DEF Counted
      <4>. HIDE DEF count, new
      <4>3. messageCount = new("EXPRESS") + new("HIGH") + new("LOW") + Cardinality(ToLog')
        BY <1>0, <3>7, <3>13, <3>14, <4>1, <4>2 DEF framePriority
      <4>. QED  BY <2>1, <4>3 DEF Counted, new
    <3>16. ASSUME NEW p \in framePriority
           PROVE  Plausible(p, endToEndDelayStats[p])'
      <4>1. \E a \in Node : \E b \in Patterns(a) : b.frameprio = q
        BY <3>7
      <4>2. Plausible(p, IF p = q THEN collect(endToEndDelayStats[q], val)
                         ELSE endToEndDelayStats[p])
        <5>1. CASE p = q
          BY <1>0, <3>8, <3>10, <4>1, <5>1, CollectPlausible
        <5>2. CASE p # q
          BY <1>0, <5>2
        <5>. QED  BY <5>1, <5>2
      <4>. QED  BY <1>1, <3>11, <4>2 DEF Plausible
    <3>. QED  BY <3>12, <3>13, <3>15, <3>16, LoggedPartsNext DEF LogInv
  <2>. QED  BY <2>2, <2>3
<1>6. ASSUME NEW m \in pending, NEW i \in Intervals(m.data), Throws(m, i)
      PROVE  LogInv'
  BY <1>3, <1>6 DEF Throws, SendNothing, AfterHearing
<1>7. ASSUME NEW m \in pending, NEW i \in Intervals(m.data), Resends(m, i)
      PROVE  LogInv'
  BY <1>4, <1>7 DEF Resends
<1>8. ASSUME NEW m \in pending, SendsOnce(m)
      PROVE  LogInv'
  BY <1>4, <1>8 DEF SendsOnce
<1>9. ASSUME NEW m \in pending, Expires(m)
      PROVE  LogInv'
  BY <1>3, <1>9 DEF Expires, SendNothing, AfterHearing
<1>10. CASE Tick
  BY <1>3, <1>10 DEF Tick
<1>11. CASE UNCHANGED vars
  BY <1>3, <1>11 DEF vars
<1>. QED  BY <1>0, <1>5, <1>6, <1>7, <1>8, <1>9, <1>10, <1>11, StepCases DEF TypeInv

(* EachFrameIsLoggedOnce, for every configuration and number of frames: of *)
(* the processors that hear a frame (CPU.cc 615-632) just one reports it   *)
(* to DelayLogger, however the copies overtake each other.                 *)
THEOREM OneLogsEachFrame == Spec => []EachFrameIsLoggedOnce
<1>1. Init => FlightInv /\ LogInv
  <2>1. Init => Underway
    BY DEF Init, Underway
  <2>. QED  BY <2>1, BaseInitial, EndsInitial, LogInitial DEF FlightInv
<1>2. FlightInv /\ LogInv /\ [Next]_vars => FlightInv' /\ LogInv'
  BY BaseStep, EndsStep, UnderwayStep, LogStep DEF FlightInv
<1>3. LogInv => EachFrameIsLoggedOnce
  BY DEF LogInv
<1>. QED  BY <1>1, <1>2, <1>3, PTL DEF Spec
-----------------------------------------------------------------------------
(* What a load allows.                                                     *)

(* A frame with its preamble is 32 bytes longer than its data.             *)
LEMMA LineLength ==
  ASSUME NEW d, TypedPattern(d)
  PROVE  LineBytes(d) = d.paketgroesse + 32
<1>1. generateOnePacket(0, d) = Whole(0, d, sequenceNumber[0], messageCount, now)
  BY GeneratedPacket DEF TypedPattern
<1>2. generateOnePacket(0, d).length = d.paketgroesse + 24
  BY <1>1 DEF Whole
<1>. QED  BY <1>2 DEF LineBytes, TypedPattern

(* A greater load gives more bytes in the same time.                       *)
LEMMA GreaterLoad ==
  ASSUME NEW r \in Int, NEW load \in Int, NEW b \in Nat, r <= load
  PROVE  r * b <= load * b
<1>1. (load - r) \in Nat /\ (load - r) * b >= 0
  OBVIOUS
<1>2. (load - r) * b = load * b - r * b
  OBVIOUS
<1>. QED  BY <1>1, <1>2

(* Time for k frames and time for one are time for k + 1.                  *)
LEMMA LongerLoad ==
  ASSUME NEW k \in Nat, NEW bytes \in Int, NEW load \in Int, NEW a \in Int, NEW b \in Int,
         (k = 0 /\ a = 0) \/ k * bytes < load * a, bytes < load * b
  PROVE  (k + 1) * bytes < load * (a + b)
<1>1. (k + 1) * bytes = k * bytes + bytes /\ load * (a + b) = load * a + load * b
  OBVIOUS
<1>2. k * bytes <= load * a
  <2>1. CASE k = 0 /\ a = 0
    BY <2>1
  <2>2. CASE k * bytes < load * a
    BY <2>2
  <2>. QED  BY <2>1, <2>2
<1>3. k * bytes \in Int /\ load * a \in Int /\ load * b \in Int
  OBVIOUS
<1>. QED  BY <1>1, <1>2, <1>3

(* An interval that is not below 0 leaves time for the bytes of a frame.   *)
LEMMA IntervalsLeaveTime ==
  ASSUME NEW d, TypedPattern(d), d.sendBehavior \in {"CONSTANT_LOADGEN", "UNIFORM_LOADGEN"},
         d.last > 0, NEW i \in Intervals(d), i \in Int, i >= 0
  PROVE  d.paketgroesse + 32 < MaxLoad(d) * (i + 1)
<1>1. PICK r \in Waits(d, d.last, d.maxLast) : r # 0 /\ i = LoadInterval(r, d.paketgroesse)
  BY IntervalsAre DEF TypedPattern
<1>2. r \in Int /\ r <= MaxLoad(d) /\ MaxLoad(d) \in Int
  <2>1. CASE d.sendBehavior = "CONSTANT_LOADGEN"
    <3>1. r = d.last
      BY <1>1, <2>1 DEF Waits, TypedPattern
    <3>. QED  BY <2>1, <3>1 DEF MaxLoad, TypedPattern
  <2>2. CASE d.sendBehavior = "UNIFORM_LOADGEN"
    <3>1. r \in uniform(d.last, d.maxLast)
      BY <1>1, <2>2 DEF Waits
    <3>2. r \in Int /\ ((d.last <= r /\ r <= d.maxLast) \/ (d.maxLast <= r /\ r <= d.last))
      BY <3>1, Variates DEF TypedPattern
    <3>. QED  BY <2>2, <3>2 DEF MaxLoad, TypedPattern
  <2>. QED  BY <2>1, <2>2
<1>3. r > 0
  BY <1>1, <1>2, LoadIntervals DEF TypedPattern
<1>4. d.paketgroesse + 32 < r * (i + 1)
  BY <1>1, <1>2, <1>3, LoadIntervals DEF TypedPattern
<1>5. r * (i + 1) <= MaxLoad(d) * (i + 1)
  BY <1>2, GreaterLoad
<1>6. r * (i + 1) \in Int /\ MaxLoad(d) * (i + 1) \in Int /\ d.paketgroesse + 32 \in Int
  BY <1>2 DEF TypedPattern
<1>. QED  BY <1>4, <1>5, <1>6

(* One more frame keeps to the load, an interval later.                    *)
LEMMA KeepsOneMore ==
  ASSUME NEW d, TypedPattern(d), d.sendBehavior \in {"CONSTANT_LOADGEN", "UNIFORM_LOADGEN"},
         d.last > 0, NEW i \in Intervals(d), i \in Int, i >= 0,
         NEW k \in Nat, NEW time \in Int, Keeps(k, d, time)
  PROVE  Keeps(k + 1, d, time + i)
<1> DEFINE bytes == d.paketgroesse + 32
           load == MaxLoad(d)
           a == time - d.startTime + k
<1>1. bytes \in Int /\ load \in Int /\ a \in Int
  BY DEF TypedPattern, MaxLoad
<1>2. bytes < load * (i + 1)
  BY IntervalsLeaveTime
<1>3. (k = 0 /\ a = 0) \/ k * bytes < load * a
  BY DEF Keeps, TypedPattern
<1>4. a + (i + 1) = (time + i) - d.startTime + (k + 1)
  BY DEF TypedPattern
<1>. HIDE DEF bytes, load, a
<1>5. (k + 1) * bytes < load * (a + (i + 1))
  BY <1>1, <1>2, <1>3, LongerLoad
<1>6. k + 1 # 0
  OBVIOUS
<1>. QED  BY <1>4, <1>5, <1>6 DEF Keeps, bytes, load

(* The one pattern of a restricted sender is that of all its messages.     *)
LEMMA RestrictedSender ==
  ASSUME rootelement \in Configuration, PendingInv, NEW n \in Node, NEW m0 \in loadXMLFile(n),
         Restricted(n, m0), NEW m \in pending, m.cpu = n
  PROVE  /\ m.data = m0.data
         /\ \A q \in pending : q.cpu = n => q = m
<1>1. \A q \in pending : q.cpu = n => Loaded(q) = m0
  BY DEF PendingInv, Restricted
<1>2. \A q : Loaded(q).data = q.data /\ Loaded(q).place = q.place
  BY DEF Loaded, cpuSelfMessage
<1>3. \A q \in pending : q.cpu = n => q.place = m0.place /\ q.data = m0.data
  BY <1>1, <1>2
<1>. QED  BY <1>3 DEF PendingInv

(* LoadIsKept is that of every sender with one pattern.                    *)
LEMMA KeptByAll ==
  ASSUME rootelement \in Configuration
  PROVE  LoadIsKept <=>
           \A n \in Node : \A m \in loadXMLFile(n) : Restricted(n, m) => KeptBy(n, m.data)
<1>1. ASSUME NEW n \in Node, NEW m \in loadXMLFile(n)
      PROVE  LineBytes(m.data) = m.data.paketgroesse + 32
  BY LoadedMessages, LineLength
<1>. QED  BY <1>1 DEF LoadIsKept, Restricted, KeptBy, MaxLoad

LEMMA LoadInitial == Init => LoadInv
<1>. SUFFICES ASSUME Init, NEW n \in Node, NEW m0 \in loadXMLFile(n), Restricted(n, m0)
              PROVE  /\ KeptBy(n, m0.data)
                     /\ \A m \in pending : m.cpu = n => Keeps(numFramesSent[n], m0.data, m.at)
  BY DEF LoadInv
<1>1. numFramesSent[n] = 0 /\ rootelement \in Configuration
  BY DEF Init, initialize
<1>2. KeptBy(n, m0.data)
  BY <1>1 DEF KeptBy
<1>3. ASSUME NEW m \in pending, m.cpu = n
      PROVE  m.at = m0.data.startTime
  <2>1. PICK k \in Node : m \in loadXMLFile(k)
    BY DEF Init, initialize
  <2>2. k = n
    BY <1>1, <1>3, <2>1, LoadedMessages
  <2>3. m = m0
    BY <2>1, <2>2 DEF Restricted
  <2>. QED  BY <1>1, <2>3, LoadedMessages
<1>. QED  BY <1>1, <1>2, <1>3 DEF Keeps

(* A load generator that keeps to its load still does after each step.     *)
LEMMA LoadStep ==
  ASSUME Base, LoadInv, [Next]_vars
  PROVE  LoadInv'
<1>0. /\ TypeInv /\ PendingInv /\ rootelement \in Configuration /\ now \in Nat
      /\ numFramesSent \in [Node -> Nat] /\ rootelement' = rootelement
  BY RootelementStays DEF Base, TypeInv
<1>1. \A n : loadXMLFile(n)' = loadXMLFile(n)
  BY <1>0, ConfigurationStays
<1>. SUFFICES ASSUME NEW n \in Node, NEW m0 \in loadXMLFile(n), Restricted(n, m0)
              PROVE  /\ KeptBy(n, m0.data)'
                     /\ \A m \in pending' : m.cpu = n /\ ~ thrown' =>
                          Keeps(numFramesSent'[n], m0.data, m.at)
  BY <1>1 DEF LoadInv, Restricted
<1> DEFINE d == m0.data
<1>2. /\ KeptBy(n, d)
      /\ \A m \in pending : m.cpu = n /\ ~ thrown => Keeps(numFramesSent[n], d, m.at)
  BY DEF LoadInv
<1>3. /\ TypedPattern(d) /\ d.sendBehavior \in {"CONSTANT_LOADGEN", "UNIFORM_LOADGEN"}
      /\ d.sendBehavior # "STD" /\ d.last > 0 /\ MaxLoad(d) \in Int /\ MaxLoad(d) > 0
  <2>1. TypedPattern(d) /\ d.sendBehavior \in {"CONSTANT_LOADGEN", "UNIFORM_LOADGEN"} /\ d.last > 0
    BY <1>0, LoadedMessages DEF Restricted
  <2>. HIDE DEF d
  <2>. QED  BY <2>1 DEF TypedPattern, MaxLoad
<1>. HIDE DEF d
<1>4. ASSUME pending' \subseteq pending, numFramesSent'[n] = numFramesSent[n], now' = now,
             ~ thrown' => ~ thrown
      PROVE  /\ KeptBy(n, d)'
             /\ \A m \in pending' : m.cpu = n /\ ~ thrown' => Keeps(numFramesSent'[n], d, m.at)
  <2>1. KeptBy(n, d)'
    BY <1>2, <1>4 DEF KeptBy
  <2>. QED  BY <1>2, <1>4, <2>1
<1>5. ASSUME NEW m \in pending, NEW i \in Intervals(m.data), Resends(m, i)
      PROVE  /\ KeptBy(n, d)'
             /\ \A q \in pending' : q.cpu = n /\ ~ thrown' => Keeps(numFramesSent'[n], d, q.at)
  <2>1. /\ ~ thrown /\ m.at = now /\ now' = now /\ ~ (i < 0) /\ m.data.sendBehavior # "STD"
        /\ pending' = (pending \ {m}) \cup {Postponed(m, i)}
        /\ numFramesSent' = [numFramesSent EXCEPT ![m.cpu] = @ + 1]
    BY <1>5 DEF Resends, IsDue, Again, AfterHearing, Send
  <2>2. /\ Postponed(m, i).cpu = m.cpu /\ Postponed(m, i).at = now + i
        /\ i \in Int /\ i >= 0 /\ m.cpu \in Node
    <3>1. i \in Int
      BY <2>1, PendingAccepted
    <3>. QED  BY <1>0, <2>1, <3>1, UsedAgain DEF PendingInv
  <2>3. CASE m.cpu # n
    <3>1. numFramesSent'[n] = numFramesSent[n]
      BY <1>0, <2>1, <2>2, <2>3
    <3>2. KeptBy(n, d)'
      BY <1>2, <2>1, <3>1 DEF KeptBy
    <3>3. \A q \in pending' : q.cpu = n => q \in pending
      BY <2>1, <2>2, <2>3
    <3>. QED  BY <1>2, <2>1, <3>1, <3>2, <3>3
  <2>4. CASE m.cpu = n
    <3>1. m.data = d /\ \A q \in pending : q.cpu = n => q = m
      BY <1>0, <2>4, RestrictedSender DEF d
    <3>2. PICK k \in Nat : k = numFramesSent[n]
      BY <1>0
    <3>3. numFramesSent'[n] = k + 1
      BY <1>0, <2>1, <2>4, <3>2
    <3>4. Keeps(k, d, now)
      BY <1>2, <2>1, <2>4, <3>2
    <3>5. Keeps(k + 1, d, now + i)
      BY <1>0, <1>3, <2>2, <3>1, <3>4, KeepsOneMore
    <3>6. KeptBy(n, d)'
      <4>1. (k + 1) - 1 = k
        OBVIOUS
      <4>2. k > 0 => k * (d.paketgroesse + 32) < MaxLoad(d) * (now - d.startTime + k)
        BY <3>4 DEF Keeps
      <4>. QED  BY <2>1, <3>3, <4>1, <4>2 DEF KeptBy
    <3>7. \A q \in pending' : q.cpu = n => q.at = now + i
      BY <2>1, <2>2, <3>1
    <3>. QED  BY <3>3, <3>5, <3>6, <3>7
  <2>. QED  BY <2>3, <2>4
<1>6. ASSUME NEW m \in pending, SendsOnce(m)
      PROVE  /\ KeptBy(n, d)'
             /\ \A q \in pending' : q.cpu = n /\ ~ thrown' => Keeps(numFramesSent'[n], d, q.at)
  <2>1. /\ ~ thrown /\ now' = now /\ m.data.sendBehavior = "STD" /\ pending' \subseteq pending
        /\ numFramesSent' = [numFramesSent EXCEPT ![m.cpu] = @ + 1]
    BY <1>6 DEF SendsOnce, IsDue, AfterHearing, Send
  <2>2. m.cpu # n
    BY <1>0, <1>3, <2>1, RestrictedSender DEF d
  <2>3. numFramesSent'[n] = numFramesSent[n]
    BY <1>0, <2>1, <2>2
  <2>. QED  BY <1>4, <2>1, <2>3
<1>7. ASSUME NEW m \in pending, Expires(m)
      PROVE  /\ KeptBy(n, d)'
             /\ \A q \in pending' : q.cpu = n /\ ~ thrown' => Keeps(numFramesSent'[n], d, q.at)
  BY <1>4, <1>7 DEF Expires, IsDue, SendNothing, AfterHearing
<1>8. ASSUME NEW m \in pending, NEW i \in Intervals(m.data), Throws(m, i)
      PROVE  /\ KeptBy(n, d)'
             /\ \A q \in pending' : q.cpu = n /\ ~ thrown' => Keeps(numFramesSent'[n], d, q.at)
  BY <1>4, <1>8 DEF Throws, IsDue, SendNothing, AfterHearing
<1>9. ASSUME NEW c \in flight, Receive(c)
      PROVE  /\ KeptBy(n, d)'
             /\ \A q \in pending' : q.cpu = n /\ ~ thrown' => Keeps(numFramesSent'[n], d, q.at)
  BY <1>4, <1>9 DEF Receive
<1>10. ASSUME Tick
       PROVE  /\ KeptBy(n, d)'
              /\ \A q \in pending' : q.cpu = n /\ ~ thrown' => Keeps(numFramesSent'[n], d, q.at)
  <2>1. /\ pending' = pending /\ now' = now + 1 /\ numFramesSent' = numFramesSent
        /\ thrown' = thrown
    BY <1>10 DEF Tick
  <2>2. KeptBy(n, d)'
    <3> DEFINE k == numFramesSent[n] - 1
               a == now - d.startTime + k
               load == MaxLoad(d)
    <3>1. k \in Int /\ a \in Int /\ load \in Int /\ load > 0
      BY <1>0, <1>3 DEF TypedPattern
    <3>2. k > 0 => k * (d.paketgroesse + 32) < load * a
      BY <1>2 DEF KeptBy
    <3>3. (now + 1) - d.startTime + k = a + 1
      BY <1>0, <1>3, <3>1 DEF TypedPattern
    <3>4. k * (d.paketgroesse + 32) \in Int
      BY <1>3, <3>1 DEF TypedPattern
    <3>. HIDE DEF k, a, load
    <3>5. load * (a + 1) = load * a + load /\ load * a \in Int
      BY <3>1
    <3>6. k > 0 => k * (d.paketgroesse + 32) < load * (a + 1)
      BY <3>1, <3>2, <3>4, <3>5
    <3>. QED  BY <2>1, <3>3, <3>6 DEF KeptBy, k, load
  <2>. QED  BY <1>2, <2>1, <2>2
<1>11. ASSUME UNCHANGED vars
       PROVE  /\ KeptBy(n, d)'
              /\ \A q \in pending' : q.cpu = n /\ ~ thrown' => Keeps(numFramesSent'[n], d, q.at)
  BY <1>4, <1>11 DEF vars
<1>. QED  BY <1>0, <1>5, <1>6, <1>7, <1>8, <1>9, <1>10, <1>11, StepCases DEF TypeInv, d

(* LoadIsKept, for every load, size of frames and random choice: what a    *)
(* load generator puts on the line (CPU.cc 535-546) never exceeds the load *)
(* its pattern states, but for the rounding of an interval to a tick.      *)
THEOREM LoadsAreKept == Spec => []LoadIsKept
<1>1. Base /\ LoadInv => LoadIsKept
  BY KeptByAll DEF LoadInv, Base, TypeInv
<1>2. Init => Base /\ LoadInv
  BY BaseInitial, LoadInitial
<1>3. Base /\ LoadInv /\ [Next]_vars => Base' /\ LoadInv'
  BY BaseStep, LoadStep
<1>. QED  BY <1>1, <1>2, <1>3, PTL DEF Spec

-----------------------------------------------------------------------------
(* What is sent when nothing is due any more.                              *)

(* A quotient is the one number between these bounds.                      *)
LEMMA DivUnique ==
  ASSUME NEW x \in Int, NEW i \in Nat, i > 0, NEW j \in Int, j * i <= x, x < (j + 1) * i
  PROVE  x \div i = j
<1> DEFINE q == x \div i
<1>1. q \in Int /\ q * i <= x /\ x < (q + 1) * i
  BY SMTT(30)
<1>. HIDE DEF q
<1>2. ASSUME q < j  PROVE FALSE
  <2>1. (q + 1) * i <= j * i
    BY <1>1, <1>2, GreaterLoad
  <2>2. (q + 1) * i \in Int /\ j * i \in Int
    BY <1>1
  <2>. QED  BY <1>1, <2>1, <2>2
<1>3. ASSUME j < q  PROVE FALSE
  <2>1. (j + 1) * i <= q * i
    BY <1>1, <1>3, GreaterLoad
  <2>2. (j + 1) * i \in Int /\ q * i \in Int
    BY <1>1
  <2>. QED  BY <1>1, <2>1, <2>2
<1>4. q = j
  BY <1>1, <1>2, <1>3
<1>. QED  BY <1>4 DEF q

(* One more frame of a pattern is one more number.                         *)
LEMMA NumberedAdd ==
  ASSUME NEW own, NEW c \in [own -> Nat], NEW m0 \in own,
         \A m1, m2 \in own : m1.place = m2.place => m1 = m2
  PROVE  /\ [c EXCEPT ![m0] = c[m0] + 1] \in [own -> Nat]
         /\ Numbered(own, [c EXCEPT ![m0] = c[m0] + 1])
              = Numbered(own, c) \cup {<<m0.place, c[m0] + 1>>}
         /\ <<m0.place, c[m0] + 1>> \notin Numbered(own, c)
<1> DEFINE c1 == [c EXCEPT ![m0] = c[m0] + 1]
           x  == <<m0.place, c[m0] + 1>>
<1>1. c1 \in [own -> Nat] /\ \A m \in own : c1[m] = IF m = m0 THEN c[m0] + 1 ELSE c[m]
  OBVIOUS
<1>2. \A y : y \in Numbered(own, c) <=> \E m \in own : \E k \in 1 .. c[m] : y = <<m.place, k>>
  BY DEF Numbered
<1>3. \A y : y \in Numbered(own, c1) <=> \E m \in own : \E k \in 1 .. c1[m] : y = <<m.place, k>>
  BY DEF Numbered
<1>. HIDE DEF c1
<1>4. ASSUME NEW y \in Numbered(own, c1)
      PROVE  y \in Numbered(own, c) \/ y = x
  <2>1. PICK m \in own : \E k \in 1 .. c1[m] : y = <<m.place, k>>
    BY <1>3
  <2>2. PICK k \in 1 .. c1[m] : y = <<m.place, k>>
    BY <2>1
  <2>3. CASE m = m0 /\ k = c[m0] + 1
    BY <2>2, <2>3
  <2>4. CASE ~ (m = m0 /\ k = c[m0] + 1)
    <3>1. k \in 1 .. c[m]
      BY <1>1, <2>4
    <3>. QED  BY <1>2, <2>2, <3>1
  <2>. QED  BY <2>3, <2>4
<1>5. ASSUME NEW y \in Numbered(own, c)
      PROVE  y \in Numbered(own, c1)
  <2>1. PICK m \in own : \E k \in 1 .. c[m] : y = <<m.place, k>>
    BY <1>2
  <2>2. PICK k \in 1 .. c[m] : y = <<m.place, k>>
    BY <2>1
  <2>3. k \in 1 .. c1[m]
    BY <1>1
  <2>. QED  BY <1>3, <2>2, <2>3
<1>6. x \in Numbered(own, c1)
  <2>1. c[m0] + 1 \in 1 .. c1[m0]
    BY <1>1
  <2>. QED  BY <1>3, <2>1
<1>7. x \notin Numbered(own, c)
  <2>. SUFFICES ASSUME NEW m \in own, NEW k \in 1 .. c[m], x = <<m.place, k>>
                PROVE  FALSE
    BY <1>2
  <2>1. m.place = m0.place /\ k = c[m0] + 1
    OBVIOUS
  <2>2. m = m0
    BY <2>1
  <2>. QED  BY <2>1, <2>2
<1>. HIDE DEF x
<1>8. Numbered(own, c1) = Numbered(own, c) \cup {x}
  BY <1>4, <1>5, <1>6
<1>. QED  BY <1>1, <1>7, <1>8, Zenon DEF c1, x

(* Each step of a message takes its count on.                              *)
LEMMA OngoingAgain ==
  ASSUME NEW d, TypedPattern(d), d.sendBehavior # "STD", NEW k \in Nat, now \in Int,
         Ongoing(d, k, now), now < d.stopTime, NEW i \in Intervals(d), i \in Int, now' = now
  PROVE  Ongoing(d, k + 1, now + i)'
<1>1. ASSUME NEW j \in Intervals(d), Every(d, j)
      PROVE  /\ now + i = d.startTime + (k + 1) * j
             /\ d.startTime + ((k + 1) - 1) * j <= now
             /\ d.startTime + ((k + 1) - 1) * j < d.stopTime
  <2>1. j = i
    BY <1>1 DEF Every
  <2>2. now = d.startTime + k * i
    BY <1>1, <2>1 DEF Ongoing
  <2>3. (k + 1) * i = k * i + i /\ (k + 1) - 1 = k /\ k * i \in Int /\ d.startTime \in Int
    BY DEF TypedPattern
  <2>4. now + i = d.startTime + (k + 1) * i
    BY <2>2, <2>3
  <2>. QED  BY <2>1, <2>2, <2>3, <2>4
<1>2. k + 1 > 0 /\ k + 1 # 0
  OBVIOUS
<1>. QED  BY <1>1, <1>2 DEF Ongoing

(* A pattern that stops sending is finished.                               *)
LEMMA OngoingEnds ==
  ASSUME NEW d, TypedPattern(d), NEW k \in Nat, now \in Int, Ongoing(d, k, now), now' = now
  PROVE  /\ d.sendBehavior = "STD" => k = 0 /\ Finished(d, k + 1)'
         /\ d.sendBehavior # "STD" /\ ~ (now < d.stopTime) /\ d.startTime < d.stopTime
              => Finished(d, k)'
<1>1. ASSUME d.sendBehavior = "STD"
      PROVE  k = 0 /\ Finished(d, k + 1)'
  <2>1. k = 0
    BY <1>1 DEF Ongoing
  <2>2. d.startTime <= now /\ k + 1 = 1
    BY <2>1 DEF Ongoing, TypedPattern
  <2>. QED  BY <1>1, <2>1, <2>2 DEF Finished
<1>2. ASSUME d.sendBehavior # "STD", ~ (now < d.stopTime), d.startTime < d.stopTime
      PROVE  Finished(d, k)'
  <2>1. k > 0 /\ d.stopTime <= now
    BY <1>2 DEF Ongoing, TypedPattern
  <2>2. ASSUME NEW i \in Intervals(d), Every(d, i)
        PROVE  d.startTime + (k - 1) * i < d.stopTime /\ d.stopTime <= d.startTime + k * i
    <3>1. now = d.startTime + k * i /\ d.startTime + (k - 1) * i < d.stopTime
      BY <1>2, <2>1, <2>2 DEF Ongoing
    <3>. QED  BY <2>1, <3>1
  <2>. QED  BY <1>2, <2>1, <2>2 DEF Finished
<1>. QED  BY <1>1, <1>2

(* A step that leaves a pattern's message alone leaves its count alone.    *)
LEMMA ProgressStays ==
  ASSUME NEW m, TypedPattern(m.data), NEW k \in Nat, now \in Int, now' \in Int, now <= now',
         \A q : SameMessage(q, m) => (q \in pending' <=> q \in pending),
         Progress(m, k),
         m.data.sendBehavior # "STD" => \A i \in Intervals(m.data) : i \in Int
  PROVE  Progress(m, k)'
<1> DEFINE d == m.data
<1>1. d.startTime \in Int /\ d.stopTime \in Int
  BY DEF TypedPattern
<1>2. ASSUME NEW q \in pending, SameMessage(q, m), Ongoing(d, k, q.at)
      PROVE  Ongoing(d, k, q.at)'
  <2>1. ASSUME NEW i \in Intervals(d), Every(d, i), k > 0, d.sendBehavior # "STD"
        PROVE  d.startTime + (k - 1) * i <= now'
    <3>1. d.startTime + (k - 1) * i <= now
      BY <1>2, <2>1 DEF Ongoing
    <3>2. (k - 1) * i \in Int
      BY <2>1
    <3>. QED  BY <1>1, <3>1, <3>2
  <2>. QED  BY <1>2, <2>1 DEF Ongoing
<1>3. ASSUME Finished(d, k)
      PROVE  Finished(d, k)'
  BY <1>1, <1>3 DEF Finished
<1>. QED  BY <1>2, <1>3 DEF Progress

(* A message that leaves as it was counted, and what that comes to once    *)
(* nothing is due any more: the frames its pattern asks for.               *)
LEMMA IntervalsCounted ==
  ASSUME NEW start \in Int, NEW last \in Int, NEW i \in Int, NEW k \in Nat, k > 0,
         start + (k - 1) * i <= last, last < start + k * i
  PROVE  i > 0 /\ start <= last /\ (last - start) \div i + 1 = k
<1>1. k * i = (k - 1) * i + i /\ (k - 1) * i \in Int /\ k - 1 \in Nat
  OBVIOUS
<1>2. i > 0
  BY <1>1
<1>3. (k - 1) * i >= 0
  BY <1>1, <1>2
<1>4. (last - start) \div i = k - 1
  <2>1. ((k - 1) + 1) * i = k * i /\ last - start \in Int
    OBVIOUS
  <2>2. (k - 1) * i <= last - start /\ last - start < k * i
    BY <1>1
  <2>. QED  BY <1>1, <1>2, <2>1, <2>2, DivUnique
<1>. QED  BY <1>1, <1>2, <1>3, <1>4

(* When nothing is due, the count of a pattern is what SentOnSchedule      *)
(* asks.                                                                   *)
LEMMA ExpectedSent ==
  ASSUME now \in Int, NEW m, TypedPattern(m.data), NEW k \in Nat, Progress(m, k),
         Steady(m.data), \A q \in pending : q.at > now,
         m.data.sendBehavior # "STD" => \A i \in Intervals(m.data) : i \in Int
  PROVE  Expected(m.data) = k
<1> DEFINE d == m.data
<1>1. d.startTime \in Int /\ d.stopTime \in Int
  BY DEF TypedPattern
<1>2. CASE d.sendBehavior = "STD"
  <2>1. (k = 0 /\ now < d.startTime) \/ (k = 1 /\ d.startTime <= now)
    BY <1>2 DEF Progress, Ongoing, Finished
  <2>. QED  BY <1>1, <1>2, <2>1 DEF Expected
<1>3. CASE d.sendBehavior # "STD"
  <2>1. PICK i \in Intervals(d) : Every(d, i)
    BY <1>3 DEF Steady
  <2>2. i \in Int /\ (CHOOSE j \in Intervals(d) : TRUE) = i
    BY <1>3, <2>1 DEF Every
  <2> DEFINE last == IF now < d.stopTime THEN now ELSE d.stopTime - 1
  <2>3. Expected(d) = IF now < d.startTime THEN 0 ELSE (last - d.startTime) \div i + 1
    BY <1>3, <2>2 DEF Expected
  <2>4. \/ k = 0 /\ now < d.startTime
        \/ k > 0 /\ d.startTime + (k - 1) * i <= last /\ last < d.startTime + k * i
    <3>1. (k - 1) * i \in Int /\ k * i \in Int
      BY <2>2
    <3>2. ASSUME NEW q \in pending, Ongoing(d, k, q.at)
          PROVE  \/ k = 0 /\ now < d.startTime
                 \/ k > 0 /\ d.startTime + (k - 1) * i <= last /\ last < d.startTime + k * i
      <4>1. q.at > now /\ q.at = d.startTime + k * i /\ (k = 0 => q.at = d.startTime)
        BY <1>3, <2>1, <3>2 DEF Ongoing
      <4>2. k > 0 => /\ d.startTime + (k - 1) * i <= now
                     /\ d.startTime + (k - 1) * i < d.stopTime
        BY <1>3, <2>1, <3>2 DEF Ongoing
      <4>. QED  BY <1>1, <3>1, <4>1, <4>2
    <3>3. ASSUME Finished(d, k)
          PROVE  k > 0 /\ d.startTime + (k - 1) * i <= last /\ last < d.startTime + k * i
      <4>1. k > 0 /\ d.stopTime <= now
        BY <1>3, <3>3 DEF Finished
      <4>2. d.startTime + (k - 1) * i < d.stopTime /\ d.stopTime <= d.startTime + k * i
        BY <1>3, <2>1, <3>3 DEF Finished
      <4>. QED  BY <1>1, <3>1, <4>1, <4>2
    <3>. QED  BY <3>2, <3>3 DEF Progress
  <2>5. last \in Int /\ last <= now
    BY <1>1
  <2>. HIDE DEF last
  <2>. QED  BY <1>1, <2>2, <2>3, <2>4, <2>5, IntervalsCounted
<1>. QED  BY <1>2, <1>3

(* A pattern that was accepted has times for intervals.                    *)
LEMMA AcceptedPattern ==
  ASSUME rootelement \in Configuration, NothingIsLate, ~ thrown,
         NEW n \in Node, NEW m \in loadXMLFile(n)
  PROVE  /\ TypedPattern(m.data) /\ scheduleMessage(m.data)
         /\ m.data.sendBehavior # "STD" =>
              \A i \in Intervals(m.data) : i \in Int
<1>1. TypedPattern(m.data)
  BY LoadedMessages
<1>2. scheduleMessage(m.data)
  BY DEF NothingIsLate
<1>. QED  BY <1>1, <1>2, IntervalsNotNegative

LEMMA ScheduleInitial == Init => ScheduleInv
<1>. SUFFICES ASSUME Init, ~ thrown, NEW n \in Node
              PROVE  \E c \in [loadXMLFile(n) -> Nat] : Accounted(n, loadXMLFile(n), c)
  BY DEF ScheduleInv
<1> DEFINE own == loadXMLFile(n)
           c == [m \in own |-> 0]
<1>0. rootelement \in Configuration /\ numFramesSent[n] = 0 /\ NothingIsLate
  BY BaseInitial DEF Init, initialize, Base
<1>1. Numbered(own, c) = {}
  <2>1. \A m \in own : 1 .. c[m] = {}
    OBVIOUS
  <2>. QED  BY <2>1 DEF Numbered
<1>2. ASSUME NEW m \in own
      PROVE  Progress(m, 0)
  <2>1. m \in pending /\ SameMessage(m, m)
    BY DEF Init, initialize, SameMessage
  <2>2. m.at = m.data.startTime /\ m.data.startTime \in Int
    BY <1>0, LoadedMessages DEF TypedPattern
  <2>3. m.data.sendBehavior # "STD" => \A i \in Intervals(m.data) : i \in Int
    BY <1>0, AcceptedPattern
  <2>4. Ongoing(m.data, 0, m.at)
    BY <2>2, <2>3 DEF Ongoing
  <2>. QED  BY <2>1, <2>4 DEF Progress
<1>3. c \in [own -> Nat] /\ \A m \in own : c[m] = 0
  OBVIOUS
<1>. HIDE DEF c
<1>. QED  BY <1>0, <1>1, <1>2, <1>3, FS_EmptySet DEF Accounted

(* Counts for one more frame are found by counting it.                     *)
LEMMA OneMoreSent ==
  ASSUME NEW n, NEW own, NEW c \in [own -> Nat], NEW m0 \in own,
         \A m1, m2 \in own : m1.place = m2.place => m1 = m2,
         IsFiniteSet(Numbered(own, c)), numFramesSent'[n] = Cardinality(Numbered(own, c)) + 1,
         Progress(m0, c[m0] + 1)', \A m \in own \ {m0} : Progress(m, c[m])'
  PROVE  \E c1 \in [own -> Nat] : Accounted(n, own, c1)'
<1> DEFINE c1 == [c EXCEPT ![m0] = c[m0] + 1]
           x  == <<m0.place, c[m0] + 1>>
<1>0. \A m1, m2 \in own : m1.place = m2.place => m1 = m2
  OBVIOUS
<1>1. /\ c1 \in [own -> Nat] /\ Numbered(own, c1) = Numbered(own, c) \cup {x}
      /\ x \notin Numbered(own, c)
  <2>1. /\ [c EXCEPT ![m0] = c[m0] + 1] \in [own -> Nat]
        /\ Numbered(own, [c EXCEPT ![m0] = c[m0] + 1])
              = Numbered(own, c) \cup {<<m0.place, c[m0] + 1>>}
        /\ <<m0.place, c[m0] + 1>> \notin Numbered(own, c)
    BY ONLY <1>0, c \in [own -> Nat], m0 \in own, NumberedAdd, Zenon
  <2>. QED  BY <2>1
<1>2. \A m \in own : c1[m] = IF m = m0 THEN c[m0] + 1 ELSE c[m]
  OBVIOUS
<1>. HIDE DEF c1, x
<1>3. /\ IsFiniteSet(Numbered(own, c1))
      /\ Cardinality(Numbered(own, c1)) = Cardinality(Numbered(own, c)) + 1
  BY <1>1, FS_AddElement
<1>4. ASSUME NEW m \in own
      PROVE  Progress(m, c1[m])'
  <2>1. CASE m = m0
    <3>1. c1[m] = c[m0] + 1
      BY <1>2, <2>1
    <3>. QED  BY <2>1, <3>1
  <2>2. CASE m # m0
    <3>1. c1[m] = c[m]
      BY <1>2, <2>2
    <3>. QED  BY <2>2, <3>1
  <2>. QED  BY <2>1, <2>2
<1>. QED  BY <1>1, <1>3, <1>4 DEF Accounted

(* The message of a sender that is due stands for one pattern, and no      *)
(* other message does.                                                     *)
LEMMA DueStandsFor ==
  ASSUME rootelement \in Configuration, PendingInv, NEW m \in pending
  PROVE  /\ Loaded(m) \in loadXMLFile(m.cpu) /\ Loaded(m).data = m.data
         /\ SameMessage(m, Loaded(m))
         /\ \A q \in pending : SameMessage(q, Loaded(m)) => q = m
         /\ \A r \in loadXMLFile(m.cpu) : r # Loaded(m) => ~ SameMessage(m, r)
         /\ \A n : \A r \in loadXMLFile(n) : n # m.cpu => ~ SameMessage(m, r)
<1>1. Loaded(m).cpu = m.cpu /\ Loaded(m).place = m.place /\ Loaded(m).data = m.data
  BY DEF Loaded, cpuSelfMessage
<1>2. Loaded(m) \in loadXMLFile(m.cpu) /\ SameMessage(m, Loaded(m))
  BY <1>1 DEF PendingInv, SameMessage
<1>3. \A q \in pending : SameMessage(q, Loaded(m)) => q = m
  BY <1>1 DEF PendingInv, SameMessage
<1>4. ASSUME NEW r \in loadXMLFile(m.cpu), SameMessage(m, r)
      PROVE  r = Loaded(m)
  BY <1>1, <1>2, <1>4, PlacesDiffer DEF SameMessage
<1>5. ASSUME NEW n, NEW r \in loadXMLFile(n), SameMessage(m, r)
      PROVE  n = m.cpu
  BY <1>5, LoadedMessages DEF SameMessage
<1>. QED  BY <1>1, <1>2, <1>3, <1>4, <1>5

(* Each step keeps the account of every sender.                            *)
LEMMA ScheduleStep ==
  ASSUME Base, ScheduleInv, [Next]_vars
  PROVE  ScheduleInv'
<1>0. /\ TypeInv /\ PendingInv /\ NothingIsLate /\ rootelement \in Configuration
      /\ now \in Nat /\ thrown \in BOOLEAN
      /\ numFramesSent \in [Node -> Nat] /\ rootelement' = rootelement
  BY RootelementStays DEF Base, TypeInv
<1>1. \A n : loadXMLFile(n)' = loadXMLFile(n)
  BY <1>0, ConfigurationStays
<1>. SUFFICES ASSUME NEW n \in Node, ~ thrown', \A m \in loadXMLFile(n) : Steady(m.data)
              PROVE  \E c \in [loadXMLFile(n) -> Nat] : Accounted(n, loadXMLFile(n), c)'
  BY <1>1 DEF ScheduleInv
<1>2. PICK own : own = loadXMLFile(n)
  OBVIOUS
<1>3. ~ thrown
  BY LateStep
<1>4. PICK c \in [own -> Nat] : Accounted(n, own, c)
  BY <1>2, <1>3 DEF ScheduleInv
<1>5. ASSUME NEW m \in own
      PROVE  /\ TypedPattern(m.data) /\ scheduleMessage(m.data)
             /\ m.data.sendBehavior # "STD" => \A i \in Intervals(m.data) : i \in Int
             /\ c[m] \in Nat /\ Progress(m, c[m])
  BY <1>0, <1>2, <1>3, <1>4, AcceptedPattern DEF Accounted
<1>6. \A m1, m2 \in own : m1.place = m2.place => m1 = m2
  BY <1>2, PlacesDiffer
<1>7. ASSUME NEW m \in own, now' \in Int, now <= now',
             \A q : SameMessage(q, m) => (q \in pending' <=> q \in pending)
      PROVE  Progress(m, c[m])'
  BY <1>0, <1>5, <1>7, ProgressStays
<1>8. ASSUME now' \in Int, now <= now', numFramesSent'[n] = numFramesSent[n],
             \A m \in own : Progress(m, c[m])'
      PROVE  \E c1 \in [own -> Nat] : Accounted(n, own, c1)'
  BY <1>4, <1>8 DEF Accounted
<1>9. ASSUME NEW m \in pending, m.cpu = n, now' = now, m.at = now,
             \A q : q \in pending => q \in pending' \/ q = m,
             \A q \in pending' : q \in pending \/ (q.cpu = m.cpu /\ q.place = m.place)
      PROVE  /\ Loaded(m) \in own
             /\ Ongoing(m.data, c[Loaded(m)], now)
             /\ \A r \in own \ {Loaded(m)} : Progress(r, c[r])'
  <2>1. /\ Loaded(m) \in own /\ Loaded(m).data = m.data /\ SameMessage(m, Loaded(m))
        /\ \A q \in pending : SameMessage(q, Loaded(m)) => q = m
        /\ \A r \in own : r # Loaded(m) => ~ SameMessage(m, r)
    BY <1>0, <1>2, <1>9, DueStandsFor
  <2>2. Ongoing(m.data, c[Loaded(m)], now)
    BY <1>5, <1>9, <2>1 DEF Progress
  <2>3. ASSUME NEW r \in own \ {Loaded(m)}
        PROVE  Progress(r, c[r])'
    <3>1. \A q : SameMessage(q, r) => (q \in pending' <=> q \in pending)
      BY <1>9, <2>1 DEF SameMessage
    <3>. QED  BY <1>0, <1>7, <1>9, <3>1
  <2>. QED  BY <2>1, <2>2, <2>3
<1>10. ASSUME NEW m \in pending, m.cpu # n, now' = now,
              \A q : q \in pending => q \in pending' \/ q = m,
              \A q \in pending' : q \in pending \/ (q.cpu = m.cpu /\ q.place = m.place)
       PROVE  \A r \in own : Progress(r, c[r])'
  <2>. SUFFICES ASSUME NEW r \in own  PROVE Progress(r, c[r])'
    OBVIOUS
  <2>1. ~ SameMessage(m, r)
    BY <1>0, <1>2, <1>10, DueStandsFor
  <2>2. \A q : SameMessage(q, r) => (q \in pending' <=> q \in pending)
    BY <1>10, <2>1 DEF SameMessage
  <2>. QED  BY <1>0, <1>7, <1>10, <2>2
<1>11. ASSUME NEW m \in pending, NEW i \in Intervals(m.data), Resends(m, i)
       PROVE  \E c1 \in [own -> Nat] : Accounted(n, own, c1)'
  <2>1. /\ m.at = now /\ now' = now /\ ~ (i < 0) /\ m.data.sendBehavior # "STD"
        /\ now < m.data.stopTime /\ pending' = (pending \ {m}) \cup {Postponed(m, i)}
        /\ numFramesSent' = [numFramesSent EXCEPT ![m.cpu] = @ + 1]
    BY <1>11 DEF Resends, IsDue, Again, AfterHearing, Send
  <2>2. /\ m.cpu \in Node /\ TypedPattern(m.data)
        /\ Postponed(m, i).cpu = m.cpu /\ Postponed(m, i).place = m.place
        /\ Postponed(m, i).at = now + i
    BY <1>0, PendingFacts, UsedAgain
  <2>3. i \in Int
    BY <1>3, <2>1, PendingAccepted
  <2>4. /\ \A q : q \in pending => q \in pending' \/ q = m
        /\ \A q \in pending' : q \in pending \/ (q.cpu = m.cpu /\ q.place = m.place)
    BY <2>1, <2>2
  <2>5. CASE m.cpu # n
    <3>1. numFramesSent'[n] = numFramesSent[n]
      BY <1>0, <2>1, <2>2, <2>5
    <3>. QED  BY <1>0, <1>8, <1>10, <2>1, <2>4, <2>5, <3>1
  <2>6. CASE m.cpu = n
    <3>1. PICK m0 : m0 = Loaded(m)
      OBVIOUS
    <3>2. PICK k : k = c[m0]
      OBVIOUS
    <3>3. /\ m0 \in own /\ Ongoing(m.data, k, now)
          /\ \A r \in own \ {m0} : Progress(r, c[r])'
      BY <1>9, <2>1, <2>4, <2>6, <3>1, <3>2
    <3>4. k \in Nat /\ m0.data = m.data /\ SameMessage(Postponed(m, i), m0)
      BY <1>0, <1>5, <2>2, <3>1, <3>2, <3>3, DueStandsFor DEF SameMessage
    <3>5. Ongoing(m.data, k + 1, now + i)'
      BY <1>0, <2>1, <2>2, <2>3, <3>3, <3>4, OngoingAgain
    <3>6. Progress(m0, k + 1)'
      <4>1. PICK p : p = Postponed(m, i)
        OBVIOUS
      <4>2. PICK d : d = m0.data
        OBVIOUS
      <4>3. p \in pending' /\ SameMessage(p, m0) /\ p.at = now' + i /\ d = m.data
        BY <2>1, <2>2, <3>4, <4>1, <4>2
      <4>4. Ongoing(d, k + 1, p.at)'
        BY <3>5, <4>3
      <4>. QED  BY <4>2, <4>3, <4>4 DEF Progress
    <3>7. numFramesSent'[n] = Cardinality(Numbered(own, c)) + 1
      BY <1>0, <1>4, <2>1, <2>6 DEF Accounted
    <3>8. IsFiniteSet(Numbered(own, c))
      BY <1>4 DEF Accounted
    <3>. QED  BY <1>6, <3>2, <3>3, <3>6, <3>7, <3>8, OneMoreSent
  <2>. QED  BY <2>5, <2>6
<1>12. ASSUME NEW m \in pending, SendsOnce(m)
       PROVE  \E c1 \in [own -> Nat] : Accounted(n, own, c1)'
  <2>1. /\ m.at = now /\ now' = now /\ m.data.sendBehavior = "STD" /\ pending' = pending \ {m}
        /\ numFramesSent' = [numFramesSent EXCEPT ![m.cpu] = @ + 1]
    BY <1>12 DEF SendsOnce, IsDue, AfterHearing, Send
  <2>2. m.cpu \in Node /\ TypedPattern(m.data)
    BY <1>0, PendingFacts
  <2>4. /\ \A q : q \in pending => q \in pending' \/ q = m
        /\ \A q \in pending' : q \in pending \/ (q.cpu = m.cpu /\ q.place = m.place)
    BY <2>1
  <2>5. CASE m.cpu # n
    <3>1. numFramesSent'[n] = numFramesSent[n]
      BY <1>0, <2>1, <2>2, <2>5
    <3>. QED  BY <1>0, <1>8, <1>10, <2>1, <2>4, <2>5, <3>1
  <2>6. CASE m.cpu = n
    <3>1. PICK m0 : m0 = Loaded(m)
      OBVIOUS
    <3>2. PICK k : k = c[m0]
      OBVIOUS
    <3>3. /\ m0 \in own /\ Ongoing(m.data, k, now)
          /\ \A r \in own \ {m0} : Progress(r, c[r])'
      BY <1>9, <2>1, <2>4, <2>6, <3>1, <3>2
    <3>4. /\ k \in Nat /\ m0.data = m.data
          /\ \A q \in pending' : ~ SameMessage(q, m0)
      BY <1>0, <1>5, <2>1, <3>1, <3>2, <3>3, DueStandsFor
    <3>5. Finished(m.data, k + 1)'
      BY <1>0, <2>1, <2>2, <3>3, <3>4, OngoingEnds
    <3>6. Progress(m0, k + 1)'
      <4>1. PICK d : d = m0.data
        OBVIOUS
      <4>2. Finished(d, k + 1)'
        BY <3>4, <3>5, <4>1
      <4>. QED  BY <3>4, <4>1, <4>2 DEF Progress
    <3>7. numFramesSent'[n] = Cardinality(Numbered(own, c)) + 1
      BY <1>0, <1>4, <2>1, <2>6 DEF Accounted
    <3>8. IsFiniteSet(Numbered(own, c))
      BY <1>4 DEF Accounted
    <3>. QED  BY <1>6, <3>2, <3>3, <3>6, <3>7, <3>8, OneMoreSent
  <2>. QED  BY <2>5, <2>6
<1>13. ASSUME NEW m \in pending, Expires(m)
       PROVE  \E c1 \in [own -> Nat] : Accounted(n, own, c1)'
  <2>1. /\ m.at = now /\ now' = now /\ m.data.sendBehavior # "STD"
        /\ ~ (now < m.data.stopTime) /\ pending' = pending \ {m}
        /\ numFramesSent' = numFramesSent
    BY <1>13 DEF Expires, IsDue, Again, AfterHearing, SendNothing
  <2>2. /\ m.cpu \in Node /\ TypedPattern(m.data) /\ m.data.startTime < m.data.stopTime
    BY <1>0, <1>3, <2>1, PendingFacts, PendingAccepted DEF scheduleMessage
  <2>4. /\ \A q : q \in pending => q \in pending' \/ q = m
        /\ \A q \in pending' : q \in pending \/ (q.cpu = m.cpu /\ q.place = m.place)
    BY <2>1
  <2>5. CASE m.cpu # n
    BY <1>0, <1>8, <1>10, <2>1, <2>4, <2>5
  <2>6. CASE m.cpu = n
    <3>1. PICK m0 : m0 = Loaded(m)
      OBVIOUS
    <3>2. PICK k : k = c[m0]
      OBVIOUS
    <3>3. /\ m0 \in own /\ Ongoing(m.data, k, now)
          /\ \A r \in own \ {m0} : Progress(r, c[r])'
      BY <1>9, <2>1, <2>4, <2>6, <3>1, <3>2
    <3>4. /\ k \in Nat /\ m0.data = m.data
          /\ \A q \in pending' : ~ SameMessage(q, m0)
      BY <1>0, <1>5, <2>1, <3>1, <3>2, <3>3, DueStandsFor
    <3>5. Finished(m.data, k)'
      BY <1>0, <2>1, <2>2, <3>3, <3>4, OngoingEnds
    <3>6. Progress(m0, k)'
      <4>1. PICK d : d = m0.data
        OBVIOUS
      <4>2. Finished(d, k)'
        BY <3>4, <3>5, <4>1
      <4>. QED  BY <3>4, <4>1, <4>2 DEF Progress
    <3>7. \A r \in own : Progress(r, c[r])'
      <4>. SUFFICES ASSUME NEW r \in own  PROVE Progress(r, c[r])'
        OBVIOUS
      <4>1. CASE r = m0
        BY <3>2, <3>6, <4>1
      <4>2. CASE r # m0
        BY <3>3, <4>2
      <4>. QED  BY <4>1, <4>2
    <3>. QED  BY <1>0, <1>8, <2>1, <3>7
  <2>. QED  BY <2>5, <2>6
<1>14. ASSUME pending' = pending, numFramesSent' = numFramesSent, now' \in Int, now <= now'
       PROVE  \E c1 \in [own -> Nat] : Accounted(n, own, c1)'
  BY <1>7, <1>8, <1>14
<1>15. ASSUME NEW m \in pending, NEW i \in Intervals(m.data), Throws(m, i)
       PROVE  FALSE
  BY <1>15 DEF Throws
<1>16. ASSUME NEW f \in flight, Receive(f)
       PROVE  \E c1 \in [own -> Nat] : Accounted(n, own, c1)'
  BY <1>0, <1>14, <1>16 DEF Receive
<1>17. ASSUME Tick
       PROVE  \E c1 \in [own -> Nat] : Accounted(n, own, c1)'
  BY <1>0, <1>14, <1>17 DEF Tick
<1>18. ASSUME UNCHANGED vars
       PROVE  \E c1 \in [own -> Nat] : Accounted(n, own, c1)'
  BY <1>0, <1>14, <1>18 DEF vars
<1>19. \E c1 \in [own -> Nat] : Accounted(n, own, c1)'
  BY <1>0, <1>11, <1>12, <1>13, <1>15, <1>16, <1>17, <1>18, StepCases
<1>20. loadXMLFile(n)' = own
  BY <1>1, <1>2
<1>. QED  BY <1>2, <1>19, <1>20 DEF Accounted

(* SentOnSchedule, for every configuration: when nothing is due, a sender  *)
(* without random patterns has sent every frame its patterns ask for (CPU  *)
(* handleMessage and scheduleMessage) and no other, the first at startTime *)
(* and none at stopTime.                                                   *)
THEOREM FramesAreSentOnSchedule == Spec => []SentOnSchedule
<1>1. ASSUME Base, ScheduleInv
      PROVE  SentOnSchedule
  <2>. SUFFICES ASSUME NEW n \in Node, ~ thrown,
                       \A m \in loadXMLFile(n) : Steady(m.data),
                       \A q \in pending : q.at > now
                PROVE  numFramesSent[n] =
                         Cardinality(UNION {{m.place} \X (1 .. Expected(m.data)) :
                                              m \in loadXMLFile(n)})
    BY DEF SentOnSchedule, Steady, Every
  <2> DEFINE own == loadXMLFile(n)
  <2>1. rootelement \in Configuration /\ NothingIsLate /\ now \in Int
    BY <1>1 DEF Base, TypeInv
  <2>2. PICK c \in [own -> Nat] : Accounted(n, own, c)
    BY <1>1 DEF ScheduleInv
  <2>3. ASSUME NEW m \in own
        PROVE  Expected(m.data) = c[m]
    <3>1. /\ TypedPattern(m.data)
          /\ m.data.sendBehavior # "STD" => \A i \in Intervals(m.data) : i \in Int
      BY <2>1, AcceptedPattern
    <3>2. c[m] \in Nat /\ Progress(m, c[m]) /\ Steady(m.data)
      BY <2>2 DEF Accounted
    <3>. QED  BY <2>1, <3>1, <3>2, ExpectedSent
  <2>. HIDE DEF own
  <2>4. UNION {{m.place} \X (1 .. Expected(m.data)) : m \in own} = Numbered(own, c)
    <3>1. {{m.place} \X (1 .. Expected(m.data)) : m \in own}
            = {{m.place} \X (1 .. c[m]) : m \in own}
      BY <2>3
    <3>. QED  BY <3>1 DEF Numbered
  <2>. QED  BY <2>2, <2>4 DEF Accounted, own
<1>2. Init => Base /\ ScheduleInv
  BY BaseInitial, ScheduleInitial
<1>3. Base /\ ScheduleInv /\ [Next]_vars => Base' /\ ScheduleInv'
  BY BaseStep, ScheduleStep
<1>. QED  BY <1>1, <1>2, <1>3, PTL DEF Spec
-----------------------------------------------------------------------------
(* The two projects' readings of a pattern.                                *)

(* A pattern that states what the two projects assume differently has the  *)
(* same value in every field they share.                                   *)
LEMMA SharedFields ==
  ASSUME NEW x, {"destination", "sendType", "sendBehavior"} \subseteq DOMAIN x,
         NEW t \in {"destination", "sendType", "sendBehavior", "startTime", "stopTime", "last",
                    "maxLast", "interval", "maxInterval", "standardabweichung",
                    "paketgroesse"}
  PROVE  sendDataOf(x)[t] = Predecessor!sendDataOf(x)[t]
<1>1. t \in SendData /\ t \in Predecessor!SendData
  BY DEF SendData, Predecessor!SendData
<1>2. t \notin DOMAIN x => Default[t] = 0 /\ Predecessor!Default[t] = 0
  BY <1>1 DEF Default, Predecessor!Default
<1>3. \A y : Predecessor!Short(y) = Short(y)
  BY DEF Predecessor!Short, Short
<1>4. sendDataOf(x)[t] = IF t \notin DOMAIN x THEN 0
                         ELSE IF t \in {"paketgroesse", "vlan"} THEN Short(x[t]) ELSE x[t]
  BY <1>1, <1>2 DEF sendDataOf
<1>5. Predecessor!sendDataOf(x)[t]
        = IF t \notin DOMAIN x THEN 0
          ELSE IF t \in {"paketgroesse", "vlan"} THEN Short(x[t]) ELSE x[t]
  BY <1>1, <1>2, <1>3 DEF Predecessor!sendDataOf
<1>. QED  BY <1>4, <1>5

(* Patterns that agree in these fields are accepted alike, go on alike and *)
(* wait alike.                                                             *)
LEMMA SharedReading ==
  ASSUME NEW d, NEW e, d.epsilon = 0,
         d.destination = e.destination, d.sendType = e.sendType,
         d.sendBehavior = e.sendBehavior,
         d.startTime = e.startTime, d.stopTime = e.stopTime,
         d.last = e.last, d.maxLast = e.maxLast,
         d.interval = e.interval, d.maxInterval = e.maxInterval,
         d.standardabweichung = e.standardabweichung, d.paketgroesse = e.paketgroesse
  PROVE  /\ scheduleMessage(d) <=> Predecessor!scheduleMessage(e)
         /\ Again(d) <=> Predecessor!Again(e, now)
         /\ Intervals(d) = Predecessor!Intervals(e)
<1>1. scheduleMessage(d) <=> Predecessor!scheduleMessage(e)
  BY DEF scheduleMessage, Predecessor!scheduleMessage, NullAddr, Predecessor!NullAddr
<1>2. Again(d) <=> Predecessor!Again(e, now)
  BY DEF Again, Predecessor!Again
<1>3. Intervals(d) = Predecessor!Intervals(e)
  <2>1. ~ (d.epsilon > 0)
    OBVIOUS
  <2>2. \A a, b : /\ Predecessor!uniform(a, b) = uniform(a, b)
                  /\ Predecessor!truncnormal(a, b) = truncnormal(a, b)
                  /\ Predecessor!LoadInterval(a, b) = LoadInterval(a, b)
    BY DEF Predecessor!uniform, uniform, Predecessor!truncnormal, truncnormal,
           Predecessor!Deviations, Deviations, Predecessor!LoadInterval, LoadInterval
  <2>. QED  BY <2>1, <2>2 DEF Intervals, Predecessor!Intervals
<1>. QED  BY <1>1, <1>2, <1>3

(* PatternsAreUnderstoodAlike, for every configuration: the readings of    *)
(* the two projects (loadXMLFile, scheduleMessage and handleMessage of     *)
(* either CPU.cc) differ in what they assume and in epsilon, nowhere else. *)
THEOREM ProjectsAgree == Spec => []PatternsAreUnderstoodAlike
<1>1. PatternsAreUnderstoodAlike
  <2>. SUFFICES ASSUME NEW x, sendDataOf(x).epsilon = 0,
                       {"destination", "sendType", "sendBehavior"} \subseteq DOMAIN x
                PROVE  LET d == sendDataOf(x)
                           e == Predecessor!sendDataOf(x)
                       IN /\ scheduleMessage(d) <=> Predecessor!scheduleMessage(e)
                          /\ Again(d) <=> Predecessor!Again(e, now)
                          /\ Intervals(d) = Predecessor!Intervals(e)
    BY DEF PatternsAreUnderstoodAlike
  <2>. QED  BY SharedFields, SharedReading
<1>. QED  BY <1>1, PTL
===============================================================================
