---------------------------------- MODULE Cpu ----------------------------------
(***************************************************************************)
(* The processors of project PA14 (CPU): load generators driven by the     *)
(* patterns of an XML configuration, receivers of frames, and the module   *)
(* DelayLogger they report to.  The network between them is external: it   *)
(* brings a frame, which its switches open and close again, to everyone    *)
(* HsrRing shows it to be for, each once, within MaxDelay.                 *)
(*                                                                         *)
(* One tick is 8 / 2^20 s.  A load in Mbit/s (1024 * 1024 bits) then gives *)
(* an interval in ticks by one division.  Strings are left out: an element *)
(* holds the value its text stands for, "ERROR" for an unknown word.  All  *)
(* frames carry EtherType 0x8100, so the branch for express gates (0x8500) *)
(* is not there.                                                           *)
(***************************************************************************)
EXTENDS Packer, FiniteSets

CONSTANTS
  Node,
  Configuration,  \* the XML configurations: sequences of [source, lastmuster]
  MaxDelay        \* bound: how long a frame is under way

Group    == -1  \* the broadcast address
Absent   == -2  \* an address no node has
NullAddr == -3  \* 00-00-00-00-00-00

framePriority == {"EXPRESS", "HIGH", "LOW"}

SendData ==
  {"destination", "sendType", "sendBehavior", "frameprio", "startTime", "stopTime", "last",
   "maxLast", "interval", "epsilon", "maxInterval", "standardabweichung", "paketgroesse",
   "vlan"}

ASSUME CpuAssumption == Node \subseteq Nat /\ MaxDelay \in Nat \ {0}

(* What atof and atoi make of a text is a number, in ticks or bytes, and   *)
(* what loadXMLFile makes of a priority is one of the three.               *)
ASSUME ConfigurationAssumption ==
  \A c \in Configuration : \A i \in DOMAIN c : \A j \in DOMAIN c[i].lastmuster :
    LET e == c[i].lastmuster[j]
    IN /\ \A t \in SendData \ {"destination", "sendType", "sendBehavior", "frameprio"} :
            t \in DOMAIN e => e[t] \in Int
       /\ "frameprio" \in DOMAIN e => e.frameprio \in framePriority

VARIABLES
  rootelement,        \* the configuration
  now,
  pending,            \* self messages: [cpu, place, data, at]
  messageCount,       \* static: shared by all processors
  sequenceNumber,     \* [Node -> Nat]
  numFramesSent,      \* [Node -> Nat]
  numFramesReceived,  \* [Node -> Nat]
  flight,             \* the frames under way: [cpu, frame]
  endToEndDelayStats, \* DelayLogger: [framePriority -> [count, min, max]]
  thrown              \* the simulation has ended with an error

vars == <<rootelement, now, pending, messageCount, sequenceNumber,
          numFramesSent, numFramesReceived, flight, endToEndDelayStats, thrown>>

-----------------------------------------------------------------------------
(* What loadXMLFile assumes of an element the pattern does not state. *)
Default ==
  [t \in SendData |-> CASE t = "destination"  -> NullAddr
                        [] t = "sendType"     -> "HSR"
                        [] t = "sendBehavior" -> "CONSTANT_LOADGEN"
                        [] t = "frameprio"    -> "LOW"
                        [] OTHER              -> 0]

(* atoi into an unsigned short. *)
Short(x) == x % 65536

sendDataOf(e) ==
  [t \in SendData |-> IF t \notin DOMAIN e THEN Default[t]
                      ELSE IF t \in {"paketgroesse", "vlan"} THEN Short(e[t])
                      ELSE e[t]]

(* Whether a pattern is accepted; the error is raised at initialize. *)
scheduleMessage(d) ==
  /\ d.sendType \in {"STD", "HSR"} /\ d.destination # NullAddr /\ d.paketgroesse # 0
  /\ \/ d.sendBehavior = "STD"
     \/ /\ d.startTime < d.stopTime
        /\ \/ d.sendBehavior = "CONSTANT_LOADGEN" /\ (d.last > 0 \/ d.interval > 0)
           \/ /\ d.sendBehavior = "UNIFORM_LOADGEN"
              /\ \/ d.last > 0 /\ d.maxLast > d.last
                 \/ d.interval > 0 /\ d.maxInterval > d.interval
           \/ /\ d.sendBehavior = "NORMAL_LOADGEN"
              /\ d.standardabweichung > 0
              /\ d.last > 0 \/ d.interval > 0

(* The places of the patterns of every source that names the processor: a  *)
(* source is a set of addresses, since question marks match any digit.     *)
Places(address) ==
  UNION {{i} \X (DOMAIN rootelement[i].lastmuster) :
           i \in {i \in DOMAIN rootelement : address \in rootelement[i].source}}

Element(p) == rootelement[p[1]].lastmuster[p[2]]

(* A self message carries its pattern. *)
cpuSelfMessage(address, p, sendData) ==
  [cpu |-> address, place |-> p, data |-> sendData, at |-> sendData.startTime]

(* The self messages of a processor, one for each of its patterns but      *)
(* those for itself.                                                       *)
loadXMLFile(address) ==
  {cpuSelfMessage(address, p, sendDataOf(Element(p))) :
     p \in {p \in Places(address) : sendDataOf(Element(p)).destination # address}}

(* A start before time 0 is an error of the kernel, as any event in the    *)
(* past.                                                                   *)
initialize ==
  /\ rootelement \in Configuration
  /\ pending = UNION {loadXMLFile(n) : n \in Node}
  /\ thrown = \E m \in pending : ~ scheduleMessage(m.data) \/ m.at < 0

Init ==
  /\ initialize
  /\ now = 0
  /\ messageCount = 0
  /\ sequenceNumber = [n \in Node |-> 0]
  /\ numFramesSent = [n \in Node |-> 0]
  /\ numFramesReceived = [n \in Node |-> 0]
  /\ flight = {}
  /\ endToEndDelayStats = [p \in framePriority |-> [count |-> 0, min |-> 0, max |-> 0]]

-----------------------------------------------------------------------------
(* Mutant: the stop time is not looked at. *)
MutAgainForEver(d) == d.sendBehavior # "STD"

(* Mutant: a frame is sent at stopTime too. *)
MutAgainAtStop(d) == now <= d.stopTime /\ d.sendBehavior # "STD"

(* A self message of a load generator is used again until stopTime; that   *)
(* of a single frame ("einmalig", STD) never, whatever its stopTime.       *)
Again(d) == now < d.stopTime /\ d.sendBehavior # "STD"

(* The simulation library's random numbers, by their ranges.  A truncated  *)
(* normal variate is positive; it is looked at up to Deviations away.      *)
Deviations == 1
uniform(a, b)     == IF a <= b THEN a .. b ELSE b .. a
truncnormal(m, s) == {r \in 1 .. m + Deviations * s : r >= m - Deviations * s}

(* Mutant: the load counts the data bytes only. *)
MutLoadInterval(last, size) ==
  IF last > 0 THEN size \div last ELSE (- size) \div (- last)

(* 32 bytes are what is added to the data on the line.  A load below 0     *)
(* asks for the past.                                                      *)
LoadInterval(last, size) ==
  IF last > 0 THEN (size + 32) \div last ELSE (- (size + 32)) \div (- last)

(* Mutant: a varying interval may be shorter than its minimum. *)
MutIntervalsBelow(d) ==
  LET random(m, x) ==
        CASE d.sendBehavior = "CONSTANT_LOADGEN" ->
               IF d.last = 0 /\ d.epsilon > 0 THEN uniform(m - d.epsilon, m) ELSE {m}
          [] d.sendBehavior = "UNIFORM_LOADGEN" -> uniform(m, x)
          [] OTHER -> truncnormal(m, d.standardabweichung)
  IN IF d.last = 0 THEN random(d.interval, d.maxInterval)
     ELSE {LoadInterval(r, d.paketgroesse) : r \in random(d.last, d.maxLast) \ {0}}

(* How long a load generator may wait for its next frame. *)
Intervals(d) ==
  LET random(m, x) ==
        CASE d.sendBehavior = "CONSTANT_LOADGEN" ->
               IF d.last = 0 /\ d.epsilon > 0 THEN uniform(m, m + d.epsilon) ELSE {m}
          [] d.sendBehavior = "UNIFORM_LOADGEN" -> uniform(m, x)
          [] OTHER -> truncnormal(m, d.standardabweichung)
  IN IF d.last = 0 THEN random(d.interval, d.maxInterval)
     ELSE {LoadInterval(r, d.paketgroesse) : r \in random(d.last, d.maxLast) \ {0}}

generateOnePacket(n, d) ==
  generateEthMessage(createETHTag(d.destination, n, now),
                     createVLANTag(d.frameprio),
                     createHSRTag(1, sequenceNumber[n]),
                     createDataMessage(d.paketgroesse, messageCount))

(* Whose processor hears a frame, as in HsrRing: the sender of a group     *)
(* frame and of a frame nobody takes gets it back.                         *)
Audience(f) ==
  CASE f.dest = Group  -> Node
    [] f.dest = Absent -> {f.src}
    [] OTHER           -> {f.dest} \ {f.src}

Send(n, d) ==
  LET f == generateOnePacket(n, d)
  IN /\ messageCount' = messageCount + 1
     /\ sequenceNumber' = [sequenceNumber EXCEPT ![n] = @ + 1]
     /\ numFramesSent' = [numFramesSent EXCEPT ![n] = @ + 1]
     /\ flight' = flight \cup {[cpu |-> c, frame |-> Forwarded(f)] : c \in Audience(f)}

SendNothing == UNCHANGED <<messageCount, sequenceNumber, numFramesSent, flight>>

(* The next frame is scheduled before this one is made.                    *)
LoadGenerator(m) ==
  \E i \in Intervals(m.data) :
    IF i < 0 THEN thrown' = TRUE /\ UNCHANGED pending /\ SendNothing
    ELSE /\ pending' = (pending \ {m}) \cup {[m EXCEPT !.at = now + i]}
         /\ Send(m.cpu, m.data)
         /\ UNCHANGED thrown

Single(m) ==
  /\ pending' = pending \ {m}
  /\ IF m.data.sendBehavior = "STD" THEN Send(m.cpu, m.data) ELSE SendNothing
  /\ UNCHANGED thrown

(* CPU::handleMessage with a self message. *)
SelfMessage(m) ==
  /\ ~ thrown
  /\ m \in pending /\ m.at = now
  /\ IF Again(m.data) THEN LoadGenerator(m) ELSE Single(m)
  /\ UNCHANGED <<rootelement, now, numFramesReceived, endToEndDelayStats>>

(* Mutant: group frames are logged wherever they are heard. *)
MutLogsEveryGroupFrame(n, f) == f.dest = Group \/ f.dest = n \/ f.src = n

(* A processor logs what is for it alone, and what comes back to it. *)
Logs(n, f) ==
  \/ f.src = n /\ f.dest = Group
  \/ f.dest = n
  \/ f.src = n /\ f.dest # Group

(* The histograms of the library, by what of them is reported: how many    *)
(* values there are, the least and the greatest.                           *)
collect(stats, val) ==
  [count |-> stats.count + 1,
   min   |-> IF stats.count = 0 \/ val < stats.min THEN val ELSE stats.min,
   max   |-> IF stats.count = 0 \/ val > stats.max THEN val ELSE stats.max]

addDelay(f) ==
  LET vlanTag  == decapsulateMessage(f).vlanTag
      msgDelay == now - f.creationTime + vlanTag.preemptionDelay
  IN endToEndDelayStats' =
       [endToEndDelayStats EXCEPT ![vlanTag.user_priority] = collect(@, msgDelay)]

(* CPU::handleMessage with a frame. *)
Receive(c) ==
  /\ ~ thrown
  /\ c \in flight /\ c.frame.creationTime < now
  /\ flight' = flight \ {c}
  /\ numFramesReceived' = [numFramesReceived EXCEPT ![c.cpu] = @ + 1]
  /\ IF Logs(c.cpu, c.frame) THEN addDelay(c.frame) ELSE UNCHANGED endToEndDelayStats
  /\ UNCHANGED <<rootelement, now, pending, messageCount, sequenceNumber, numFramesSent, thrown>>

(* Time passes when nothing is due, as long as there are events. *)
Tick ==
  /\ ~ thrown
  /\ pending # {} \/ flight # {}
  /\ \A m \in pending : m.at > now
  /\ \A c \in flight : now - c.frame.creationTime < MaxDelay
  /\ now' = now + 1
  /\ UNCHANGED <<rootelement, pending, messageCount, sequenceNumber, numFramesSent,
                 numFramesReceived, flight, endToEndDelayStats, thrown>>

Next ==
  \/ \E m \in pending : SelfMessage(m)
  \/ \E c \in flight : Receive(c)
  \/ Tick

Spec == Init /\ [][Next]_vars

-----------------------------------------------------------------------------

Patterns(n) == {m.data : m \in loadXMLFile(n)}

(* No pattern that was accepted makes the kernel schedule into the past    *)
(* (CPU.cc 556, 569) but one that starts before time 0 and one with a      *)
(* negative load or a varying load down to one, which scheduleMessage lets *)
(* through for the sake of a positive interval that is then not used.      *)
OnlyNegativeLoadsThrow ==
  thrown => \E n \in Node : \E d \in Patterns(n) :
              \/ ~ scheduleMessage(d) \/ d.startTime < 0
              \/ d.interval > 0 /\ (d.last < 0 \/ (d.last > 0 /\ d.maxLast < 0))

(* When nothing is due any more, a processor whose patterns leave nothing  *)
(* to chance has sent just the frames they ask for: a single frame at its  *)
(* startTime, one of a load generator at every multiple of its interval    *)
(* from startTime up to but not at stopTime.                               *)
Expected(d) ==
  LET last == IF now < d.stopTime THEN now ELSE d.stopTime - 1
      i    == CHOOSE i \in Intervals(d) : TRUE
  IN IF now < d.startTime THEN 0
     ELSE IF d.sendBehavior = "STD" THEN 1
     ELSE (last - d.startTime) \div i + 1

SentOnSchedule ==
  \A n \in Node :
    LET own == loadXMLFile(n)
    IN /\ ~ thrown
       /\ \A m \in own : m.data.sendBehavior = "STD"
                          \/ \E i \in Intervals(m.data) : Intervals(m.data) = {i}
       /\ \A m \in pending : m.at > now
       => numFramesSent[n] =
            Cardinality(UNION {{m.place} \X (1 .. Expected(m.data)) : m \in own})

(* A load is kept to (CPU.cc 540-549, the 32 bytes of its comment): after  *)
(* its first frame a load generator has put no more bytes on the line than *)
(* load allows, less than a tick of rounding a frame.  A frame is counted   *)
(* with the bytes it has and an 8 byte preamble.                           *)
LineBytes(d) == generateOnePacket(0, d).length + 8

LoadIsKept ==
  \A n \in Node : \A m \in loadXMLFile(n) :
    LET d    == m.data
        k    == numFramesSent[n] - 1
        load == IF d.sendBehavior = "UNIFORM_LOADGEN" /\ d.maxLast > d.last
                THEN d.maxLast ELSE d.last
    IN loadXMLFile(n) = {m} /\ d.sendBehavior \in {"CONSTANT_LOADGEN", "UNIFORM_LOADGEN"}
         /\ d.last > 0 /\ k > 0
       => k * LineBytes(d) < load * (now - d.startTime + k)

(* Every frame is logged by one processor, once, under the priority of a   *)
(* pattern and with the time it took, unless it is still under way to that *)
(* processor: a frame to a group or to nobody by its sender, else by its   *)
(* receiver.                                                               *)
EachFrameIsLoggedOnce ==
  LET stats(p) == endToEndDelayStats[p]
  IN /\ messageCount = stats("EXPRESS").count + stats("HIGH").count + stats("LOW").count
                        + Cardinality({c \in flight : Logs(c.cpu, c.frame)})
     /\ \A p \in framePriority : stats(p).count > 0 =>
          /\ \E n \in Node : \E d \in Patterns(n) : d.frameprio = p
          /\ 0 < stats(p).min /\ stats(p).min <= stats(p).max /\ stats(p).max <= MaxDelay

(* Opening and closing a frame in a switch changes nothing, however often, *)
(* and the two modules for HSR tags undo each other (MessagePacker,        *)
(* EncapsulateMessage, DecapsulateMessage): no cast fails, no tag is lost. *)
FramesStayWhole ==
  \A c \in flight :
    LET f == c.frame
        m == decapsulateMessage(f)
    IN /\ {NULL, BadCast} \cap {m.vlanTag, m.hsrTag, m.messageData} = {}
       /\ f.length = m.messageData.length + 24
       /\ Forwarded(f) = f
       /\ EncapsulateMessage(DecapsulateMessage(f), 1, m.hsrTag.sequencenumber) = f

(* The simulation ends: long after the last startTime and stopTime no      *)
(* event is left.                                                          *)
Ends(d) ==
  {d.startTime} \cup (IF d.sendBehavior = "STD" THEN {}
                      ELSE {d.stopTime - 1 + i : i \in Intervals(d)})

EndsInTime ==
  pending # {} \/ flight # {} =>
    thrown \/ \E n \in Node : \E d \in Patterns(n) : \E t \in Ends(d) : now <= t + MaxDelay
=============================================================================
