------------------------------- MODULE EtherCpu -------------------------------
(***************************************************************************)
(* The load generator of project ethernetHSR (CPU.cc): how the patterns of *)
(* an XML configuration become self messages, and what a self message does *)
(* when it is due.  Module EtherNet takes the steps; MCCpu compares the    *)
(* schedule with that of project PA14.                                     *)
(*                                                                         *)
(* One tick is 8 / 2^20 s.  A load in Mbit/s (1024 * 1024 bits) then gives *)
(* an interval in ticks by one division.  Strings are left out: an element *)
(* holds the value its text stands for, "ERROR" for an unknown word.       *)
(***************************************************************************)
EXTENDS Integers, Sequences

NullAddr == -3  \* 00-00-00-00-00-00

SendData ==
  {"destination", "sendType", "sendBehavior", "startTime", "stopTime", "last", "maxLast",
   "interval", "maxInterval", "standardabweichung", "paketgroesse", "vlan"}

(* What loadXMLFile assumes of an element the pattern does not state. *)
Default ==
  [t \in SendData |-> CASE t = "destination"  -> NullAddr
                        [] t = "sendType"     -> "ERROR"
                        [] t = "sendBehavior" -> "STD"
                        [] OTHER              -> 0]

(* atoi into an unsigned short. *)
Short(x) == x % 65536

sendDataOf(e) ==
  [t \in SendData |-> IF t \notin DOMAIN e THEN Default[t]
                      ELSE IF t \in {"paketgroesse", "vlan"} THEN Short(e[t])
                      ELSE e[t]]

(* Mutant: a load generator without load and interval is taken. *)
MutScheduleIdleLoad(d) ==
  /\ d.sendType \in {"STD", "HSR"} /\ d.destination # NullAddr /\ d.paketgroesse # 0
  /\ d.sendBehavior = "STD" \/ (d.sendBehavior # "ERROR" /\ d.startTime < d.stopTime)

(* Whether a pattern is accepted; the error is raised at initialize. *)
scheduleMessage(d) ==
  /\ d.sendType \in {"STD", "HSR"} /\ d.destination # NullAddr /\ d.paketgroesse # 0
  /\ \/ d.sendBehavior = "STD"
     \/ /\ d.startTime < d.stopTime
        /\ \/ d.sendBehavior = "CONSTANT_LOADGEN" /\ (d.last > 0 \/ d.interval > 0)
           \/ /\ d.sendBehavior = "UNIFORM_LOADGEN"
              /\ \/ d.last > 0 /\ d.maxLast > d.last
                 \/ d.interval > 0 /\ d.maxInterval > d.interval
           \/ /\ d.sendBehavior = "NORMAL_LOADGEN"
              /\ d.standardabweichung > 0
              /\ d.last > 0 \/ d.interval > 0

(* The places of the patterns of every source that names the processor: a  *)
(* source is a set of addresses, since question marks match any digit.     *)
Places(address, rootelement) ==
  UNION {{i} \X (DOMAIN rootelement[i].lastmuster) :
           i \in {i \in DOMAIN rootelement : address \in rootelement[i].source}}

Element(rootelement, p) == sendDataOf(rootelement[p[1]].lastmuster[p[2]])

(* A self message carries its pattern. *)
cpuSelfMessage(address, p, sendData) == [cpu |-> address, place |-> p, data |-> sendData]

(* Mutant: a pattern for the processor itself is taken too. *)
MutLoadOwnPatterns(address, rootelement) ==
  {cpuSelfMessage(address, p, Element(rootelement, p)) :
     p \in Places(address, rootelement)}

(* The self messages of a processor, one for each of its patterns but      *)
(* those for itself.  A pattern that is not accepted is an error.          *)
loadXMLFile(address, rootelement) ==
  {cpuSelfMessage(address, p, Element(rootelement, p)) :
     p \in {p \in Places(address, rootelement) :
              Element(rootelement, p).destination # address}}

-----------------------------------------------------------------------------
(* A self message is used again until stopTime, one of pattern "einmalig"  *)
(* never; it sends a frame unless it is an old one of a load generator.    *)
Again(d, now)  == now < d.stopTime /\ d.sendBehavior # "STD"
Sends(d, now) == Again(d, now) \/ d.sendBehavior = "STD"

(* The simulation library's random numbers, by their ranges.  A truncated  *)
(* normal variate is positive; it is looked at up to Deviations away.      *)
Deviations == 1
uniform(a, b)     == IF a <= b THEN a .. b ELSE b .. a
truncnormal(m, s) == {r \in 1 .. m + Deviations * s : r >= m - Deviations * s}

(* 32 bytes are what is added to the data on the line.  A load below 0     *)
(* asks for the past.                                                      *)
LoadInterval(last, size) ==
  IF last > 0 THEN (size + 32) \div last ELSE (- (size + 32)) \div (- last)

(* How long a load generator may wait for its next frame. *)
Intervals(d) ==
  LET random(m, x) == CASE d.sendBehavior = "CONSTANT_LOADGEN" -> {m}
                        [] d.sendBehavior = "UNIFORM_LOADGEN"  -> uniform(m, x)
                        [] OTHER -> truncnormal(m, d.standardabweichung)
  IN IF d.last = 0 THEN random(d.interval, d.maxInterval)
     ELSE {LoadInterval(r, d.paketgroesse) : r \in random(d.last, d.maxLast) \ {0}}
=============================================================================
