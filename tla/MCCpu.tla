--------------------------------- MODULE MCCpu ---------------------------------
(***************************************************************************)
(* Processors for TLC, with patterns of every behaviour, one of them       *)
(* rejected and some that ask for the past, and the comparison of their    *)
(* schedule with that of the project PA14 was made from.                   *)
(***************************************************************************)
EXTENDS Cpu, TLC

CpuNode == 0 .. 2

Once(dest, start) ==
  [destination |-> dest, sendType |-> "HSR", sendBehavior |-> "STD", startTime |-> start,
   paketgroesse |-> 64]
Generator(dest, behavior, stop) ==
  [destination |-> dest, sendType |-> "HSR", sendBehavior |-> behavior, stopTime |-> stop,
   paketgroesse |-> 64]
From(source, muster) == [source |-> source, lastmuster |-> muster]

CpuConfiguration ==
  LET constant(i) == Generator(1, "CONSTANT_LOADGEN", 6) @@ [interval |-> i]
  IN {<<From({0, 1}, <<Once(1, 2), Once(Group, 2), Once(0, 1)>>),
        From({1}, <<Once(Absent, 0)>>)>>,
      <<From({0}, <<constant(3) @@ [frameprio |-> "EXPRESS"],
                    constant(2) @@ [frameprio |-> "HIGH", startTime |-> 2]>>)>>,
      <<From({0}, <<constant(2) @@ [epsilon |-> 3]>>)>>,
      <<From({0}, <<constant(1) @@ [last |-> -16]>>)>>,
      <<From({0}, <<constant(1) @@ [startTime |-> -1]>>)>>,
      <<From({0}, <<Generator(1, "UNIFORM_LOADGEN", 6)
                      @@ [last |-> 24, maxLast |-> -48, interval |-> 1, maxInterval |-> 2]>>)>>,
      <<From({0}, <<constant(0)>>)>>,
      <<From({0}, <<constant(0) @@ [last |-> 48]>>)>>,
      <<From({0}, <<constant(0) @@ [last |-> 48], constant(0) @@ [last |-> 48]>>)>>,
      <<From({0}, <<Generator(Group, "UNIFORM_LOADGEN", 6) @@ [last |-> 24, maxLast |-> 48]>>),
        From({1}, <<Once(0, 3)>>)>>,
      <<From({0}, <<Generator(1, "NORMAL_LOADGEN", 5)
                      @@ [interval |-> 2, standardabweichung |-> 1]>>)>>}

Predecessor == INSTANCE EtherCpu

(* A pattern that states type, behaviour and destination and asks for no   *)
(* epsilon means the same in both projects (CPU.cc of either): it is       *)
(* accepted by both or by neither, goes on for the same time and may wait  *)
(* for the same times.                                                     *)
PatternsAreUnderstoodAlike ==
  \A n \in Node : \A p \in Places(n) :
    LET d == sendDataOf(Element(p))
        e == Predecessor!sendDataOf(Element(p))
    IN {"destination", "sendType", "sendBehavior"} \subseteq DOMAIN Element(p) /\ d.epsilon = 0
       => /\ scheduleMessage(d) <=> Predecessor!scheduleMessage(e)
          /\ Again(d) <=> Predecessor!Again(e, now)
          /\ scheduleMessage(d) /\ d.sendBehavior # "STD"
               => Intervals(d) = Predecessor!Intervals(e)
=============================================================================
