-------------------------------- MODULE TicToc --------------------------------
(***************************************************************************)
(* A run of one of the tutorial programs: the modules are initialized one  *)
(* after the other, then the events are handled in order.                  *)
(***************************************************************************)
EXTENDS TicTocNet

CONSTANTS
  Networks,  \* the programs that may run, each with its network
  MaxHops,   \* bound: hops of a message
  MaxEvents, \* bound: events in the event set
  MaxSeq     \* bound: messages of Txc9

PairPrograms == {"Txc1", "Txc2", "Txc3", "Txc4", "Txc5", "Txc6", "Txc7", "Txc8", "Txc9"}

TossPrograms == {"Txc10", "Txc11", "Txc12", "Txc10Terminal", "Txc11Terminal", "Txc12Terminal"}

HopPrograms == {"Txc13", "Txc14", "Txc15", "Txc16", "Txc13Terminal", "Txc16Terminal"}

(* The modules are numbered; the first programs have two. *)
ASSUME TicTocAssumption ==
  /\ Limits \subseteq Nat \ {0} /\ Limits # {}
  /\ DelayTimes \subseteq Nat \ {0} /\ DelayTimes # {}
  /\ \A c \in Networks :
       /\ c.program \in PairPrograms \cup TossPrograms \cup HopPrograms
       /\ LET last == Cardinality(UNION c.links) - 1
          IN last \in Nat \ {0} /\ UNION c.links = 0 .. last
       /\ c.program \in PairPrograms => UNION c.links = {tic, toc}

Distance(links, from, to) ==
  LET N == Cardinality(UNION links)
      ball[k \in 0 .. N] ==
        IF k = 0 THEN {from}
        ELSE ball[k - 1] \cup {m \in UNION links : \E n \in ball[k - 1] : {n, m} \in links}
  IN CHOOSE k \in 0 .. N : to \in ball[k] /\ (k = 0 \/ to \notin ball[k - 1])

(* A network without circles: each link leads one nearer to a module or    *)
(* one farther from it, and one link of every other module leads nearer.   *)
IsTree(links) ==
  \A a, b \in UNION links :
    LET near == {m \in UNION links : {b, m} \in links /\ m # b}
        way(m) == Distance(links, a, m)
    IN /\ way(b) \in Nat /\ (way(b) = 0 <=> a = b)
       /\ \A m \in near : way(m) = way(b) + 1 \/ way(m) = way(b) - 1
       /\ a # b => \E m \in near : \A o \in near : way(o) < way(b) <=> o = m

(* tictoc13.ned to tictoc16.ned have no circles. *)
ASSUME TreeAssumption ==
  \A c \in Networks : c.program \in HopPrograms => IsTree(c.links)

VARIABLES
  program,      \* the program that runs
  sim,          \* the simulation
  initialized   \* how many modules were initialized

vars == <<program, sim, initialized>>

Init ==
  \E c \in Networks :
    /\ program = c.program
    /\ sim = [fes |-> <<>>, links |-> c.links, thrown |-> FALSE,
              mem |-> [n \in UNION c.links |->
                         [counter |-> 0, tictocMsg |-> NULL, seq |-> 0, message |-> NULL]]]
    /\ initialized = 0

Handled(s, n, e) ==
  CASE program = "Txc1"  -> Txc1(s, n, e)
    [] program = "Txc2"  -> Txc2(s, n, e)
    [] program = "Txc3"  -> Txc3(s, n, e)
    [] program = "Txc4"  -> Txc4(s, n, e)
    [] program = "Txc5"  -> Txc5(s, n, e)
    [] program = "Txc6"  -> Txc6(s, n, e)
    [] program = "Txc7"  -> Txc7(s, n, e)
    [] program = "Txc8"  -> Txc8(s, n, e)
    [] program = "Txc9"  -> Txc9(s, n, e)
    [] program = "Txc10" -> Txc10(s, n, e)
    [] program = "Txc11" -> Txc11(s, n, e)
    [] program = "Txc12" -> Txc12(s, n, e)
    [] program = "Txc13" -> Txc13(s, n, e)
    [] program = "Txc14" -> Txc14(s, n, e)
    [] program = "Txc15" -> Txc15(s, n, e)
    [] program = "Txc16" -> Txc16(s, n, e)
    [] program = "Txc10Terminal" -> Txc10Terminal(s, n, e)
    [] program = "Txc11Terminal" -> Txc11Terminal(s, n, e)
    [] program = "Txc12Terminal" -> Txc12Terminal(s, n, e)
    [] program = "Txc13Terminal" -> Txc13Terminal(s, n, e)
    [] program = "Txc16Terminal" -> Txc16Terminal(s, n, e)

AllInitialized == initialized = Cardinality(Modules(sim))

initialize ==
  /\ ~ AllInitialized
  /\ initialized' = initialized + 1
  /\ sim' \in Handled(sim, initialized, Start)
  /\ UNCHANGED program

WithinBounds(e) ==
  /\ Len(sim.fes) <= MaxEvents
  /\ "hopCount" \in DOMAIN e.msg => e.msg.hopCount < MaxHops
  /\ program = "Txc9" /\ e.msg = ack => sim.mem[tic].seq < MaxSeq

handleMessage ==
  /\ AllInitialized /\ ~ sim.thrown
  /\ sim.fes # <<>>
  /\ WithinBounds(Head(sim.fes))
  /\ sim' \in Handled(Advanced(sim), Head(sim.fes).to, Head(sim.fes))
  /\ UNCHANGED <<program, initialized>>

Next == initialize \/ handleMessage

UnderWay(s, n) == \E e \in Range(s.fes) : e.to = n /\ ~ IsSelfMessage(e)

(* The simulation goes on while there are events, and uniform(0,1) < 0.1   *)
(* does not hold for ever: toc answers a message after finitely many.      *)
Fairness ==
  /\ WF_vars(Next)
  /\ SF_vars(handleMessage /\ ~ UnderWay(sim, tic) /\ UnderWay(sim, tic)')

Spec == Init /\ [][Next]_vars /\ Fairness
-----------------------------------------------------------------------------
(* The messages there are, in the event set or kept, timers apart. *)
Messages(s) ==
  Cardinality({i \in DOMAIN s.fes : s.fes[i].msg \notin {event, timeoutEvent}})
    + Cardinality({n \in Modules(s) : s.mem[n].tictocMsg # NULL})

(* No program loses or doubles a message unless it means to, and none      *)
(* schedules a timer that is running, which would end the simulation:      *)
(* whoever counts to zero deletes the only message; who keeps a message    *)
(* has its timer running; with stop and wait the timer always runs and the *)
(* answer always comes before it expires, however late (Tic8, Tic9); as    *)
(* many messages as were booted are tossed about for ever (Txc13-Txc16).   *)
NothingIsLostOrDoubled ==
  LET k == Messages(sim)
      Timed == {n \in Modules(sim) : Scheduled(sim, n, event)}
  IN /\ ~ sim.thrown
     /\ AllInitialized =>
          CASE program \in {"Txc1", "Txc2"} -> k = 1
            [] program \in {"Txc3", "Txc4", "Txc5"} ->
                 k = IF \E n \in Modules(sim) : sim.mem[n].counter = 0 THEN 0 ELSE 1
            [] program \in {"Txc6", "Txc7"} ->
                 /\ Timed = {n \in Modules(sim) : sim.mem[n].tictocMsg # NULL}
                 /\ IF program = "Txc6" THEN k = 1 ELSE k <= 1
            [] program \in {"Txc8", "Txc9"} -> k <= 1 /\ Scheduled(sim, tic, timeoutEvent)
            [] program = "Txc13Terminal" -> k >= 1 /\ Timed = Modules(sim)
            [] program = "Txc16" -> k = Cardinality(Modules(sim))
            [] program \in {"Txc13", "Txc14", "Txc15", "Txc16Terminal"} -> k = 1
            [] OTHER -> k <= 1

(* The links a message will have crossed when it reaches its module.       *)
(* Txc13 of the terminal copy does not count the first.                    *)
LinksCrossed(e) ==
  e.msg.hopCount + IF program = "Txc13Terminal" /\ ~ IsSelfMessage(e) THEN 1 ELSE 0

(* The hop count of a message fits the way it has come: in a network       *)
(* without circles it is the distance from its source and an even number   *)
(* of hops more, and its destination is not on the way it came, since the  *)
(* first visit ends the journey (handleMessage and forwardMessage).        *)
HopsAreCounted ==
  \A e \in Range(sim.fes) : "hopCount" \in DOMAIN e.msg =>
    LET m        == e.msg
        way(a,b) == Distance(sim.links, a, b)
        more     == LinksCrossed(e) - way(m.source, e.to)
    IN /\ more \in Nat /\ more % 2 = 0
       /\ way(m.source, e.from) # way(m.source, m.destination) + way(m.destination, e.from)

Service ==
  INSTANCE Exchange WITH
    Rounds <- MaxSeq, round <- sim.mem[tic].seq, heard <- program = "Txc9" /\ UnderWay(sim, tic)

(* Stop and wait keeps its promise although a message may be lost time and *)
(* again and answers do not say what they answer (Tic9, Toc9): every       *)
(* message is heard once, in order, before the next is made.               *)
ImplementsExchange == Service!Spec
=============================================================================
