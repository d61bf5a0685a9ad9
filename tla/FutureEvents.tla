----------------------------- MODULE FutureEvents -----------------------------
(***************************************************************************)
(* The simulation kernel as the tutorial programs use it: a simulation is  *)
(*   fes     the future events, by time and, within an instant, in the     *)
(*           order they were inserted: a message that reaches a module     *)
(*           over a link, or a message a module has scheduled for itself   *)
(*   mem     the members of each module                                    *)
(*   links   the network, a set of pairs of modules                        *)
(*   thrown  the kernel has ended the simulation with an error             *)
(* Times are relative to the present, in steps of 100 ms.                  *)
(***************************************************************************)
EXTENDS Integers, FiniteSets, SequencesExt

NULL == [name |-> "NULL"]

Modules(s) == UNION s.links

Neighbours(s, n) == {m \in Modules(s) : {n, m} \in s.links /\ m # n}

(* An event comes after those inserted before it that are not later. *)
Insert(fes, event) ==
  InsertAt(fes, Cardinality({i \in DOMAIN fes : fes[i].in <= event.in}) + 1, event)

(* Every channel of the tutorial networks has a delay of 100 ms. *)
channelDelay == 1

send(s, from, to, msg) ==
  [s EXCEPT !.fes = Insert(@, [in |-> channelDelay, from |-> from, to |-> to, msg |-> msg])]

IsSelfMessage(event) == event.from = event.to

IsTimer(e, n, msg) == IsSelfMessage(e) /\ e.to = n /\ e.msg = msg

Scheduled(s, n, msg) == \E e \in Range(s.fes) : IsTimer(e, n, msg)

(* A message object can be in the event set once. *)
scheduleAt(s, n, delay, msg) ==
  IF Scheduled(s, n, msg) THEN [s EXCEPT !.thrown = TRUE]
  ELSE [s EXCEPT !.fes = Insert(@, [in |-> delay, from |-> n, to |-> n, msg |-> msg])]

cancelEvent(s, n, msg) ==
  IF Scheduled(s, n, msg)
  THEN [s EXCEPT !.fes = RemoveAt(@, CHOOSE i \in DOMAIN s.fes : IsTimer(s.fes[i], n, msg))]
  ELSE s

(* The first event is taken out and time moves on to it. *)
Advanced(s) ==
  [s EXCEPT !.fes = [i \in 1 .. Len(s.fes) - 1 |->
                       [s.fes[i + 1] EXCEPT !.in = @ - Head(s.fes).in]]]
=============================================================================
