------------------------------- MODULE TicTocNet -------------------------------
(***************************************************************************)
(* The programs Txc10 to Txc16 of the OMNeT++ tutorial, which toss         *)
(* messages about in a network.  Of most there are two copies, in          *)
(* tictocIDE and in TicTocTutorialTerminal; the latter do not send a       *)
(* message back the way it came, if they have a choice.                    *)
(***************************************************************************)
EXTENDS TicTocPair

(* A random gate. *)
Tossed(s, n, msg) == {send(s, n, to, msg) : to \in Neighbours(s, n)}

(* A random gate but the one the message came through, if it came through  *)
(* one and there is another.                                               *)
TossedOn(s, n, came, msg) ==
  LET others == Neighbours(s, n) \ came
  IN {send(s, n, to, msg) : to \in IF others = {} THEN Neighbours(s, n) ELSE others}

ticMessage == [name |-> "tic"]

(* Module 0 makes a message, module 3 takes it, the others toss it. *)
TossTo3(s, n, e, tossed) ==
  IF e = Start THEN {IF n = 0 THEN scheduleAt(s, n, 0, ticMessage) ELSE s}
  ELSE IF n = 3 THEN {s}
  ELSE tossed

Txc10(s, n, e)         == TossTo3(s, n, e, Tossed(s, n, e.msg))
Txc10Terminal(s, n, e) == TossTo3(s, n, e, TossedOn(s, n, {e.from}, e.msg))
Txc11(s, n, e)         == Txc10(s, n, e)
Txc11Terminal(s, n, e) == Txc10Terminal(s, n, e)
Txc12(s, n, e)         == Txc11(s, n, e)
Txc12Terminal(s, n, e) == Txc11Terminal(s, n, e)

-----------------------------------------------------------------------------
(* Messages with a destination. *)

generateMessage(s, n) ==
  {[name |-> "tic", source |-> n, destination |-> d, hopCount |-> 0] : d \in Modules(s) \ {n}}

Hopped(msg) == [msg EXCEPT !.hopCount = @ + 1]

(* The message of module 0 comes to itself first. *)
Booted(s, n) == {scheduleAt(s, n, 0, m) : m \in generateMessage(s, n)}

(* What arrived is deleted for a new one. *)
ToForward(s, n, e) == IF e.msg.destination = n THEN generateMessage(s, n) ELSE {e.msg}

(* Mutant: forwarding does not count the hop of a new message. *)
MutTxc13Uncounted(s, n, e) ==
  IF e = Start THEN IF n = 0 THEN Booted(s, n) ELSE {s}
  ELSE UNION {Tossed(s, n, IF m = e.msg THEN Hopped(m) ELSE m) : m \in ToForward(s, n, e)}

Txc13(s, n, e) ==
  IF e = Start THEN IF n = 0 THEN Booted(s, n) ELSE {s}
  ELSE UNION {Tossed(s, n, Hopped(m)) : m \in ToForward(s, n, e)}

(* Counting what was sent and received changes nothing else. *)
Txc14(s, n, e) == Txc13(s, n, e)
Txc15(s, n, e) == Txc14(s, n, e)

(* A new message and one that was scheduled came through no gate. *)
CameThrough(n, e, msg) == IF msg = e.msg THEN {e.from} \ {n} ELSE {}

Forwarded(s, n, e) ==
  UNION {TossedOn(s, n, CameThrough(n, e, m), Hopped(m)) : m \in ToForward(s, n, e)}

(* Every module makes a message at the start. *)
Txc16(s, n, e) == IF e = Start THEN Booted(s, n) ELSE Forwarded(s, n, e)

Txc16Terminal(s, n, e) == IF e = Start /\ n # 0 THEN {s} ELSE Txc16(s, n, e)

(* Every module makes a message from time to time as well, and a hop is    *)
(* counted when a message is passed on that has come over a link.          *)
EventTimer(s, n) == {scheduleAt(s, n, t, event) : t \in DelayTimes}

HoppedOn(msg, came) == IF came = {} THEN msg ELSE Hopped(msg)

Txc13Terminal(s, n, e) ==
  IF e = Start
  THEN UNION {IF n = 0 THEN Booted(t, n) ELSE {t} : t \in EventTimer(s, n)}
  ELSE IF e.msg = event
  THEN UNION {TossedOn(t, n, {}, m) : t \in EventTimer(s, n), m \in generateMessage(s, n)}
  ELSE UNION {LET came == CameThrough(n, e, m)
              IN TossedOn(s, n, came, HoppedOn(m, came)) : m \in ToForward(s, n, e)}
=============================================================================
