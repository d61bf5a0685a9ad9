------------------------------ MODULE TicTocPair ------------------------------
(***************************************************************************)
(* The programs Txc1 to Txc9 of the OMNeT++ tutorial, which run on two     *)
(* modules, tic and toc.  A program is an operator: the simulations that   *)
(* may follow when module n of simulation s is initialized (e = Start) or  *)
(* handles the event e, which has left the event set.                      *)
(***************************************************************************)
EXTENDS FutureEvents

CONSTANTS
  Limits,     \* values of the limit parameter (Txc4, Txc5)
  DelayTimes  \* values of the random times (Txc7's delayTime, Txc13's eventTime)

tic == 0
toc == 1
Other(n) == 1 - n

Start == [msg |-> "Start"]

tictocMsg    == [name |-> "tictocMsg"]
event        == [name |-> "event"]
timeoutEvent == [name |-> "timeoutEvent"]
ack          == [name |-> "ack"]

(* tic sends the first message, then each sends back what it gets. *)
Txc1(s, n, e) ==
  IF e # Start THEN {send(s, n, Other(n), e.msg)}
  ELSE IF n = tic THEN {send(s, n, toc, tictocMsg)}
  ELSE {s}

(* The same with debug messages. *)
Txc2(s, n, e) == Txc1(s, n, e)

(* Each counts down what it gets and deletes the message at zero. *)
CountDown(s, n, e, limit) ==
  LET started == [s EXCEPT !.mem[n].counter = limit]
      counted == [s EXCEPT !.mem[n].counter = @ - 1]
  IN IF e # Start
     THEN IF counted.mem[n].counter = 0 THEN counted ELSE send(counted, n, Other(n), e.msg)
     ELSE IF n = tic THEN send(started, n, toc, tictocMsg) ELSE started

Txc3(s, n, e) == {CountDown(s, n, e, 10)}

(* The limit and who begins are parameters of the modules. *)
Txc4(s, n, e) == {CountDown(s, n, e, limit) : limit \in Limits}

Txc5(s, n, e) == Txc4(s, n, e)

(* A module keeps what it gets for a while.  tic begins at 5.0 s. *)
keep(s, n, msg, delay) == scheduleAt([s EXCEPT !.mem[n].tictocMsg = msg], n, delay, event)

Txc6(s, n, e) ==
  IF e = Start THEN {IF n = tic THEN keep(s, n, tictocMsg, 50) ELSE s}
  ELSE IF e.msg = event
  THEN {[send(s, n, Other(n), s.mem[n].tictocMsg) EXCEPT !.mem[n].tictocMsg = NULL]}
  ELSE {keep(s, n, e.msg, 10)}

(* The while is random, and what arrives may be lost. *)
Txc7(s, n, e) ==
  IF e = Start \/ e.msg = event THEN Txc6(s, n, e)
  ELSE {s} \cup {keep(s, n, e.msg, delay) : delay \in DelayTimes}

-----------------------------------------------------------------------------
(* Stop and wait. *)

timeout == 10

(* Mutant: the answer does not stop the timer. *)
MutTic8KeepsTimer(s, e) ==
  {scheduleAt(send(s, tic, toc, tictocMsg), tic, timeout, timeoutEvent)}

(* A new message when the answer comes or the timeout expires. *)
Tic8(s, e) ==
  LET ready == IF e # Start /\ e.msg # timeoutEvent THEN cancelEvent(s, tic, timeoutEvent) ELSE s
  IN {scheduleAt(send(ready, tic, toc, tictocMsg), tic, timeout, timeoutEvent)}

(* The message itself is the answer, unless it is lost. *)
Toc8(s, e) == IF e = Start THEN {s} ELSE {s, send(s, toc, tic, e.msg)}

Txc8(s, n, e) == IF n = tic THEN Tic8(s, e) ELSE Toc8(s, e)

generateNewMessage(s) ==
  [s EXCEPT !.mem[tic].seq = @ + 1,
            !.mem[tic].message = [name |-> "tic", seq |-> s.mem[tic].seq + 1]]

sendCopyOf(s) ==
  scheduleAt(send(s, tic, toc, s.mem[tic].message), tic, timeout, timeoutEvent)

(* Mutant: the timer runs on when the answer has come. *)
MutTic9KeepsTimer(s, e) ==
  {IF e # Start /\ e.msg = timeoutEvent THEN sendCopyOf(s)
   ELSE LET next == generateNewMessage(s)
        IN IF e = Start THEN sendCopyOf(next) ELSE send(next, tic, toc, next.mem[tic].message)}

(* The message is kept until its answer comes and sent again on a timeout. *)
Tic9(s, e) ==
  {IF e = Start THEN sendCopyOf(generateNewMessage(s))
   ELSE IF e.msg = timeoutEvent THEN sendCopyOf(s)
   ELSE sendCopyOf(generateNewMessage(cancelEvent(s, tic, timeoutEvent)))}

(* An answer, which does not say what it answers, unless it is lost. *)
Toc9(s, e) == IF e = Start THEN {s} ELSE {s, send(s, toc, tic, ack)}

Txc9(s, n, e) == IF n = tic THEN Tic9(s, e) ELSE Toc9(s, e)
=============================================================================
