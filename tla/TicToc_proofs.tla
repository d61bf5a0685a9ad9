---------------------------- MODULE TicToc_proofs ----------------------------
(***************************************************************************)
(* What the tutorial programs keep, on every network, for all values of    *)
(* the limits and times and all lengths of a run.  Each kind of program    *)
(* has an invariant that says what the event set and the memories of the   *)
(* modules look like after k modules were initialized: it holds when the   *)
(* kind starts, an event leaves it as it is (the lemmas named ...Starts    *)
(* and ...Handles), and it says how many messages there are (...Keeps).    *)
(* TicTocInv puts them together.                                           *)
(***************************************************************************)
EXTENDS TicToc, FiniteSetTheorems, SequenceTheorems, WellFoundedInduction, TLAPS

-----------------------------------------------------------------------------
(* The event set.                                                          *)

Event(t, from, to, msg) == [in |-> t, from |-> from, to |-> to, msg |-> msg]

(* A simulation that was not ended by an error. *)
Sim(fes, links, mem) == [fes |-> fes, links |-> links, thrown |-> FALSE, mem |-> mem]

(* What is left of the events when the first is taken out. *)
Rest(fes) == [i \in 1 .. Len(fes) - 1 |-> [fes[i + 1] EXCEPT !.in = @ - Head(fes).in]]

Place(f, e) == Cardinality({i \in DOMAIN f : f[i].in <= e.in}) + 1

(* g is f with an event e put between the others at p. *)
Inserted(f, e, p, g) ==
  /\ p \in 1 .. Len(f) + 1
  /\ Len(g) = Len(f) + 1
  /\ \A i \in 1 .. Len(f) + 1 :
       g[i] = IF i < p THEN f[i] ELSE IF i = p THEN e ELSE f[i - 1]

LEMMA InsertPuts ==
  ASSUME NEW S, NEW f \in Seq(S), NEW e \in S
  PROVE  Insert(f, e) \in Seq(S) /\ Inserted(f, e, Place(f, e), Insert(f, e))
<1> DEFINE before == {i \in DOMAIN f : f[i].in <= e.in}
           p == Place(f, e)
<1>1. IsFiniteSet(1 .. Len(f)) /\ Cardinality(1 .. Len(f)) = Len(f)
  <2>1. Len(f) \in Nat /\ 1 \in Int /\ Len(f) \in Int
    OBVIOUS
  <2>2. QED
    BY <2>1, FS_Interval
<1>2. before \subseteq 1 .. Len(f)
  OBVIOUS
<1>3. Cardinality(before) \in Nat /\ Cardinality(before) <= Len(f)
  BY <1>1, <1>2, FS_Subset, FS_CardinalityType
<1>4. p \in 1 .. Len(f) + 1
  BY <1>3 DEF Place
<1>5. Insert(f, e) = SubSeq(f, 1, p - 1) \o <<e>> \o SubSeq(f, p, Len(f))
  BY DEF Insert, InsertAt, Place
<1> HIDE DEF p, before
<1> DEFINE x == SubSeq(f, 1, p - 1)
           y == SubSeq(f, p, Len(f))
<1>6. /\ x \in Seq(S) /\ Len(x) = p - 1
      /\ \A i \in 1 .. p - 1 : x[i] = f[i]
  BY <1>4
<1>7. /\ y \in Seq(S) /\ Len(y) = Len(f) - p + 1
      /\ \A i \in 1 .. Len(f) - p + 1 : y[i] = f[p + i - 1]
  BY <1>4
<1> HIDE DEF x, y
<1> DEFINE z == x \o <<e>>
<1>8. /\ z \in Seq(S) /\ Len(z) = p
      /\ \A i \in 1 .. p - 1 : z[i] = f[i]
      /\ z[p] = e
  BY <1>4, <1>6
<1> HIDE DEF z
<1>9. /\ z \o y \in Seq(S) /\ Len(z \o y) = Len(f) + 1
      /\ \A i \in 1 .. p : (z \o y)[i] = z[i]
      /\ \A i \in p + 1 .. Len(f) + 1 : (z \o y)[i] = y[i - p]
  BY <1>4, <1>7, <1>8
<1>10. Insert(f, e) = z \o y
  BY <1>5 DEF x, y, z
<1>11. \A i \in p + 1 .. Len(f) + 1 : y[i - p] = f[i - 1]
  BY <1>4, <1>7
<1>12. \A i \in 1 .. Len(f) + 1 :
         Insert(f, e)[i] = IF i < p THEN f[i] ELSE IF i = p THEN e ELSE f[i - 1]
  <2> TAKE i \in 1 .. Len(f) + 1
  <2>1. CASE i < p
    BY <1>4, <1>8, <1>9, <1>10, <2>1
  <2>2. CASE i = p
    BY <1>4, <1>8, <1>9, <1>10, <2>2
  <2>3. CASE i > p
    <3>1. i \in p + 1 .. Len(f) + 1
      BY <1>4, <2>3
    <3>2. QED
      BY <3>1, <1>4, <1>9, <1>10, <1>11, <2>3
  <2>4. QED
    BY <1>4, <2>1, <2>2, <2>3
<1>13. Len(Insert(f, e)) = Len(f) + 1 /\ Insert(f, e) \in Seq(S)
  BY <1>9, <1>10
<1>14. Inserted(f, e, p, Insert(f, e))
  BY <1>4, <1>12, <1>13 DEF Inserted
<1>15. QED
  BY <1>13, <1>14 DEF p

LEMMA InsertFirst ==
  ASSUME NEW e
  PROVE  Insert(<<>>, e) = <<e>>
<1>1. <<>> \in Seq({e}) /\ e \in {e} /\ Len(<<>>) = 0
  OBVIOUS
<1> DEFINE g == Insert(<<>>, e)
<1>2. g \in Seq({e}) /\ Len(g) = 1
  <2>1. g \in Seq({e}) /\ Inserted(<<>>, e, Place(<<>>, e), g)
    BY <1>1, InsertPuts
  <2>2. QED
    BY <1>1, <2>1 DEF Inserted
<1>3. g[1] = e
  BY <1>2
<1> HIDE DEF g
<1>4. g = <<e>>
  BY <1>2, <1>3
<1>5. QED
  BY <1>4 DEF g

LEMMA InsertSecond ==
  ASSUME NEW a, NEW b, a.in \in Int, b.in \in Int
  PROVE  /\ a.in <= b.in => Insert(<<a>>, b) = <<a, b>>
         /\ a.in > b.in => Insert(<<a>>, b) = <<b, a>>
<1> DEFINE before == {i \in DOMAIN <<a>> : <<a>>[i].in <= b.in}
           g == Insert(<<a>>, b)
<1>1. a.in <= b.in => before = {1}
  OBVIOUS
<1>2. a.in > b.in => before = {}
  OBVIOUS
<1>3. Place(<<a>>, b) = Cardinality(before) + 1
  BY DEF Place
<1>4. <<a>> \in Seq({a, b}) /\ b \in {a, b} /\ Len(<<a>>) = 1 /\ <<a>>[1] = a
  OBVIOUS
<1>5. g \in Seq({a, b}) /\ Inserted(<<a>>, b, Place(<<a>>, b), g)
  BY <1>4, InsertPuts
<1> HIDE DEF before, g
<1>6. a.in <= b.in => Place(<<a>>, b) = 2
  <2>1. Cardinality({1}) = 1
    BY FS_Singleton
  <2>2. a.in <= b.in => Cardinality(before) = 1
    BY <1>1, <2>1, Zenon
  <2>3. QED
    BY <1>3, <2>2
<1>7. a.in > b.in => Place(<<a>>, b) = 1
  BY <1>2, <1>3, FS_EmptySet
<1>8. Len(g) = 2
  BY <1>4, <1>5 DEF Inserted
<1>9. a.in <= b.in => g[1] = a /\ g[2] = b
  BY <1>4, <1>5, <1>6 DEF Inserted
<1>10. a.in > b.in => g[1] = b /\ g[2] = a
  BY <1>4, <1>5, <1>7 DEF Inserted
<1>11. a.in <= b.in => g = <<a, b>>
  BY <1>5, <1>8, <1>9
<1>12. a.in > b.in => g = <<b, a>>
  BY <1>5, <1>8, <1>10
<1>13. QED
  BY <1>11, <1>12 DEF g

LEMMA WithEvents ==
  ASSUME NEW f, NEW links, NEW mem, NEW g
  PROVE  [Sim(f, links, mem) EXCEPT !.fes = g] = Sim(g, links, mem)
<1>1. ASSUME NEW s, NEW b, s = [fes |-> f, links |-> links, thrown |-> b, mem |-> mem]
      PROVE  [s EXCEPT !.fes = g] = [fes |-> g, links |-> links, thrown |-> b, mem |-> mem]
  BY <1>1, SMT
<1>2. QED
  BY <1>1 DEF Sim

LEMMA SendForm ==
  ASSUME NEW f, NEW links, NEW mem, NEW a, NEW b, NEW m
  PROVE  send(Sim(f, links, mem), a, b, m) = Sim(Insert(f, Event(1, a, b, m)), links, mem)
<1> DEFINE s == Sim(f, links, mem)
           g == Insert(s.fes, Event(1, a, b, m))
<1>1. send(s, a, b, m) = [s EXCEPT !.fes = g]
  BY DEF send, Event, channelDelay
<1>2. g = Insert(f, Event(1, a, b, m))
  <2>1. s.fes = f
    BY DEF Sim
  <2>2. QED
    BY <2>1
<1> HIDE DEF g
<1>3. QED
  BY <1>1, <1>2, WithEvents

LEMMA ScheduledForm ==
  ASSUME NEW f, NEW links, NEW mem, NEW n, NEW m
  PROVE  Scheduled(Sim(f, links, mem), n, m) <=> \E i \in DOMAIN f : IsTimer(f[i], n, m)
BY DEF Scheduled, Sim, Range

LEMMA ScheduleForm ==
  ASSUME NEW f, NEW links, NEW mem, NEW n, NEW t, NEW m,
         \A i \in DOMAIN f : ~ IsTimer(f[i], n, m)
  PROVE  scheduleAt(Sim(f, links, mem), n, t, m) = Sim(Insert(f, Event(t, n, n, m)), links, mem)
<1>1. ~ Scheduled(Sim(f, links, mem), n, m)
  BY ScheduledForm
<1>2. QED
  <2> DEFINE s == Sim(f, links, mem)
             g == Insert(s.fes, Event(t, n, n, m))
  <2>1. scheduleAt(s, n, t, m)
          = IF Scheduled(s, n, m) THEN [s EXCEPT !.thrown = TRUE] ELSE [s EXCEPT !.fes = g]
    BY DEF scheduleAt, Event
  <2>2. g = Insert(f, Event(t, n, n, m))
    <3>1. s.fes = f
      BY DEF Sim
    <3>2. QED
      BY <3>1
  <2> HIDE DEF g
  <2>3. scheduleAt(s, n, t, m) = [s EXCEPT !.fes = g]
    BY <1>1, <2>1, Zenon
  <2>4. QED
    BY <2>2, <2>3, WithEvents

LEMMA AdvancedForm ==
  ASSUME NEW f, NEW links, NEW mem
  PROVE  Advanced(Sim(f, links, mem)) = Sim(Rest(f), links, mem)
<1> DEFINE s == Sim(f, links, mem)
           g == Rest(s.fes)
<1>1. Advanced(s) = [s EXCEPT !.fes = g]
  BY DEF Advanced, Rest
<1>2. g = Rest(f)
  <2>1. s.fes = f
    BY DEF Sim
  <2>2. QED
    BY <2>1
<1> HIDE DEF g
<1>3. QED
  BY <1>1, <1>2, WithEvents

LEMMA RestOfOne ==
  ASSUME NEW e
  PROVE  Rest(<<e>>) = <<>>
BY DEF Rest

LEMMA RestOfTwo ==
  ASSUME NEW a, NEW b
  PROVE  Rest(<<a, b>>) = <<[b EXCEPT !.in = @ - a.in]>>
BY DEF Rest

LEMMA EventForm ==
  ASSUME NEW t, NEW a, NEW b, NEW m
  PROVE  /\ Event(t, a, b, m).in = t
         /\ Event(t, a, b, m).from = a
         /\ Event(t, a, b, m).to = b
         /\ Event(t, a, b, m).msg = m
         /\ Event(t, a, b, m) # Start
         /\ \A n, o : IsTimer(Event(t, a, b, m), n, o) <=> a = b /\ b = n /\ m = o
<1>1. DOMAIN Event(t, a, b, m) = {"in", "from", "to", "msg"} /\ DOMAIN Start = {"msg"}
  BY DEF Event, Start
<1>2. "in" # "msg"
  OBVIOUS
<1>3. Event(t, a, b, m) # Start
  BY <1>1, <1>2, Zenon
<1>4. QED
  BY <1>3 DEF Event, IsTimer, IsSelfMessage

-----------------------------------------------------------------------------
(* One event, or none.                                                     *)

LEMMA SendOnly ==
  ASSUME NEW links, NEW mem, NEW a, NEW b, NEW m
  PROVE  send(Sim(<<>>, links, mem), a, b, m) = Sim(<<Event(1, a, b, m)>>, links, mem)
BY SendForm, InsertFirst

LEMMA ScheduleOnly ==
  ASSUME NEW links, NEW mem, NEW n, NEW t, NEW m
  PROVE  scheduleAt(Sim(<<>>, links, mem), n, t, m) = Sim(<<Event(t, n, n, m)>>, links, mem)
<1>1. \A i \in DOMAIN <<>> : ~ IsTimer(<<>>[i], n, m)
  OBVIOUS
<1>2. QED
  BY <1>1, ScheduleForm, InsertFirst

LEMMA OneHandled ==
  ASSUME NEW links, NEW mem, NEW e
  PROVE  /\ Advanced(Sim(<<e>>, links, mem)) = Sim(<<>>, links, mem)
         /\ Head(Sim(<<e>>, links, mem).fes) = e
<1>1. Head(Sim(<<e>>, links, mem).fes) = e
  BY DEF Sim
<1>2. QED
  BY <1>1, AdvancedForm, RestOfOne

LEMMA NoEvent ==
  ASSUME NEW links, NEW mem
  PROVE  Sim(<<>>, links, mem).fes = <<>>
BY DEF Sim

LEMMA WithMemory ==
  ASSUME NEW f, NEW links, NEW mem, NEW g
  PROVE  [Sim(f, links, mem) EXCEPT !.mem = g] = Sim(f, links, g)
<1>1. ASSUME NEW s, NEW b, s = [fes |-> f, links |-> links, thrown |-> b, mem |-> mem]
      PROVE  [s EXCEPT !.mem = g] = [fes |-> f, links |-> links, thrown |-> b, mem |-> g]
  BY <1>1, SMT
<1>2. QED
  BY <1>1 DEF Sim

(* What a module holds at the start. *)
Blank == [counter |-> 0, tictocMsg |-> NULL, seq |-> 0, message |-> NULL]

Blanks(links) == [n \in UNION links |-> Blank]

-----------------------------------------------------------------------------
(* The messages there are.                                                 *)

Ordinary(msg) == msg \notin {event, timeoutEvent}

LEMMA NamedOtherwise ==
  ASSUME NEW msg, msg.name \notin {"event", "timeoutEvent"}
  PROVE  Ordinary(msg)
BY DEF Ordinary, event, timeoutEvent

UnderWayIn(f) == {i \in DOMAIN f : Ordinary(f[i].msg)}

KeptIn(links, mem) == {n \in UNION links : mem[n].tictocMsg # NULL}

LEMMA MessagesForm ==
  ASSUME NEW f, NEW links, NEW mem
  PROVE  Messages(Sim(f, links, mem)) = Cardinality(UnderWayIn(f)) + Cardinality(KeptIn(links, mem))
<1>1. /\ Sim(f, links, mem).fes = f
      /\ Sim(f, links, mem).links = links
      /\ Sim(f, links, mem).mem = mem
  BY DEF Sim
<1>2. QED
  BY <1>1 DEF Messages, UnderWayIn, KeptIn, Ordinary, Modules

LEMMA FewMessages ==
  /\ Cardinality(UnderWayIn(<<>>)) = 0
  /\ \A e : Ordinary(e.msg) => Cardinality(UnderWayIn(<<e>>)) = 1
  /\ \A e : ~ Ordinary(e.msg) => Cardinality(UnderWayIn(<<e>>)) = 0
  /\ \A links, mem :
       (\A n \in UNION links : mem[n].tictocMsg = NULL) => Cardinality(KeptIn(links, mem)) = 0
<1>1. UnderWayIn(<<>>) = {}
  BY DEF UnderWayIn
<1>2. ASSUME NEW e, Ordinary(e.msg)
      PROVE  UnderWayIn(<<e>>) = {1}
  BY <1>2 DEF UnderWayIn
<1>3. ASSUME NEW e, ~ Ordinary(e.msg)
      PROVE  UnderWayIn(<<e>>) = {}
  BY <1>3 DEF UnderWayIn
<1>4. ASSUME NEW links, NEW mem, \A n \in UNION links : mem[n].tictocMsg = NULL
      PROVE  KeptIn(links, mem) = {}
  BY <1>4 DEF KeptIn
<1>5. Cardinality({}) = 0 /\ Cardinality({1}) = 1
  BY FS_EmptySet, FS_Singleton
<1>6. ASSUME NEW e, Ordinary(e.msg) PROVE Cardinality(UnderWayIn(<<e>>)) = 1
  BY <1>2, <1>5, <1>6, Zenon
<1>7. ASSUME NEW e, ~ Ordinary(e.msg) PROVE Cardinality(UnderWayIn(<<e>>)) = 0
  BY <1>3, <1>5, <1>7, Zenon
<1>8. ASSUME NEW links, NEW mem, \A n \in UNION links : mem[n].tictocMsg = NULL
      PROVE  Cardinality(KeptIn(links, mem)) = 0
  BY <1>4, <1>5, <1>8, Zenon
<1>9. Cardinality(UnderWayIn(<<>>)) = 0
  BY <1>1, <1>5, Zenon
<1>10. QED
  BY <1>6, <1>7, <1>8, <1>9, Zenon

LEMMA BlanksKeepNothing ==
  ASSUME NEW links
  PROVE  Cardinality(KeptIn(links, Blanks(links))) = 0
<1>1. \A n \in UNION links : Blanks(links)[n].tictocMsg = NULL
  BY DEF Blanks, Blank
<1>2. QED
  BY <1>1, FewMessages

-----------------------------------------------------------------------------
(* Txc1 and Txc2: there is always the one message.                         *)

PingInv(s, k, links) ==
  \/ k = 0 /\ s = Sim(<<>>, links, Blanks(links))
  \/ /\ k > 0
     /\ \E t \in Int, a, b \in {tic, toc} :
          s = Sim(<<Event(t, a, b, tictocMsg)>>, links, Blanks(links))

LEMMA PingStarts ==
  ASSUME NEW links, NEW s, NEW k \in {0, 1}, PingInv(s, k, links),
         NEW u \in Txc1(s, k, Start)
  PROVE  PingInv(u, k + 1, links)
<1>1. CASE k = 0
  <2>1. s = Sim(<<>>, links, Blanks(links))
    BY <1>1 DEF PingInv
  <2>2. u = send(s, tic, toc, tictocMsg)
    BY <1>1 DEF Txc1, tic
  <2>3. u = Sim(<<Event(1, tic, toc, tictocMsg)>>, links, Blanks(links))
    BY <2>1, <2>2, SendOnly
  <2>4. QED
    BY <1>1, <2>3 DEF PingInv
<1>2. CASE k = 1
  <2>1. u = s
    BY <1>2 DEF Txc1, tic
  <2>2. QED
    BY <1>2, <2>1 DEF PingInv
<1>3. QED
  BY <1>1, <1>2

LEMMA PingHandles ==
  ASSUME NEW links, NEW s, NEW k \in Nat, PingInv(s, k, links), s.fes # <<>>,
         NEW u \in Txc1(Advanced(s), Head(s.fes).to, Head(s.fes))
  PROVE  PingInv(u, k, links)
<1>1. k > 0
  BY NoEvent DEF PingInv
<1>2. PICK t \in Int, a, b \in {tic, toc} :
        s = Sim(<<Event(t, a, b, tictocMsg)>>, links, Blanks(links))
  BY <1>1 DEF PingInv
<1> DEFINE e == Event(t, a, b, tictocMsg)
<1>3. Head(s.fes) = e /\ Advanced(s) = Sim(<<>>, links, Blanks(links))
  BY <1>2, OneHandled
<1>4. e.to = b /\ e.msg = tictocMsg /\ e # Start
  BY EventForm
<1> HIDE DEF e
<1>5. u = send(Advanced(s), b, Other(b), tictocMsg)
  BY <1>3, <1>4 DEF Txc1
<1>6. u = Sim(<<Event(1, b, Other(b), tictocMsg)>>, links, Blanks(links))
  BY <1>3, <1>5, SendOnly
<1>7. Other(b) \in {tic, toc}
  BY DEF Other, tic, toc
<1>8. QED
  BY <1>1, <1>6, <1>7 DEF PingInv

LEMMA PingKeeps ==
  ASSUME NEW links, NEW s, NEW k \in Nat \ {0}, PingInv(s, k, links)
  PROVE  Messages(s) = 1
<1>1. PICK t \in Int, a, b \in {tic, toc} :
        s = Sim(<<Event(t, a, b, tictocMsg)>>, links, Blanks(links))
  BY DEF PingInv
<1>2. Ordinary(Event(t, a, b, tictocMsg).msg)
  BY EventForm, NamedOtherwise DEF tictocMsg
<1>3. QED
  BY <1>1, <1>2, MessagesForm, FewMessages, BlanksKeepNothing

-----------------------------------------------------------------------------
(* Txc3, Txc4 and Txc5: the message lives until a counter is zero.         *)

Counters == [{tic, toc} -> Nat]

Counting(c) == [n \in {tic, toc} |-> [Blank EXCEPT !.counter = c[n]]]

CountInv(s, k, links) ==
  \E c \in Counters :
    \/ k = 0 /\ s = Sim(<<>>, links, Counting(c))
    \/ /\ k > 0 /\ c[tic] > 0 /\ (k = 2 => c[toc] > 0)
       /\ \E t \in Int, a, b \in {tic, toc} :
            s = Sim(<<Event(t, a, b, tictocMsg)>>, links, Counting(c))
    \/ k = 2 /\ (c[tic] = 0 \/ c[toc] = 0) /\ s = Sim(<<>>, links, Counting(c))

WithCounter(s, n, x) == [s EXCEPT !.mem[n].counter = x]

Changed(c, n, x) == [c EXCEPT ![n] = x]

LEMMA CounterSet ==
  ASSUME NEW f, NEW links, NEW c \in Counters, NEW n \in {tic, toc}, NEW x
  PROVE  WithCounter(Sim(f, links, Counting(c)), n, x) = Sim(f, links, Counting(Changed(c, n, x)))
<1> DEFINE s == Sim(f, links, Counting(c))
           g == [s.mem EXCEPT ![n] = [s.mem[n] EXCEPT !.counter = x]]
<1>1. WithCounter(s, n, x) = [s EXCEPT !.mem = g]
  BY DEF WithCounter
<1>2. s.mem = Counting(c)
  BY DEF Sim
<1>3. g = Counting(Changed(c, n, x))
  BY <1>2 DEF Counters, Counting, Blank, Changed
<1> HIDE DEF g
<1>4. [s EXCEPT !.mem = g] = Sim(f, links, g)
  BY WithMemory
<1>5. QED
  BY <1>1, <1>3, <1>4

LEMMA CounterRead ==
  ASSUME NEW f, NEW links, NEW c \in Counters, NEW n \in {tic, toc}
  PROVE  Sim(f, links, Counting(c)).mem[n].counter = c[n]
BY DEF Sim, Counters, Counting, Blank

LEMMA CountStarts ==
  ASSUME NEW links, NEW s, NEW k \in {0, 1}, CountInv(s, k, links), NEW limit \in Nat \ {0}
  PROVE  CountInv(CountDown(s, k, Start, limit), k + 1, links)
<1>1. PICK c \in Counters :
        \/ k = 0 /\ s = Sim(<<>>, links, Counting(c))
        \/ /\ k = 1 /\ c[tic] > 0
           /\ \E t \in Int, a, b \in {tic, toc} :
                s = Sim(<<Event(t, a, b, tictocMsg)>>, links, Counting(c))
  BY DEF CountInv
<1> DEFINE d == Changed(c, k, limit)
           u == CountDown(s, k, Start, limit)
<1>2. k \in {tic, toc}
  BY DEF tic, toc
<1>3. d \in Counters /\ d[k] > 0 /\ (k = 1 => d[tic] = c[tic])
  BY <1>2 DEF tic, toc, Counters, Changed
<1>4. u = IF k = tic THEN send(WithCounter(s, k, limit), k, toc, tictocMsg)
          ELSE WithCounter(s, k, limit)
  BY DEF CountDown, WithCounter
<1> HIDE DEF u, d
<1>5. CASE k = 0
  <2>1. WithCounter(s, k, limit) = Sim(<<>>, links, Counting(d))
    <3>1. s = Sim(<<>>, links, Counting(c))
      BY <1>1, <1>5
    <3>2. WithCounter(Sim(<<>>, links, Counting(c)), k, limit) = Sim(<<>>, links, Counting(d))
      BY <1>1, <1>2, CounterSet DEF d
    <3>3. QED
      BY <3>1, <3>2
  <2>2. u = Sim(<<Event(1, tic, toc, tictocMsg)>>, links, Counting(d))
    BY <1>4, <1>5, <2>1, SendOnly DEF tic
  <2>3. k + 1 > 0 /\ d[tic] > 0 /\ ~ (k + 1 = 2)
    BY <1>3, <1>5 DEF tic
  <2>4. QED
    BY <1>3, <2>2, <2>3 DEF CountInv, u
<1>6. CASE k = 1
  <2>1. PICK t \in Int, a, b \in {tic, toc} :
          s = Sim(<<Event(t, a, b, tictocMsg)>>, links, Counting(c))
    BY <1>1, <1>6
  <2>2. u = WithCounter(s, k, limit)
    BY <1>4, <1>6 DEF tic
  <2>3. u = Sim(<<Event(t, a, b, tictocMsg)>>, links, Counting(d))
    BY <1>2, <2>1, <2>2, CounterSet DEF d
  <2>4. k + 1 > 0 /\ d[tic] > 0 /\ d[toc] > 0
    BY <1>1, <1>3, <1>6 DEF tic, toc, Counters
  <2>5. QED
    BY <1>3, <2>3, <2>4 DEF CountInv, u
<1>7. QED
  BY <1>5, <1>6

LEMMA CountHandles ==
  ASSUME NEW links, NEW s, CountInv(s, 2, links), s.fes # <<>>, NEW limit \in Nat \ {0}
  PROVE  CountInv(CountDown(Advanced(s), Head(s.fes).to, Head(s.fes), limit), 2, links)
<1>1. PICK c \in Counters :
        /\ c[tic] > 0 /\ c[toc] > 0
        /\ \E t \in Int, a, b \in {tic, toc} :
             s = Sim(<<Event(t, a, b, tictocMsg)>>, links, Counting(c))
  BY NoEvent DEF CountInv
<1>2. PICK t \in Int, a, b \in {tic, toc} :
        s = Sim(<<Event(t, a, b, tictocMsg)>>, links, Counting(c))
  BY <1>1
<1> DEFINE e == Event(t, a, b, tictocMsg)
           r == Sim(<<>>, links, Counting(c))
           d == Changed(c, b, c[b] - 1)
           u == CountDown(r, b, e, limit)
<1>3. Head(s.fes) = e /\ Advanced(s) = r
  BY <1>2, OneHandled
<1>4. e.to = b /\ e.msg = tictocMsg /\ e # Start
  BY EventForm
<1>5. d \in Counters /\ d[b] = c[b] - 1 /\ \A n \in {tic, toc} : n # b => d[n] = c[n]
  BY <1>1 DEF tic, toc, Counters, Changed
<1>6. r.mem[b].counter = c[b]
  BY CounterRead
<1>7. WithCounter(r, b, r.mem[b].counter - 1) = Sim(<<>>, links, Counting(d))
  <2>1. WithCounter(r, b, c[b] - 1) = Sim(<<>>, links, Counting(d))
    BY <1>1, <1>2, CounterSet
  <2>2. QED
    BY <1>6, <2>1
<1> HIDE DEF d
<1>8. Sim(<<>>, links, Counting(d)).mem[b].counter = d[b]
  BY <1>2, <1>5, CounterRead
<1> HIDE DEF e, r
<1>9. u = IF Sim(<<>>, links, Counting(d)).mem[b].counter = 0 THEN Sim(<<>>, links, Counting(d))
          ELSE send(Sim(<<>>, links, Counting(d)), b, Other(b), tictocMsg)
  <2>1. u = LET counted == WithCounter(r, b, r.mem[b].counter - 1)
            IN IF counted.mem[b].counter = 0 THEN counted ELSE send(counted, b, Other(b), tictocMsg)
    BY <1>4 DEF CountDown, WithCounter
  <2>2. QED
    BY <1>7, <2>1
<1> HIDE DEF u
<1>10. CASE d[b] = 0
  <2>1. u = Sim(<<>>, links, Counting(d))
    BY <1>8, <1>9, <1>10
  <2>2. d[tic] = 0 \/ d[toc] = 0
    BY <1>10
  <2>3. CountInv(u, 2, links)
    BY <1>5, <2>1, <2>2 DEF CountInv
  <2>4. QED
    BY <1>3, <1>4, <2>3 DEF u
<1>11. CASE d[b] # 0
  <2>1. u = Sim(<<Event(1, b, Other(b), tictocMsg)>>, links, Counting(d))
    BY <1>8, <1>9, <1>11, SendOnly
  <2>2. Other(b) \in {tic, toc}
    BY DEF Other, tic, toc
  <2>3. d[tic] > 0 /\ d[toc] > 0
    BY <1>1, <1>5, <1>11 DEF tic, toc, Counters
  <2>4. CountInv(u, 2, links)
    <3>1. \E t1 \in Int, a1, b1 \in {tic, toc} :
            u = Sim(<<Event(t1, a1, b1, tictocMsg)>>, links, Counting(d))
      BY <2>1, <2>2
    <3>2. QED
      BY <1>5, <2>3, <3>1 DEF CountInv
  <2>5. QED
    BY <1>3, <1>4, <2>4 DEF u
<1>12. QED
  BY <1>10, <1>11

LEMMA CountKeeps ==
  ASSUME NEW links, UNION links = {tic, toc}, NEW s, CountInv(s, 2, links)
  PROVE  /\ ~ s.thrown
         /\ Messages(s) = IF \E n \in Modules(s) : s.mem[n].counter = 0 THEN 0 ELSE 1
<1>1. PICK c \in Counters :
        \/ /\ c[tic] > 0 /\ c[toc] > 0
           /\ \E t \in Int, a, b \in {tic, toc} :
                s = Sim(<<Event(t, a, b, tictocMsg)>>, links, Counting(c))
        \/ (c[tic] = 0 \/ c[toc] = 0) /\ s = Sim(<<>>, links, Counting(c))
  BY DEF CountInv
<1>2. PICK f : s = Sim(f, links, Counting(c))
  BY <1>1
<1>3. ~ s.thrown /\ Modules(s) = {tic, toc}
  BY <1>2 DEF Sim, Modules
<1>4. \A n \in {tic, toc} : s.mem[n].counter = c[n]
  <2> TAKE n \in {tic, toc}
  <2>1. Sim(f, links, Counting(c)).mem[n].counter = c[n]
    BY <1>1, CounterRead
  <2>2. QED
    BY <1>2, <2>1
<1>5. \A n \in UNION links : Counting(c)[n].tictocMsg = NULL
  BY DEF Counting, Blank
<1>6. Cardinality(KeptIn(links, Counting(c))) = 0
  BY <1>5, FewMessages
<1>7. CASE c[tic] > 0 /\ c[toc] > 0
  <2>1. PICK t \in Int, a, b \in {tic, toc} :
          s = Sim(<<Event(t, a, b, tictocMsg)>>, links, Counting(c))
    BY <1>1, <1>7
  <2>2. Ordinary(Event(t, a, b, tictocMsg).msg)
    BY EventForm, NamedOtherwise DEF tictocMsg
  <2>3. Messages(s) = 1
    BY <1>6, <2>1, <2>2, MessagesForm, FewMessages
  <2>4. ~ \E n \in Modules(s) : s.mem[n].counter = 0
    BY <1>3, <1>4, <1>7
  <2>5. QED
    BY <1>3, <2>3, <2>4
<1>8. CASE c[tic] = 0 \/ c[toc] = 0
  <2>1. s = Sim(<<>>, links, Counting(c))
    BY <1>1, <1>8
  <2>2. Messages(s) = 0
    BY <1>6, <2>1, MessagesForm, FewMessages
  <2>3. \E n \in Modules(s) : s.mem[n].counter = 0
    BY <1>3, <1>4, <1>8
  <2>4. QED
    BY <1>3, <2>2, <2>3
<1>9. QED
  BY <1>1, <1>7, <1>8 DEF Counters

-----------------------------------------------------------------------------
(* Txc6 and Txc7: the message is on its way, or one module keeps it and    *)
(* has its timer running, or it is lost (Txc7).                            *)

Keeping(H) ==
  [n \in {tic, toc} |-> [Blank EXCEPT !.tictocMsg = IF n \in H THEN tictocMsg ELSE NULL]]

KeepInv(s, k, links, lossy) ==
  \/ k = 0 /\ s = Sim(<<>>, links, Keeping({}))
  \/ /\ k > 0
     /\ \E t \in Int, n \in {tic, toc} : s = Sim(<<Event(t, n, n, event)>>, links, Keeping({n}))
  \/ /\ k = 2
     /\ \E t \in Int, n \in {tic, toc} :
          s = Sim(<<Event(t, Other(n), n, tictocMsg)>>, links, Keeping({}))
  \/ lossy /\ k = 2 /\ s = Sim(<<>>, links, Keeping({}))

WithKept(s, n, msg) == [s EXCEPT !.mem[n].tictocMsg = msg]

LEMMA KeptSet ==
  ASSUME NEW f, NEW links, NEW n \in {tic, toc}
  PROVE  /\ WithKept(Sim(f, links, Keeping({})), n, tictocMsg) = Sim(f, links, Keeping({n}))
         /\ WithKept(Sim(f, links, Keeping({n})), n, NULL) = Sim(f, links, Keeping({}))
<1>1. ASSUME NEW mem
      PROVE  Sim(f, links, mem).mem = mem
  BY DEF Sim
<1>2. ASSUME NEW mem, NEW x
      PROVE  WithKept(Sim(f, links, mem), n, x)
               = Sim(f, links, [mem EXCEPT ![n] = [mem[n] EXCEPT !.tictocMsg = x]])
  <2> DEFINE s == Sim(f, links, mem)
             g == [s.mem EXCEPT ![n] = [s.mem[n] EXCEPT !.tictocMsg = x]]
  <2>1. WithKept(s, n, x) = [s EXCEPT !.mem = g]
    BY DEF WithKept
  <2>2. g = [mem EXCEPT ![n] = [mem[n] EXCEPT !.tictocMsg = x]]
    BY <1>1
  <2> HIDE DEF g
  <2>3. [s EXCEPT !.mem = g] = Sim(f, links, g)
    BY WithMemory
  <2>4. QED
    BY <2>1, <2>2, <2>3
<1>3. [Keeping({}) EXCEPT ![n] = [Keeping({})[n] EXCEPT !.tictocMsg = tictocMsg]] = Keeping({n})
  BY DEF Keeping, Blank
<1>4. [Keeping({n}) EXCEPT ![n] = [Keeping({n})[n] EXCEPT !.tictocMsg = NULL]] = Keeping({})
  BY DEF Keeping, Blank
<1>5. QED
  BY <1>2, <1>3, <1>4

LEMMA KeepForm ==
  ASSUME NEW links, NEW n \in {tic, toc}, NEW delay
  PROVE  keep(Sim(<<>>, links, Keeping({})), n, tictocMsg, delay)
           = Sim(<<Event(delay, n, n, event)>>, links, Keeping({n}))
<1>1. keep(Sim(<<>>, links, Keeping({})), n, tictocMsg, delay)
        = scheduleAt(WithKept(Sim(<<>>, links, Keeping({})), n, tictocMsg), n, delay, event)
  BY DEF keep, WithKept
<1>2. QED
  BY <1>1, KeptSet, ScheduleOnly

LEMMA KeepStarts ==
  ASSUME NEW links, NEW s, NEW k \in {0, 1}, NEW lossy \in BOOLEAN, KeepInv(s, k, links, lossy)
  PROVE  KeepInv(IF k = tic THEN keep(s, k, tictocMsg, 50) ELSE s, k + 1, links, lossy)
<1>1. CASE k = 0
  <2>1. s = Sim(<<>>, links, Keeping({}))
    BY <1>1 DEF KeepInv
  <2>2. k = tic /\ k \in {tic, toc} /\ 50 \in Int /\ k + 1 > 0
    BY <1>1 DEF tic
  <2>3. keep(s, k, tictocMsg, 50) = Sim(<<Event(50, k, k, event)>>, links, Keeping({k}))
    BY <2>1, <2>2, KeepForm
  <2>4. QED
    BY <2>2, <2>3 DEF KeepInv
<1>2. CASE k = 1
  <2>1. k # tic /\ k > 0 /\ k # 0 /\ k # 2 /\ k + 1 > 0
    BY <1>2 DEF tic
  <2>2. QED
    BY <2>1 DEF KeepInv
<1>3. QED
  BY <1>1, <1>2

LEMMA NotTheTimer == tictocMsg # event /\ tictocMsg # NULL /\ tictocMsg # timeoutEvent
<1>1. /\ tictocMsg.name = "tictocMsg" /\ event.name = "event" /\ NULL.name = "NULL"
      /\ timeoutEvent.name = "timeoutEvent"
  BY DEF tictocMsg, event, NULL, timeoutEvent
<1>2. QED
  BY <1>1

(* What Txc7 may do with an event, and Txc6 without the loss. *)
KeepHandled(s, n, e, lossy) ==
  IF e.msg = event
  THEN {[send(s, n, Other(n), s.mem[n].tictocMsg) EXCEPT !.mem[n].tictocMsg = NULL]}
  ELSE (IF lossy THEN {s} ELSE {}) \cup {keep(s, n, e.msg, delay) : delay \in Int}

LEMMA KeepPrograms ==
  ASSUME NEW s, NEW n, NEW e, e # Start
  PROVE  /\ Txc6(s, n, e) \subseteq KeepHandled(s, n, e, FALSE)
         /\ Txc7(s, n, e) \subseteq KeepHandled(s, n, e, TRUE)
<1>1. DelayTimes \subseteq Int /\ 10 \in Int
  BY TicTocAssumption
<1>2. Txc6(s, n, e) \subseteq KeepHandled(s, n, e, FALSE)
  BY <1>1 DEF Txc6, KeepHandled
<1>3. CASE e.msg = event
  BY <1>2, <1>3 DEF Txc6, Txc7, KeepHandled
<1>4. CASE e.msg # event
  BY <1>1, <1>2, <1>4 DEF Txc7, KeepHandled
<1>5. QED
  BY <1>2, <1>3, <1>4

LEMMA KeepEvent ==
  ASSUME NEW links, NEW s, NEW lossy \in BOOLEAN, KeepInv(s, 2, links, lossy), s.fes # <<>>
  PROVE  Head(s.fes) # Start
<1>1. \E t, a, b, m, H : s = Sim(<<Event(t, a, b, m)>>, links, Keeping(H))
  BY NoEvent DEF KeepInv
<1>2. PICK t, a, b, m, H : s = Sim(<<Event(t, a, b, m)>>, links, Keeping(H))
  BY <1>1
<1>3. Head(s.fes) = Event(t, a, b, m)
  BY <1>2, OneHandled
<1>4. QED
  BY <1>3, EventForm

LEMMA KeepHandles ==
  ASSUME NEW links, NEW s, NEW lossy \in BOOLEAN, KeepInv(s, 2, links, lossy), s.fes # <<>>,
         NEW u \in KeepHandled(Advanced(s), Head(s.fes).to, Head(s.fes), lossy)
  PROVE  KeepInv(u, 2, links, lossy)
<1>1. \/ \E t \in Int, n \in {tic, toc} : s = Sim(<<Event(t, n, n, event)>>, links, Keeping({n}))
      \/ \E t \in Int, n \in {tic, toc} :
           s = Sim(<<Event(t, Other(n), n, tictocMsg)>>, links, Keeping({}))
  BY NoEvent DEF KeepInv
<1>2. ASSUME NEW t \in Int, NEW n \in {tic, toc},
             s = Sim(<<Event(t, n, n, event)>>, links, Keeping({n}))
      PROVE  KeepInv(u, 2, links, lossy)
  <2> DEFINE e == Event(t, n, n, event)
             r == Sim(<<>>, links, Keeping({n}))
  <2>1. Head(s.fes) = e /\ Advanced(s) = r
    BY <1>2, OneHandled
  <2>2. e.to = n /\ e.msg = event
    BY EventForm
  <2>3. r.mem[n].tictocMsg = tictocMsg
    BY DEF Sim, Keeping, Blank
  <2> HIDE DEF e, r
  <2>4. u = WithKept(send(r, n, Other(n), tictocMsg), n, NULL)
    BY <2>1, <2>2, <2>3 DEF KeepHandled, WithKept
  <2>5. send(r, n, Other(n), tictocMsg)
          = Sim(<<Event(1, n, Other(n), tictocMsg)>>, links, Keeping({n}))
    BY SendOnly DEF r
  <2>6. u = Sim(<<Event(1, n, Other(n), tictocMsg)>>, links, Keeping({}))
    BY <2>4, <2>5, KeptSet
  <2>7. Other(n) \in {tic, toc} /\ n = Other(Other(n))
    BY DEF Other, tic, toc
  <2>8. PICK o \in {tic, toc} : o = Other(n)
    BY <2>7
  <2>9. u = Sim(<<Event(1, Other(o), o, tictocMsg)>>, links, Keeping({}))
    BY <2>6, <2>7, <2>8
  <2>10. QED
    BY <2>8, <2>9 DEF KeepInv
<1>3. ASSUME NEW t \in Int, NEW n \in {tic, toc},
             s = Sim(<<Event(t, Other(n), n, tictocMsg)>>, links, Keeping({}))
      PROVE  KeepInv(u, 2, links, lossy)
  <2> DEFINE e == Event(t, Other(n), n, tictocMsg)
             r == Sim(<<>>, links, Keeping({}))
  <2>1. Head(s.fes) = e /\ Advanced(s) = r
    BY <1>3, OneHandled
  <2>2. e.to = n /\ e.msg = tictocMsg
    BY EventForm
  <2> HIDE DEF e
  <2>3. (lossy /\ u = r) \/ \E delay \in Int : u = keep(r, n, tictocMsg, delay)
    BY <2>1, <2>2, NotTheTimer DEF KeepHandled
  <2>4. CASE lossy /\ u = r
    BY <2>4 DEF KeepInv
  <2>5. CASE \E delay \in Int : u = keep(r, n, tictocMsg, delay)
    <3>1. PICK delay \in Int : u = keep(r, n, tictocMsg, delay)
      BY <2>5
    <3>2. u = Sim(<<Event(delay, n, n, event)>>, links, Keeping({n}))
      BY <3>1, KeepForm
    <3>3. \E t1 \in Int, n1 \in {tic, toc} :
            u = Sim(<<Event(t1, n1, n1, event)>>, links, Keeping({n1}))
      BY <3>1, <3>2
    <3>4. 2 > 0
      OBVIOUS
    <3>5. QED
      BY <3>3, <3>4, Zenon DEF KeepInv
  <2>6. QED
    BY <2>3, <2>4, <2>5
<1>4. QED
  BY <1>1, <1>2, <1>3

LEMMA KeepKeeps ==
  ASSUME NEW links, UNION links = {tic, toc}, NEW s, NEW lossy \in BOOLEAN,
         KeepInv(s, 2, links, lossy)
  PROVE  /\ ~ s.thrown
         /\ {n \in Modules(s) : Scheduled(s, n, event)}
              = {n \in Modules(s) : s.mem[n].tictocMsg # NULL}
         /\ ~ lossy => Messages(s) = 1
         /\ Messages(s) \in Int /\ Messages(s) <= 1
<1>1. ASSUME NEW f, NEW H, s = Sim(f, links, Keeping(H))
      PROVE  /\ ~ s.thrown /\ Modules(s) = {tic, toc}
             /\ {n \in Modules(s) : s.mem[n].tictocMsg # NULL} = H \cap {tic, toc}
             /\ KeptIn(links, Keeping(H)) = H \cap {tic, toc}
             /\ {n \in Modules(s) : Scheduled(s, n, event)}
                  = {n \in {tic, toc} : \E i \in DOMAIN f : IsTimer(f[i], n, event)}
  <2>1. ~ s.thrown /\ Modules(s) = {tic, toc} /\ s.mem = Keeping(H)
    BY <1>1 DEF Sim, Modules
  <2>2. \A n \in {tic, toc} : Keeping(H)[n].tictocMsg = IF n \in H THEN tictocMsg ELSE NULL
    BY DEF Keeping, Blank
  <2>3. {n \in Modules(s) : s.mem[n].tictocMsg # NULL} = H \cap {tic, toc}
    BY <2>1, <2>2, NotTheTimer
  <2>4. KeptIn(links, Keeping(H)) = H \cap {tic, toc}
    BY <2>2, NotTheTimer DEF KeptIn
  <2>5. {n \in Modules(s) : Scheduled(s, n, event)}
          = {n \in {tic, toc} : \E i \in DOMAIN f : IsTimer(f[i], n, event)}
    BY <1>1, <2>1, ScheduledForm
  <2>6. QED
    BY <2>1, <2>3, <2>4, <2>5
<1>2. ASSUME NEW t \in Int, NEW n \in {tic, toc},
             s = Sim(<<Event(t, n, n, event)>>, links, Keeping({n}))
      PROVE  /\ Messages(s) = 1
             /\ {m \in {tic, toc} : \E i \in DOMAIN <<Event(t, n, n, event)>> :
                                      IsTimer(<<Event(t, n, n, event)>>[i], m, event)} = {n}
  <2>1. ~ Ordinary(Event(t, n, n, event).msg)
    BY EventForm DEF Ordinary
  <2>2. KeptIn(links, Keeping({n})) = {n}
    <3>1. {n} \cap {tic, toc} = {n}
      OBVIOUS
    <3>2. KeptIn(links, Keeping({n})) = {n} \cap {tic, toc}
      BY <1>1, <1>2
    <3>3. QED
      BY <3>1, <3>2
  <2>3. Cardinality(KeptIn(links, Keeping({n}))) = 1
    BY <2>2, FS_Singleton
  <2>4. Messages(s) = 1
    BY <1>2, <2>1, <2>3, MessagesForm, FewMessages
  <2>5. QED
    BY <2>4, EventForm
<1>3. ASSUME NEW t \in Int, NEW n \in {tic, toc},
             s = Sim(<<Event(t, Other(n), n, tictocMsg)>>, links, Keeping({}))
      PROVE  /\ Messages(s) = 1
             /\ {m \in {tic, toc} : \E i \in DOMAIN <<Event(t, Other(n), n, tictocMsg)>> :
                   IsTimer(<<Event(t, Other(n), n, tictocMsg)>>[i], m, event)} = {}
  <2>1. Ordinary(Event(t, Other(n), n, tictocMsg).msg)
    BY EventForm, NotTheTimer DEF Ordinary
  <2>2. KeptIn(links, Keeping({})) = {}
    BY <1>1, <1>3
  <2>3. Cardinality(KeptIn(links, Keeping({}))) = 0
    BY <2>2, FS_EmptySet
  <2>4. Messages(s) = 1
    BY <1>3, <2>1, <2>3, MessagesForm, FewMessages
  <2>5. QED
    BY <2>4, EventForm, NotTheTimer
<1>4. ASSUME s = Sim(<<>>, links, Keeping({}))
      PROVE  /\ Messages(s) = 0
             /\ {m \in {tic, toc} : \E i \in DOMAIN <<>> : IsTimer(<<>>[i], m, event)} = {}
  <2>1. KeptIn(links, Keeping({})) = {}
    BY <1>1, <1>4
  <2>2. Cardinality(KeptIn(links, Keeping({}))) = 0
    BY <2>1, FS_EmptySet
  <2>3. Messages(s) = 0
    BY <1>4, <2>2, MessagesForm, FewMessages
  <2>4. QED
    BY <2>3
<1>5. \/ \E t \in Int, n \in {tic, toc} : s = Sim(<<Event(t, n, n, event)>>, links, Keeping({n}))
      \/ \E t \in Int, n \in {tic, toc} :
           s = Sim(<<Event(t, Other(n), n, tictocMsg)>>, links, Keeping({}))
      \/ lossy /\ s = Sim(<<>>, links, Keeping({}))
  <2>1. 2 # 0
    OBVIOUS
  <2>2. QED
    BY <2>1, Zenon DEF KeepInv
<1>6. CASE \E t \in Int, n \in {tic, toc} : s = Sim(<<Event(t, n, n, event)>>, links, Keeping({n}))
  <2>1. PICK t \in Int, n \in {tic, toc} : s = Sim(<<Event(t, n, n, event)>>, links, Keeping({n}))
    BY <1>6
  <2>2. {n} \cap {tic, toc} = {n}
    BY <2>1
  <2>3. QED
    BY <1>1, <1>2, <2>1, <2>2
<1>7. CASE \E t \in Int, n \in {tic, toc} :
             s = Sim(<<Event(t, Other(n), n, tictocMsg)>>, links, Keeping({}))
  <2>1. PICK t \in Int, n \in {tic, toc} :
          s = Sim(<<Event(t, Other(n), n, tictocMsg)>>, links, Keeping({}))
    BY <1>7
  <2>2. /\ Messages(s) = 1
        /\ {m \in {tic, toc} : \E i \in DOMAIN <<Event(t, Other(n), n, tictocMsg)>> :
              IsTimer(<<Event(t, Other(n), n, tictocMsg)>>[i], m, event)} = {}
    BY <1>3, <2>1
  <2>3. /\ ~ s.thrown
        /\ {m \in Modules(s) : s.mem[m].tictocMsg # NULL} = {} \cap {tic, toc}
        /\ {m \in Modules(s) : Scheduled(s, m, event)}
              = {m \in {tic, toc} : \E i \in DOMAIN <<Event(t, Other(n), n, tictocMsg)>> :
                   IsTimer(<<Event(t, Other(n), n, tictocMsg)>>[i], m, event)}
    BY <1>1, <2>1
  <2>4. {} \cap {tic, toc} = {}
    OBVIOUS
  <2>5. QED
    BY <2>2, <2>3, <2>4
<1>8. CASE lossy /\ s = Sim(<<>>, links, Keeping({}))
  <2>1. {} \cap {tic, toc} = {}
    OBVIOUS
  <2>2. QED
    BY <1>1, <1>4, <1>8, <2>1
<1>9. QED
  BY <1>5, <1>6, <1>7, <1>8

-----------------------------------------------------------------------------
(* Stop and wait, Txc8 and Txc9: the message msg or its answer is on its   *)
(* way, or lost, and the timer runs; an answer always comes before it.     *)

Timer(t) == Event(t, tic, tic, timeoutEvent)

Sending(msg)    == <<Event(1, tic, toc, msg), Timer(10)>>
Answering(answer) == <<Event(1, toc, tic, answer), Timer(9)>>
Waiting         == <<Timer(9)>>

AwaitInv(s, links, mem, msg, answer) ==
  s \in {Sim(f, links, mem) : f \in {Sending(msg), Answering(answer), Waiting}}

LEMMA TimerForm ==
  ASSUME NEW t \in Int
  PROVE  /\ Timer(t).in = t /\ Timer(t).to = tic /\ Timer(t).msg = timeoutEvent
         /\ IsTimer(Timer(t), tic, timeoutEvent) /\ Timer(t) # Start
         /\ \A x : [Timer(t) EXCEPT !.in = x] = Timer(x)
<1>1. \A x : [Timer(t) EXCEPT !.in = x] = Timer(x)
  BY DEF Timer, Event
<1>2. QED
  BY <1>1, EventForm DEF Timer

(* A message is sent and the timer started. *)
LEMMA MessageSent ==
  ASSUME NEW links, NEW mem, NEW msg
  PROVE  scheduleAt(send(Sim(<<>>, links, mem), tic, toc, msg), tic, timeout, timeoutEvent)
           = Sim(Sending(msg), links, mem)
<1> DEFINE e == Event(1, tic, toc, msg)
<1>1. send(Sim(<<>>, links, mem), tic, toc, msg) = Sim(<<e>>, links, mem)
  BY SendOnly
<1>2. tic # toc /\ e.in = 1 /\ ~ IsTimer(e, tic, timeoutEvent)
  BY EventForm DEF tic, toc
<1> HIDE DEF e
<1>3. \A i \in DOMAIN <<e>> : ~ IsTimer(<<e>>[i], tic, timeoutEvent)
  BY <1>2
<1>4. scheduleAt(Sim(<<e>>, links, mem), tic, timeout, timeoutEvent)
        = Sim(Insert(<<e>>, Timer(10)), links, mem)
  BY <1>3, ScheduleForm DEF timeout, Timer
<1>5. Insert(<<e>>, Timer(10)) = <<e, Timer(10)>>
  <2>1. Timer(10).in = 10 /\ e.in = 1
    BY <1>2, TimerForm
  <2>2. e.in \in Int /\ Timer(10).in \in Int /\ e.in <= Timer(10).in
    BY <2>1
  <2>3. QED
    BY <2>2, InsertSecond
<1>6. QED
  BY <1>1, <1>4, <1>5 DEF e, Sending

(* The answer is sent while the timer runs. *)
LEMMA AnswerSent ==
  ASSUME NEW links, NEW mem, NEW answer
  PROVE  send(Sim(Waiting, links, mem), toc, tic, answer) = Sim(Answering(answer), links, mem)
<1> DEFINE e == Event(1, toc, tic, answer)
<1>1. e.in = 1 /\ Timer(9).in = 9
  BY EventForm, TimerForm
<1>2. Timer(9).in \in Int /\ e.in \in Int /\ Timer(9).in > e.in
  BY <1>1
<1>3. Insert(<<Timer(9)>>, e) = <<e, Timer(9)>>
  BY <1>2, InsertSecond
<1>4. QED
  BY <1>3, SendForm DEF Waiting, Answering

LEMMA TimerCancelled ==
  ASSUME NEW links, NEW mem, NEW t \in Int
  PROVE  cancelEvent(Sim(<<Timer(t)>>, links, mem), tic, timeoutEvent) = Sim(<<>>, links, mem)
<1> DEFINE f == <<Timer(t)>>
           s == Sim(f, links, mem)
           i == CHOOSE j \in DOMAIN s.fes : IsTimer(s.fes[j], tic, timeoutEvent)
           g == RemoveAt(s.fes, i)
<1>1. s.fes = f
  BY DEF Sim
<1>2. DOMAIN f = {1} /\ f[1] = Timer(t)
  OBVIOUS
<1>3. \E j \in DOMAIN s.fes : IsTimer(s.fes[j], tic, timeoutEvent)
  BY <1>1, <1>2, TimerForm
<1>4. i = 1
  BY <1>1, <1>2, <1>3
<1>5. Scheduled(s, tic, timeoutEvent)
  BY <1>1, <1>3, ScheduledForm
<1>6. g = <<>>
  <2>1. f \in Seq({Timer(t)}) /\ Len(f) = 1
    OBVIOUS
  <2> DEFINE x == SubSeq(f, 1, 0)
             y == SubSeq(f, 2, 1)
  <2>2. g = x \o y
    <3>1. g = SubSeq(f, 1, i - 1) \o SubSeq(f, i + 1, Len(f))
      BY <1>1 DEF RemoveAt
    <3> HIDE DEF i
    <3>2. i - 1 = 0 /\ i + 1 = 2 /\ Len(f) = 1
      BY <1>4, <2>1
    <3>3. QED
      BY <3>1, <3>2, Zenon
  <2> HIDE DEF f
  <2>3. x \in Seq({Timer(t)}) /\ y \in Seq({Timer(t)}) /\ Len(x) = 0 /\ Len(y) = 0
    BY <2>1
  <2> HIDE DEF x, y
  <2>4. x = <<>> /\ y = <<>>
    BY <2>3
  <2>5. QED
    BY <2>2, <2>4
<1>7. cancelEvent(s, tic, timeoutEvent)
        = IF Scheduled(s, tic, timeoutEvent) THEN [s EXCEPT !.fes = g] ELSE s
  BY DEF cancelEvent
<1> HIDE DEF g
<1>8. [s EXCEPT !.fes = g] = Sim(g, links, mem)
  BY WithEvents
<1>9. QED
  BY <1>5, <1>6, <1>7, <1>8

(* What the first event of each kind leaves behind. *)
LEMMA AwaitAdvances ==
  ASSUME NEW links, NEW mem, NEW msg
  PROVE  /\ Advanced(Sim(Sending(msg), links, mem)) = Sim(Waiting, links, mem)
         /\ Advanced(Sim(Answering(msg), links, mem)) = Sim(<<Timer(8)>>, links, mem)
         /\ Advanced(Sim(Waiting, links, mem)) = Sim(<<>>, links, mem)
         /\ Head(Sim(Sending(msg), links, mem).fes) = Event(1, tic, toc, msg)
         /\ Head(Sim(Answering(msg), links, mem).fes) = Event(1, toc, tic, msg)
         /\ Head(Sim(Waiting, links, mem).fes) = Timer(9)
<1>1. ASSUME NEW a, NEW b, Event(1, a, b, msg).in = 1, NEW t \in Int
      PROVE  Rest(<<Event(1, a, b, msg), Timer(t)>>) = <<Timer(t - 1)>>
  <2>1. Rest(<<Event(1, a, b, msg), Timer(t)>>) = <<[Timer(t) EXCEPT !.in = Timer(t).in - 1]>>
    BY <1>1, RestOfTwo
  <2>2. QED
    BY <2>1, TimerForm
<1>2. Rest(Sending(msg)) = Waiting
  <2>1. Rest(Sending(msg)) = <<Timer(10 - 1)>>
    BY <1>1, EventForm DEF Sending
  <2>2. QED
    BY <2>1 DEF Waiting
<1>3. Rest(Answering(msg)) = <<Timer(8)>>
  <2>1. Rest(Answering(msg)) = <<Timer(9 - 1)>>
    BY <1>1, EventForm DEF Answering
  <2>2. QED
    BY <2>1
<1>4. Rest(Waiting) = <<>>
  BY RestOfOne DEF Waiting
<1>5. /\ Head(Sim(Sending(msg), links, mem).fes) = Event(1, tic, toc, msg)
      /\ Head(Sim(Answering(msg), links, mem).fes) = Event(1, toc, tic, msg)
      /\ Head(Sim(Waiting, links, mem).fes) = Timer(9)
  BY DEF Sim, Sending, Answering, Waiting
<1>6. QED
  BY <1>2, <1>3, <1>4, <1>5, AdvancedForm

LEMMA AwaitKeeps ==
  ASSUME NEW links, NEW mem, NEW msg, NEW answer, NEW s, AwaitInv(s, links, mem, msg, answer),
         Ordinary(msg), Ordinary(answer), \A n \in UNION links : mem[n].tictocMsg = NULL
  PROVE  /\ ~ s.thrown
         /\ Messages(s) \in Int /\ Messages(s) <= 1
         /\ Scheduled(s, tic, timeoutEvent)
<1>1. PICK f \in {Sending(msg), Answering(answer), Waiting} : s = Sim(f, links, mem)
  BY DEF AwaitInv
<1>2. ~ s.thrown
  BY <1>1 DEF Sim
<1>3. Cardinality(KeptIn(links, mem)) = 0
  BY FewMessages
<1>4. ~ Ordinary(Timer(9).msg) /\ ~ Ordinary(Timer(10).msg)
  BY TimerForm DEF Ordinary
<1>5. UnderWayIn(Sending(msg)) = {1} /\ UnderWayIn(Answering(answer)) = {1}
  <2>1. Ordinary(Event(1, tic, toc, msg).msg) /\ Ordinary(Event(1, toc, tic, answer).msg)
    BY EventForm
  <2>2. UnderWayIn(Sending(msg)) = {1}
    BY <1>4, <2>1 DEF UnderWayIn, Sending
  <2>3. UnderWayIn(Answering(answer)) = {1}
    BY <1>4, <2>1 DEF UnderWayIn, Answering
  <2>4. QED
    BY <2>2, <2>3
<1>6. UnderWayIn(Waiting) = {}
  BY <1>4 DEF UnderWayIn, Waiting
<1>7. Cardinality(UnderWayIn(f)) \in {0, 1}
  BY <1>1, <1>5, <1>6, FS_EmptySet, FS_Singleton
<1>8. Messages(s) = Cardinality(UnderWayIn(f)) + 0
  BY <1>1, <1>3, MessagesForm
<1>9. \E i \in DOMAIN f : IsTimer(f[i], tic, timeoutEvent)
  <2>1. Sending(msg)[2] = Timer(10) /\ 2 \in DOMAIN Sending(msg)
    BY DEF Sending
  <2>2. Answering(answer)[2] = Timer(9) /\ 2 \in DOMAIN Answering(answer)
    BY DEF Answering
  <2>3. Waiting[1] = Timer(9) /\ 1 \in DOMAIN Waiting
    BY DEF Waiting
  <2>4. IsTimer(Timer(9), tic, timeoutEvent) /\ IsTimer(Timer(10), tic, timeoutEvent)
    BY TimerForm
  <2>5. QED
    BY <1>1, <2>1, <2>2, <2>3, <2>4
<1>10. Scheduled(s, tic, timeoutEvent)
  BY <1>1, <1>9, ScheduledForm
<1>11. QED
  BY <1>2, <1>7, <1>8, <1>10

(* Txc8: the message is its own answer. *)
StopInv(s, k, links) ==
  \/ k = 0 /\ s = Sim(<<>>, links, Blanks(links))
  \/ k > 0 /\ AwaitInv(s, links, Blanks(links), tictocMsg, tictocMsg)

LEMMA StopStarts ==
  ASSUME NEW links, NEW s, NEW k \in {0, 1}, StopInv(s, k, links), NEW u \in Txc8(s, k, Start)
  PROVE  StopInv(u, k + 1, links)
<1>1. CASE k = 0
  <2>1. s = Sim(<<>>, links, Blanks(links))
    BY <1>1 DEF StopInv
  <2>2. u = scheduleAt(send(s, tic, toc, tictocMsg), tic, timeout, timeoutEvent)
    BY <1>1 DEF Txc8, Tic8, tic
  <2>3. u = Sim(Sending(tictocMsg), links, Blanks(links))
    BY <2>1, <2>2, MessageSent
  <2>4. QED
    BY <1>1, <2>3 DEF StopInv, AwaitInv
<1>2. CASE k = 1
  <2>1. u = s
    BY <1>2 DEF Txc8, Toc8, tic
  <2>2. QED
    BY <1>2, <2>1 DEF StopInv
<1>3. QED
  BY <1>1, <1>2

LEMMA StopHandles ==
  ASSUME NEW links, NEW s, NEW k \in Nat, StopInv(s, k, links), s.fes # <<>>,
         NEW u \in Txc8(Advanced(s), Head(s.fes).to, Head(s.fes))
  PROVE  StopInv(u, k, links)
<1> DEFINE mem == Blanks(links)
<1>1. k > 0 /\ AwaitInv(s, links, mem, tictocMsg, tictocMsg)
  BY NoEvent DEF StopInv
<1>2. tic # toc
  BY DEF tic, toc
<1> HIDE DEF mem
<1>3. SUFFICES AwaitInv(u, links, mem, tictocMsg, tictocMsg)
  BY <1>1 DEF StopInv, mem
<1>4. CASE s = Sim(Sending(tictocMsg), links, mem)
  <2> DEFINE e == Event(1, tic, toc, tictocMsg)
             r == Sim(Waiting, links, mem)
  <2>1. Advanced(s) = r /\ Head(s.fes) = e
    BY <1>4, AwaitAdvances
  <2>2. e.to = toc /\ e.msg = tictocMsg /\ e # Start
    BY EventForm
  <2> HIDE DEF e
  <2>3. u \in {r, send(r, toc, tic, tictocMsg)}
    BY <1>2, <2>1, <2>2 DEF Txc8, Toc8
  <2>4. QED
    BY <2>3, AnswerSent DEF AwaitInv
<1>5. CASE s = Sim(Answering(tictocMsg), links, mem)
  <2> DEFINE e == Event(1, toc, tic, tictocMsg)
             r == Sim(<<Timer(8)>>, links, mem)
  <2>1. Advanced(s) = r /\ Head(s.fes) = e
    BY <1>5, AwaitAdvances
  <2>2. e.to = tic /\ e.msg = tictocMsg /\ e # Start
    BY EventForm
  <2> HIDE DEF e
  <2>3. cancelEvent(r, tic, timeoutEvent) = Sim(<<>>, links, mem)
    BY TimerCancelled
  <2>4. u = scheduleAt(send(cancelEvent(r, tic, timeoutEvent), tic, toc, tictocMsg),
                       tic, timeout, timeoutEvent)
    BY <2>1, <2>2, NotTheTimer DEF Txc8, Tic8
  <2>5. u = Sim(Sending(tictocMsg), links, mem)
    BY <2>3, <2>4, MessageSent
  <2>6. QED
    BY <2>5 DEF AwaitInv
<1>6. CASE s = Sim(Waiting, links, mem)
  <2> DEFINE r == Sim(<<>>, links, mem)
  <2>1. Advanced(s) = r /\ Head(s.fes) = Timer(9)
    BY <1>6, AwaitAdvances
  <2>2. Timer(9).to = tic /\ Timer(9).msg = timeoutEvent
    BY TimerForm
  <2>3. u = scheduleAt(send(r, tic, toc, tictocMsg), tic, timeout, timeoutEvent)
    BY <2>1, <2>2 DEF Txc8, Tic8
  <2>4. u = Sim(Sending(tictocMsg), links, mem)
    BY <2>3, MessageSent
  <2>5. QED
    BY <2>4 DEF AwaitInv
<1>7. QED
  BY <1>1, <1>4, <1>5, <1>6 DEF AwaitInv

LEMMA StopKeeps ==
  ASSUME NEW links, NEW s, NEW k \in Nat \ {0}, StopInv(s, k, links)
  PROVE  /\ ~ s.thrown
         /\ Messages(s) \in Int /\ Messages(s) <= 1
         /\ Scheduled(s, tic, timeoutEvent)
<1>1. AwaitInv(s, links, Blanks(links), tictocMsg, tictocMsg)
  BY DEF StopInv
<1>2. Ordinary(tictocMsg)
  BY NotTheTimer DEF Ordinary
<1>3. \A n \in UNION links : Blanks(links)[n].tictocMsg = NULL
  BY DEF Blanks, Blank
<1>4. QED
  BY <1>1, <1>2, <1>3, AwaitKeeps

(* Txc9: tic numbers its messages and keeps the one it waits for. *)
Numbered(q) == [name |-> "tic", seq |-> q]

Numbering(q) ==
  [n \in {tic, toc} |->
     IF n = tic THEN [counter |-> 0, tictocMsg |-> NULL, seq |-> q, message |-> Numbered(q)]
     ELSE Blank]

WaitInv(s, k, links) ==
  \/ k = 0 /\ s = Sim(<<>>, links, Blanks(links))
  \/ k > 0 /\ \E q \in Nat \ {0} : AwaitInv(s, links, Numbering(q), Numbered(q), ack)

WithNumber(r, q) == [r EXCEPT !.seq = q, !.message = Numbered(q)]

NextNumber(mem, q) == [mem EXCEPT ![tic] = WithNumber(mem[tic], q)]

LEMMA Generated ==
  ASSUME NEW f, NEW links, UNION links = {tic, toc}
  PROVE  /\ generateNewMessage(Sim(f, links, Blanks(links))) = Sim(f, links, Numbering(1))
         /\ \A q \in Nat : generateNewMessage(Sim(f, links, Numbering(q)))
                             = Sim(f, links, Numbering(q + 1))
<1>1. ASSUME NEW mem, NEW q \in Nat, mem[tic].seq = q
      PROVE  generateNewMessage(Sim(f, links, mem))
               = Sim(f, links, NextNumber(mem, q + 1))
  <2> DEFINE s == Sim(f, links, mem)
             h == [[s.mem EXCEPT ![tic] = [s.mem[tic] EXCEPT !.seq = s.mem[tic].seq + 1]] EXCEPT
                      ![tic] = [@ EXCEPT !.message = Numbered(s.mem[tic].seq + 1)]]
             g == NextNumber(mem, q + 1)
  <2>1. generateNewMessage(s) = [s EXCEPT !.mem = h]
    BY DEF generateNewMessage, Numbered
  <2>2. s.mem = mem
    BY DEF Sim
  <2>3. h = g
    BY <1>1, <2>2 DEF NextNumber, WithNumber
  <2> HIDE DEF h, g
  <2>4. [s EXCEPT !.mem = h] = Sim(f, links, h)
    BY WithMemory
  <2>5. QED
    BY <2>1, <2>3, <2>4 DEF g
<1>4. ASSUME NEW r, NEW q, NEW a, NEW b, NEW x, NEW y,
             r = [counter |-> a, tictocMsg |-> b, seq |-> x, message |-> y]
      PROVE  WithNumber(r, q) = [counter |-> a, tictocMsg |-> b, seq |-> q, message |-> Numbered(q)]
  <2>1. PICK t : t = [r EXCEPT !.seq = q]
    OBVIOUS
  <2>2. t = [counter |-> a, tictocMsg |-> b, seq |-> q, message |-> y]
    BY <1>4, <2>1
  <2>3. PICK v : v = [t EXCEPT !.message = Numbered(q)]
    OBVIOUS
  <2>4. v = [counter |-> a, tictocMsg |-> b, seq |-> q, message |-> Numbered(q)]
    BY <2>2, <2>3
  <2>5. WithNumber(r, q) = v
    BY <2>1, <2>3 DEF WithNumber
  <2>6. QED
    BY <2>4, <2>5
<1>5. ASSUME NEW mem, NEW q, NEW x, NEW y, mem = [n \in {tic, toc} |-> mem[n]],
             mem[tic] = [counter |-> 0, tictocMsg |-> NULL, seq |-> x, message |-> y],
             mem[toc] = Blank
      PROVE  NextNumber(mem, q) = Numbering(q)
  <2> DEFINE r == WithNumber(mem[tic], q)
  <2>1. r = [counter |-> 0, tictocMsg |-> NULL, seq |-> q, message |-> Numbered(q)]
    BY <1>4, <1>5
  <2>2. NextNumber(mem, q) = [mem EXCEPT ![tic] = r]
    BY DEF NextNumber
  <2> HIDE DEF r
  <2>3. tic # toc
    BY DEF tic, toc
  <2>4. [mem EXCEPT ![tic] = r] = [n \in {tic, toc} |-> IF n = tic THEN r ELSE Blank]
    BY <1>5, <2>3
  <2>5. QED
    BY <2>1, <2>2, <2>4 DEF Numbering
<1>6. generateNewMessage(Sim(f, links, Blanks(links))) = Sim(f, links, Numbering(1))
  <2> DEFINE mem == Blanks(links)
  <2>1. /\ mem = [n \in {tic, toc} |-> mem[n]] /\ mem[toc] = Blank
        /\ mem[tic] = [counter |-> 0, tictocMsg |-> NULL, seq |-> 0, message |-> NULL]
    BY DEF Blanks, Blank
  <2> HIDE DEF mem
  <2>2. NextNumber(mem, 0 + 1) = Numbering(0 + 1)
    BY <1>5, <2>1
  <2>3. mem[tic].seq = 0
    BY <2>1
  <2>4. generateNewMessage(Sim(f, links, mem)) = Sim(f, links, NextNumber(mem, 0 + 1))
    BY <1>1, <2>3
  <2>5. QED
    BY <2>2, <2>4 DEF mem
<1>7. \A q \in Nat : generateNewMessage(Sim(f, links, Numbering(q)))
                       = Sim(f, links, Numbering(q + 1))
  <2> TAKE q \in Nat
  <2> DEFINE mem == Numbering(q)
  <2>1. /\ mem = [n \in {tic, toc} |-> mem[n]] /\ mem[toc] = Blank
        /\ mem[tic] = [counter |-> 0, tictocMsg |-> NULL, seq |-> q, message |-> Numbered(q)]
    BY DEF Numbering, tic, toc
  <2> HIDE DEF mem
  <2>2. NextNumber(mem, q + 1) = Numbering(q + 1)
    BY <1>5, <2>1
  <2>3. mem[tic].seq = q
    BY <2>1
  <2>4. generateNewMessage(Sim(f, links, mem)) = Sim(f, links, NextNumber(mem, q + 1))
    BY <1>1, <2>3
  <2>5. QED
    BY <2>2, <2>4 DEF mem
<1>8. QED
  BY <1>6, <1>7

LEMMA CopySent ==
  ASSUME NEW links, NEW q \in Nat
  PROVE  sendCopyOf(Sim(<<>>, links, Numbering(q)))
           = Sim(Sending(Numbered(q)), links, Numbering(q))
<1>1. Sim(<<>>, links, Numbering(q)).mem[tic].message = Numbered(q)
  BY DEF Sim, Numbering
<1>2. QED
  BY <1>1, MessageSent DEF sendCopyOf

LEMMA NotTheTimer9 ==
  \A q : /\ Numbered(q) # timeoutEvent /\ ack # timeoutEvent
        /\ Ordinary(Numbered(q)) /\ Ordinary(ack)
<1>1. \A q : Numbered(q).name = "tic" /\ ack.name = "ack" /\ timeoutEvent.name = "timeoutEvent"
  BY DEF Numbered, ack, timeoutEvent
<1>2. QED
  BY <1>1, NamedOtherwise

LEMMA WaitStarts ==
  ASSUME NEW links, UNION links = {tic, toc}, NEW s, NEW k \in {0, 1}, WaitInv(s, k, links),
         NEW u \in Txc9(s, k, Start)
  PROVE  WaitInv(u, k + 1, links)
<1>1. CASE k = 0
  <2>1. s = Sim(<<>>, links, Blanks(links))
    BY <1>1 DEF WaitInv
  <2>2. u = sendCopyOf(generateNewMessage(s))
    BY <1>1 DEF Txc9, Tic9, tic
  <2>3. u = Sim(Sending(Numbered(1)), links, Numbering(1))
    BY <2>1, <2>2, Generated, CopySent
  <2>4. AwaitInv(u, links, Numbering(1), Numbered(1), ack) /\ 1 \in Nat \ {0} /\ k + 1 > 0
    BY <1>1, <2>3 DEF AwaitInv
  <2>5. QED
    BY <2>4 DEF WaitInv
<1>2. CASE k = 1
  <2>1. u = s
    BY <1>2 DEF Txc9, Toc9, tic
  <2>2. k > 0 /\ k # 0 /\ k + 1 > 0
    BY <1>2
  <2>3. QED
    BY <2>1, <2>2 DEF WaitInv
<1>3. QED
  BY <1>1, <1>2

(* One event of stop and wait: either nothing is heard or answered, or toc *)
(* hears the message, or its answer comes.                                 *)
LEMMA WaitHandles ==
  ASSUME NEW links, UNION links = {tic, toc}, NEW s, NEW q \in Nat \ {0},
         AwaitInv(s, links, Numbering(q), Numbered(q), ack),
         NEW u \in Txc9(Advanced(s), Head(s.fes).to, Head(s.fes))
  PROVE  \/ /\ s = Sim(Sending(Numbered(q)), links, Numbering(q))
            /\ u = Sim(Waiting, links, Numbering(q))
         \/ /\ s = Sim(Sending(Numbered(q)), links, Numbering(q))
            /\ u = Sim(Answering(ack), links, Numbering(q))
         \/ /\ s = Sim(Answering(ack), links, Numbering(q))
            /\ u = Sim(Sending(Numbered(q + 1)), links, Numbering(q + 1))
         \/ /\ s = Sim(Waiting, links, Numbering(q))
            /\ u = Sim(Sending(Numbered(q)), links, Numbering(q))
<1> DEFINE mem == Numbering(q)
           msg == Numbered(q)
<1>1. tic # toc
  BY DEF tic, toc
<1> HIDE DEF mem, msg
<1>2. CASE s = Sim(Sending(msg), links, mem)
  <2> DEFINE e == Event(1, tic, toc, msg)
             r == Sim(Waiting, links, mem)
  <2>1. Advanced(s) = r /\ Head(s.fes) = e
    BY <1>2, AwaitAdvances
  <2>2. e.to = toc /\ e.msg = msg /\ e # Start
    BY EventForm
  <2> HIDE DEF e
  <2>3. u \in {r, send(r, toc, tic, ack)}
    BY <1>1, <2>1, <2>2 DEF Txc9, Toc9
  <2>4. u = r \/ u = Sim(Answering(ack), links, mem)
    BY <2>3, AnswerSent
  <2>5. QED
    BY <1>2, <2>4 DEF mem, msg
<1>3. CASE s = Sim(Answering(ack), links, mem)
  <2> DEFINE e == Event(1, toc, tic, ack)
             r == Sim(<<Timer(8)>>, links, mem)
  <2>1. Advanced(s) = r /\ Head(s.fes) = e
    BY <1>3, AwaitAdvances
  <2>2. e.to = tic /\ e.msg = ack /\ e # Start
    BY EventForm
  <2> HIDE DEF e
  <2>3. cancelEvent(r, tic, timeoutEvent) = Sim(<<>>, links, mem)
    BY TimerCancelled
  <2>4. u = sendCopyOf(generateNewMessage(cancelEvent(r, tic, timeoutEvent)))
    BY <2>1, <2>2, NotTheTimer9 DEF Txc9, Tic9
  <2>5. generateNewMessage(Sim(<<>>, links, mem)) = Sim(<<>>, links, Numbering(q + 1))
    BY Generated DEF mem
  <2>6. u = Sim(Sending(Numbered(q + 1)), links, Numbering(q + 1))
    BY <2>3, <2>4, <2>5, CopySent
  <2>7. QED
    BY <1>3, <2>6 DEF mem
<1>4. CASE s = Sim(Waiting, links, mem)
  <2> DEFINE r == Sim(<<>>, links, mem)
  <2>1. Advanced(s) = r /\ Head(s.fes) = Timer(9)
    BY <1>4, AwaitAdvances
  <2>2. Timer(9).to = tic /\ Timer(9).msg = timeoutEvent /\ Timer(9) # Start
    BY TimerForm
  <2>3. u = sendCopyOf(r)
    BY <2>1, <2>2, Zenon DEF Txc9, Tic9
  <2>4. u = Sim(Sending(msg), links, mem)
    BY <2>3, CopySent DEF mem, msg
  <2>5. QED
    BY <1>4, <2>4 DEF mem, msg
<1>5. QED
  BY <1>2, <1>3, <1>4 DEF AwaitInv, mem, msg

LEMMA WaitGoesOn ==
  ASSUME NEW links, UNION links = {tic, toc}, NEW s, NEW k \in Nat, WaitInv(s, k, links),
         s.fes # <<>>, NEW u \in Txc9(Advanced(s), Head(s.fes).to, Head(s.fes))
  PROVE  WaitInv(u, k, links)
<1>1. k > 0 /\ \E q \in Nat \ {0} : AwaitInv(s, links, Numbering(q), Numbered(q), ack)
  BY NoEvent DEF WaitInv
<1>2. PICK q \in Nat \ {0} : AwaitInv(s, links, Numbering(q), Numbered(q), ack)
  BY <1>1
<1>3. \/ u = Sim(Waiting, links, Numbering(q))
      \/ u = Sim(Answering(ack), links, Numbering(q))
      \/ u = Sim(Sending(Numbered(q + 1)), links, Numbering(q + 1))
      \/ u = Sim(Sending(Numbered(q)), links, Numbering(q))
  BY <1>2, WaitHandles
<1>4. q + 1 \in Nat \ {0} /\ q \in Nat \ {0}
  BY <1>2
<1>5. \/ AwaitInv(u, links, Numbering(q), Numbered(q), ack)
      \/ AwaitInv(u, links, Numbering(q + 1), Numbered(q + 1), ack)
  BY <1>3 DEF AwaitInv
<1>6. QED
  BY <1>1, <1>4, <1>5 DEF WaitInv

LEMMA WaitKeeps ==
  ASSUME NEW links, UNION links = {tic, toc}, NEW s, NEW k \in Nat \ {0}, WaitInv(s, k, links)
  PROVE  /\ ~ s.thrown
         /\ Messages(s) \in Int /\ Messages(s) <= 1
         /\ Scheduled(s, tic, timeoutEvent)
<1>1. PICK q \in Nat \ {0} : AwaitInv(s, links, Numbering(q), Numbered(q), ack)
  BY DEF WaitInv
<1>2. \A n \in UNION links : Numbering(q)[n].tictocMsg = NULL
  BY DEF Numbering, Blank
<1>3. QED
  BY <1>1, <1>2, AwaitKeeps, NotTheTimer9

-----------------------------------------------------------------------------
(* Txc10, Txc11 and Txc12 of both copies: one message, until module 3 has  *)
(* it.                                                                     *)

Near(links, n) == {m \in UNION links : {n, m} \in links /\ m # n}

LEMMA NearForm ==
  ASSUME NEW f, NEW links, NEW mem, NEW n
  PROVE  /\ Neighbours(Sim(f, links, mem), n) = Near(links, n)
         /\ Modules(Sim(f, links, mem)) = UNION links
<1>1. Sim(f, links, mem).links = links
  BY DEF Sim
<1>2. QED
  BY <1>1 DEF Neighbours, Near, Modules

LEMMA TossedForm ==
  ASSUME NEW s, NEW n, NEW came, NEW msg
  PROVE  /\ Tossed(s, n, msg) \subseteq {send(s, n, to, msg) : to \in Neighbours(s, n)}
         /\ TossedOn(s, n, came, msg) \subseteq {send(s, n, to, msg) : to \in Neighbours(s, n)}
BY DEF Tossed, TossedOn

TossInv(s, k, links) ==
  \/ s = Sim(<<>>, links, Blanks(links))
  \/ k > 0 /\ \E t, a, b : s = Sim(<<Event(t, a, b, ticMessage)>>, links, Blanks(links))

LEMMA TossStarts ==
  ASSUME NEW links, NEW s, NEW k \in Nat, TossInv(s, k, links), NEW tossed,
         NEW u \in TossTo3(s, k, Start, tossed)
  PROVE  TossInv(u, k + 1, links)
<1>1. CASE k = 0
  <2>1. s = Sim(<<>>, links, Blanks(links))
    BY <1>1 DEF TossInv
  <2>2. u = scheduleAt(s, k, 0, ticMessage)
    BY <1>1 DEF TossTo3
  <2>3. u = Sim(<<Event(0, k, k, ticMessage)>>, links, Blanks(links))
    BY <2>1, <2>2, ScheduleOnly
  <2>4. QED
    BY <2>3 DEF TossInv
<1>2. CASE k # 0
  <2>1. u = s
    BY <1>2 DEF TossTo3
  <2>2. QED
    BY <2>1 DEF TossInv
<1>3. QED
  BY <1>1, <1>2

LEMMA TossHandles ==
  ASSUME NEW links, NEW s, NEW k \in Nat, TossInv(s, k, links), s.fes # <<>>, NEW tossed,
         tossed \subseteq {send(Advanced(s), Head(s.fes).to, to, Head(s.fes).msg) :
                             to \in Neighbours(Advanced(s), Head(s.fes).to)},
         NEW u \in TossTo3(Advanced(s), Head(s.fes).to, Head(s.fes), tossed)
  PROVE  TossInv(u, k, links)
<1>1. k > 0 /\ \E t, a, b : s = Sim(<<Event(t, a, b, ticMessage)>>, links, Blanks(links))
  BY NoEvent DEF TossInv
<1>2. PICK t, a, b : s = Sim(<<Event(t, a, b, ticMessage)>>, links, Blanks(links))
  BY <1>1
<1> DEFINE e == Event(t, a, b, ticMessage)
           r == Sim(<<>>, links, Blanks(links))
<1>3. Head(s.fes) = e /\ Advanced(s) = r
  BY <1>2, OneHandled
<1>4. e.to = b /\ e.msg = ticMessage /\ e # Start
  BY EventForm
<1> HIDE DEF e
<1>5. u = r \/ \E to : u = send(r, b, to, ticMessage)
  BY <1>3, <1>4 DEF TossTo3
<1>6. u = r \/ \E to : u = Sim(<<Event(1, b, to, ticMessage)>>, links, Blanks(links))
  BY <1>5, SendOnly
<1>7. QED
  BY <1>1, <1>6 DEF TossInv

LEMMA TossKeeps ==
  ASSUME NEW links, NEW s, NEW k, TossInv(s, k, links)
  PROVE  ~ s.thrown /\ Messages(s) \in Int /\ Messages(s) <= 1
<1>1. CASE s = Sim(<<>>, links, Blanks(links))
  <2>1. Messages(s) = 0 + 0
    BY <1>1, MessagesForm, FewMessages, BlanksKeepNothing
  <2>2. ~ s.thrown
    BY <1>1 DEF Sim
  <2>3. QED
    BY <2>1, <2>2
<1>2. CASE \E t, a, b : s = Sim(<<Event(t, a, b, ticMessage)>>, links, Blanks(links))
  <2>1. PICK t, a, b : s = Sim(<<Event(t, a, b, ticMessage)>>, links, Blanks(links))
    BY <1>2
  <2>2. Ordinary(Event(t, a, b, ticMessage).msg)
    BY EventForm, NamedOtherwise DEF ticMessage
  <2>3. Messages(s) = 1 + 0
    BY <2>1, <2>2, MessagesForm, FewMessages, BlanksKeepNothing
  <2>4. ~ s.thrown
    BY <2>1 DEF Sim
  <2>5. QED
    BY <2>3, <2>4
<1>3. QED
  BY <1>1, <1>2 DEF TossInv

-----------------------------------------------------------------------------
(* Distances in a network without circles.                                 *)

(* A link leads one nearer to a or one farther, and one link nearer. *)
OneNearer(links, a, b) ==
  /\ Distance(links, a, b) \in Nat
  /\ (Distance(links, a, b) = 0 <=> a = b)
  /\ \A m \in Near(links, b) : \/ Distance(links, a, m) = Distance(links, a, b) + 1
                               \/ Distance(links, a, m) = Distance(links, a, b) - 1
  /\ a # b => \E m \in Near(links, b) : \A o \in Near(links, b) :
                (Distance(links, a, o) < Distance(links, a, b) <=> o = m)

LEMMA TreeLinks ==
  ASSUME NEW links, IsTree(links), NEW a \in UNION links, NEW b \in UNION links
  PROVE  OneNearer(links, a, b)
BY DEF IsTree, Near, OneNearer

(* A nonempty set of naturals has a least element. *)
LEMMA LeastElement ==
  ASSUME NEW T, T \subseteq Nat, T # {}
  PROVE  \E i \in T : \A j \in T : i <= j
<1> DEFINE R == OpToRel(<, Nat)
<1>1. IsWellFoundedOn(R, Nat)
  BY NatLessThanWellFounded
<1>2. \E i \in T : \A j \in T : <<j, i>> \notin R
  <2> HIDE DEF R
  <2> QED
    BY <1>1, WFMin
<1>3. \A i, j \in Nat : j < i => <<j, i>> \in R
  BY DEF OpToRel
<1> HIDE DEF R
<1>4. \A i, j \in T : <<j, i>> \notin R => i <= j
  BY <1>3
<1> QED
  BY <1>2, <1>4, Zenon

(* A detour is not shorter. *)
LEMMA Detour ==
  ASSUME NEW links, IsTree(links), NEW a \in UNION links, NEW d \in UNION links,
         NEW b \in UNION links
  PROVE  Distance(links, a, b) <= Distance(links, a, d) + Distance(links, d, b)
<1> DEFINE D(x, y) == Distance(links, x, y)
           Bad(k) == \E c \in UNION links : D(d, c) = k /\ D(a, c) > D(a, d) + D(d, c)
           S == {k \in Nat : Bad(k)}
<1>1. \A x, y \in UNION links : D(x, y) \in Nat
  BY TreeLinks DEF OneNearer
<1>2. SUFFICES ASSUME S # {} PROVE FALSE
  BY <1>1
<1>3. PICK k \in S : \A j \in Nat : j < k => j \notin S
  <2>1. \E k \in S : \A j \in S : k <= j
    BY <1>2, S \subseteq Nat, LeastElement
  <2>2. QED
    BY <2>1
<1>4. PICK c \in UNION links : D(d, c) = k /\ D(a, c) > D(a, d) + D(d, c)
  BY <1>3
<1>5. c # d
  <2>1. D(d, d) = 0
    <3>1. OneNearer(links, d, d)
      BY TreeLinks
    <3>2. QED
      BY <3>1 DEF OneNearer
  <2>2. QED
    BY <1>1, <1>4, <2>1
<1>6. PICK m \in Near(links, c) : D(d, m) < D(d, c)
  BY <1>4, <1>5, TreeLinks DEF OneNearer
<1>7. m \in UNION links
  BY <1>6 DEF Near
<1>8. D(d, m) = D(d, c) - 1 /\ (D(a, m) = D(a, c) - 1 \/ D(a, m) = D(a, c) + 1)
  <2>1. \A n \in Near(links, c) :
          /\ D(d, n) = D(d, c) + 1 \/ D(d, n) = D(d, c) - 1
          /\ D(a, n) = D(a, c) + 1 \/ D(a, n) = D(a, c) - 1
    <3>1. c \in UNION links
      BY <1>4
    <3>2. OneNearer(links, d, c) /\ OneNearer(links, a, c)
      BY <3>1, TreeLinks
    <3>3. QED
      BY <3>2 DEF OneNearer
  <2>2. D(d, m) \in Nat /\ D(d, c) \in Nat
    BY <1>1, <1>4, <1>7
  <2>3. QED
    BY <1>6, <2>1, <2>2
<1>9. D(a, m) > D(a, d) + D(d, m)
  BY <1>1, <1>4, <1>7, <1>8
<1>10. D(d, m) \in S /\ D(d, m) < k
  BY <1>1, <1>4, <1>7, <1>8, <1>9
<1>11. QED
  BY <1>1, <1>3, <1>7, <1>10

(* Who leaves b for its neighbour o, and did not come to b past d, has not *)
(* passed d unless b is d.                                                 *)
LEMMA NotPassed ==
  ASSUME NEW links, IsTree(links), NEW a \in UNION links, NEW d \in UNION links,
         NEW o \in UNION links, NEW b \in Near(links, o), b # d,
         Distance(links, a, o) # Distance(links, a, d) + Distance(links, d, o)
  PROVE  Distance(links, a, b) # Distance(links, a, d) + Distance(links, d, b)
<1> DEFINE D(x, y) == Distance(links, x, y)
<1>1. b \in UNION links /\ o \in Near(links, b)
  <2>1. b \in UNION links /\ {o, b} \in links /\ b # o /\ {o, b} = {b, o}
    BY DEF Near
  <2>2. QED
    BY <2>1 DEF Near
<1>2. \A x, y \in UNION links : D(x, y) \in Nat
  BY TreeLinks DEF OneNearer
<1>3. SUFFICES ASSUME D(a, b) = D(a, d) + D(d, b) PROVE FALSE
  OBVIOUS
<1>4. /\ D(a, b) \in Nat /\ D(a, o) \in Nat /\ D(a, d) \in Nat
      /\ D(d, b) \in Nat /\ D(d, o) \in Nat
  BY <1>1, <1>2
<1>5. /\ D(a, o) = D(a, b) + 1 \/ D(a, o) = D(a, b) - 1
      /\ D(d, o) = D(d, b) + 1 \/ D(d, o) = D(d, b) - 1
  <2>1. OneNearer(links, a, b) /\ OneNearer(links, d, b)
    BY <1>1, TreeLinks
  <2>2. QED
    BY <1>1, <2>1 DEF OneNearer
<1>6. D(a, o) <= D(a, d) + D(d, o)
  BY Detour
<1>7. D(a, o) = D(a, b) - 1 /\ D(d, o) = D(d, b) + 1
  BY <1>3, <1>4, <1>5, <1>6
<1>8. PICK m \in Near(links, b) : D(d, m) < D(d, b)
  BY <1>1, TreeLinks DEF OneNearer
<1>9. m \in UNION links
  BY <1>8 DEF Near
<1>10. D(a, m) <= D(a, d) + D(d, m)
  BY <1>9, Detour
<1>11. D(a, m) < D(a, b) /\ D(a, o) < D(a, b)
  BY <1>2, <1>3, <1>4, <1>7, <1>8, <1>9, <1>10
<1>12. a # b
  <2>1. D(b, b) = 0
    <3>1. OneNearer(links, b, b)
      BY <1>1, TreeLinks
    <3>2. QED
      BY <3>1 DEF OneNearer
  <2>2. QED
    BY <1>4, <1>7, <2>1
<1>13. m = o
  BY <1>1, <1>8, <1>11, <1>12, TreeLinks DEF OneNearer
<1>14. QED
  BY <1>4, <1>7, <1>8, <1>13

-----------------------------------------------------------------------------
(* Messages with a destination.                                            *)

HopMsg(links) ==
  [name : {"tic"}, source : UNION links, destination : UNION links, hopCount : Nat]

HopEvent(links) == [in : Int, from : UNION links, to : UNION links, msg : HopMsg(links)]

(* An event with a message that counted its hops right, but for uncounted *)
(* ones: it waits at its source, or it has come over a link, some number   *)
(* of detours included, and not past its destination.                      *)
OnItsWay(links, uncounted, e) ==
  LET m == e.msg
      D(a, b) == Distance(links, a, b)
  IN /\ e.from \in UNION links /\ e.to \in UNION links /\ m \in HopMsg(links)
     /\ m.source # m.destination
     /\ \/ e.from = e.to /\ e.from = m.source /\ m.hopCount = 0
        \/ /\ e.to \in Near(links, e.from)
           /\ \E j \in Nat : m.hopCount + uncounted = D(m.source, e.to) + 2 * j
     /\ D(m.source, e.from) # D(m.source, m.destination) + D(m.destination, e.from)

NewMsg(n, d) == [name |-> "tic", source |-> n, destination |-> d, hopCount |-> 0]

NewMsgs(links, n) == {NewMsg(n, d) : d \in (UNION links) \ {n}}

LEMMA GenerateForm ==
  ASSUME NEW f, NEW links, NEW mem, NEW n
  PROVE  generateMessage(Sim(f, links, mem), n) = NewMsgs(links, n)
<1>1. Modules(Sim(f, links, mem)) = UNION links
  BY NearForm
<1> DEFINE A == Modules(Sim(f, links, mem)) \ {n}
           B == (UNION links) \ {n}
<1>2. A = B
  BY <1>1
<1>3. generateMessage(Sim(f, links, mem), n) = {NewMsg(n, d) : d \in A}
  BY DEF generateMessage, NewMsg
<1>4. NewMsgs(links, n) = {NewMsg(n, d) : d \in B}
  BY DEF NewMsgs
<1> HIDE DEF A, B
<1>5. QED
  BY <1>2, <1>3, <1>4

LEMMA HopMsgForm ==
  ASSUME NEW links, NEW m \in HopMsg(links)
  PROVE  /\ m.source \in UNION links /\ m.destination \in UNION links /\ m.hopCount \in Nat
         /\ Hopped(m) \in HopMsg(links)
         /\ Hopped(m).source = m.source /\ Hopped(m).destination = m.destination
         /\ Hopped(m).hopCount = m.hopCount + 1
         /\ Ordinary(m) /\ m # event
<1>1. m.name = "tic"
  BY DEF HopMsg
<1>2. Ordinary(m)
  BY <1>1, NamedOtherwise
<1>3. m # event
  BY <1>2 DEF Ordinary
<1>4. QED
  BY <1>2, <1>3 DEF HopMsg, Hopped

LEMMA NewMsgForm ==
  ASSUME NEW links, NEW n \in UNION links, NEW m \in NewMsgs(links, n)
  PROVE  m \in HopMsg(links) /\ m.source = n /\ m.destination # n /\ m.hopCount = 0
<1>1. PICK d \in (UNION links) \ {n} : m = NewMsg(n, d)
  BY DEF NewMsgs
<1>2. d \in UNION links /\ d # n
  BY <1>1
<1>3. NewMsg(n, d) \in HopMsg(links)
  BY <1>2 DEF NewMsg, HopMsg
<1>4. m.source = n /\ m.destination = d /\ m.hopCount = 0
  BY <1>1 DEF NewMsg
<1>5. QED
  BY <1>1, <1>2, <1>3, <1>4

LEMMA AtHome ==
  ASSUME NEW links, IsTree(links), NEW a \in UNION links, NEW d \in UNION links, a # d
  PROVE  /\ Distance(links, a, a) = 0
         /\ Distance(links, a, a) # Distance(links, a, d) + Distance(links, d, a)
<1>1. OneNearer(links, a, a) /\ OneNearer(links, a, d) /\ OneNearer(links, d, a)
  BY TreeLinks
<1>2. QED
  BY <1>1 DEF OneNearer

(* A new message waits at its source. *)
LEMMA JourneyWaits ==
  ASSUME NEW links, IsTree(links), NEW n \in UNION links, NEW m \in NewMsgs(links, n),
         NEW uncounted \in Nat, NEW t
  PROVE  OnItsWay(links, uncounted, Event(t, n, n, m))
<1>1. m \in HopMsg(links) /\ m.source = n /\ m.destination # n /\ m.hopCount = 0
  BY NewMsgForm
<1>2. m.destination \in UNION links
  BY <1>1, HopMsgForm
<1>3. Distance(links, n, n) # Distance(links, n, m.destination) + Distance(links, m.destination, n)
  BY <1>1, <1>2, AtHome
<1>4. /\ Event(t, n, n, m).from = n /\ Event(t, n, n, m).to = n
      /\ Event(t, n, n, m).msg = m
  BY EventForm
<1>5. QED
  BY <1>1, <1>3, <1>4 DEF OnItsWay

(* It leaves its source over a first link, counted or not. *)
LEMMA JourneyBegins ==
  ASSUME NEW links, IsTree(links), NEW n \in UNION links, NEW o \in Near(links, n),
         NEW m \in HopMsg(links), m.source = n, m.destination # n,
         NEW uncounted \in Nat, m.hopCount + uncounted = 1, NEW t
  PROVE  OnItsWay(links, uncounted, Event(t, n, o, m))
<1>1. m.destination \in UNION links /\ o \in UNION links
  BY HopMsgForm DEF Near
<1>2. /\ Distance(links, n, n) = 0
      /\ Distance(links, n, n) # Distance(links, n, m.destination) + Distance(links, m.destination, n)
  BY <1>1, AtHome
<1>3. Distance(links, n, o) = 1
  <2>1. OneNearer(links, n, n) /\ OneNearer(links, n, o)
    BY <1>1, TreeLinks
  <2>2. QED
    BY <1>2, <2>1 DEF OneNearer
<1>4. \E j \in Nat : m.hopCount + uncounted = Distance(links, n, o) + 2 * j
  <2>1. m.hopCount + uncounted = Distance(links, n, o) + 2 * 0
    BY <1>3
  <2>2. QED
    BY <2>1
<1>5. /\ Event(t, n, o, m).from = n /\ Event(t, n, o, m).to = o
      /\ Event(t, n, o, m).msg = m
  BY EventForm
<1>6. QED
  BY <1>1, <1>2, <1>4, <1>5 DEF OnItsWay

(* It goes on over a link, until it is where it is meant for. *)
LEMMA JourneyGoesOn ==
  ASSUME NEW links, IsTree(links), NEW uncounted \in Nat, NEW e, OnItsWay(links, uncounted, e),
         e.to \in Near(links, e.from), e.msg.destination # e.to,
         NEW o \in Near(links, e.to), NEW t
  PROVE  OnItsWay(links, uncounted, Event(t, e.to, o, Hopped(e.msg)))
<1> DEFINE m == e.msg
           n == e.to
           h == Hopped(m)
           D(a, b) == Distance(links, a, b)
<1>1. /\ e.from \in UNION links /\ n \in UNION links /\ m \in HopMsg(links)
      /\ m.source # m.destination
      /\ D(m.source, e.from) # D(m.source, m.destination) + D(m.destination, e.from)
  BY DEF OnItsWay
<1>2. /\ m.source \in UNION links /\ m.destination \in UNION links /\ m.hopCount \in Nat
      /\ h \in HopMsg(links)
      /\ h.source = m.source /\ h.destination = m.destination
      /\ h.hopCount = m.hopCount + 1
  BY <1>1, HopMsgForm
<1>3. D(m.source, n) # D(m.source, m.destination) + D(m.destination, n)
  BY <1>1, <1>2, NotPassed
<1>4. e.to # e.from
  BY DEF Near
<1>5. PICK j \in Nat : m.hopCount + uncounted = D(m.source, n) + 2 * j
  BY <1>4 DEF OnItsWay
<1>6. D(m.source, o) \in Nat /\ D(m.source, n) \in Nat
      /\ (D(m.source, o) = D(m.source, n) + 1 \/ D(m.source, o) = D(m.source, n) - 1)
      /\ o \in UNION links
  <2>1. o \in UNION links
    BY DEF Near
  <2>2. OneNearer(links, m.source, n) /\ OneNearer(links, m.source, o)
    BY <1>1, <1>2, <2>1, TreeLinks
  <2>3. QED
    BY <2>1, <2>2 DEF OneNearer
<1> HIDE DEF h, m, n, D
<1>7. \E i \in Nat : h.hopCount + uncounted = D(m.source, o) + 2 * i
  <2>1. CASE D(m.source, o) = D(m.source, n) + 1
    <3>1. h.hopCount + uncounted = D(m.source, o) + 2 * j
      BY <1>2, <1>5, <1>6, <2>1
    <3>2. QED
      BY <1>5, <3>1
  <2>2. CASE D(m.source, o) = D(m.source, n) - 1
    <3>1. h.hopCount + uncounted = D(m.source, o) + 2 * (j + 1)
      BY <1>2, <1>5, <1>6, <2>2
    <3>2. j + 1 \in Nat
      BY <1>5
    <3>3. QED
      BY <3>1, <3>2
  <2>3. QED
    BY <1>6, <2>1, <2>2
<1>8. /\ Event(t, n, o, h).from = n /\ Event(t, n, o, h).to = o
      /\ Event(t, n, o, h).msg = h
  BY EventForm
<1>9. o \in Near(links, n)
  BY DEF n
<1>10. OnItsWay(links, uncounted, Event(t, n, o, h))
  BY <1>1, <1>2, <1>3, <1>6, <1>7, <1>8, <1>9 DEF OnItsWay, D
<1>11. QED
  BY <1>10 DEF h, m, n

(* Time passing changes nothing about it. *)
LEMMA JourneyInTime ==
  ASSUME NEW links, NEW uncounted, NEW e, OnItsWay(links, uncounted, e), NEW g,
         g.from = e.from, g.to = e.to, g.msg = e.msg
  PROVE  OnItsWay(links, uncounted, g)
BY DEF OnItsWay

(* What HopsAreCounted says of an event. *)
LEMMA JourneyCounted ==
  ASSUME NEW links, IsTree(links), NEW uncounted \in Nat, NEW e, OnItsWay(links, uncounted, e),
         NEW crossed, crossed = e.msg.hopCount + IF e.from = e.to THEN 0 ELSE uncounted
  PROVE  LET more == crossed - Distance(links, e.msg.source, e.to)
         IN /\ more \in Nat /\ more % 2 = 0
            /\ Distance(links, e.msg.source, e.from)
                 # Distance(links, e.msg.source, e.msg.destination)
                     + Distance(links, e.msg.destination, e.from)
<1> DEFINE m == e.msg
           more == crossed - Distance(links, m.source, e.to)
<1>1. m \in HopMsg(links) /\ e.to \in UNION links /\ m.source \in UNION links
  BY HopMsgForm DEF OnItsWay
<1>2. Distance(links, m.source, e.to) \in Nat
  <2>1. OneNearer(links, m.source, e.to)
    BY <1>1, TreeLinks
  <2>2. QED
    BY <2>1 DEF OneNearer
<1>3. CASE e.from = e.to
  <2>1. e.to = m.source /\ m.hopCount = 0
    BY <1>3 DEF OnItsWay, Near
  <2>2. Distance(links, m.source, m.source) = 0
    <3>1. OneNearer(links, m.source, m.source)
      BY <1>1, TreeLinks
    <3>2. QED
      BY <3>1 DEF OneNearer
  <2>3. more = 0
    BY <1>3, <2>1, <2>2
  <2>4. QED
    BY <2>3 DEF OnItsWay
<1>4. CASE e.from # e.to
  <2>1. PICK j \in Nat : m.hopCount + uncounted = Distance(links, m.source, e.to) + 2 * j
    BY <1>4 DEF OnItsWay
  <2>2. more = 2 * j
    BY <1>2, <1>4, <2>1
  <2>3. more \in Nat /\ more % 2 = 0
    BY <2>1, <2>2
  <2>4. QED
    BY <2>3 DEF OnItsWay
<1>5. QED
  BY <1>3, <1>4

-----------------------------------------------------------------------------
(* Txc13 to Txc16 but for one of the terminal copies: as many messages as  *)
(* were booted are tossed about.                                           *)

(* Booted messages in the modules initialized, until all are. *)
HopsOf(f, k, links, booted) ==
  /\ f \in Seq(HopEvent(links))
  /\ Len(f) = booted
  /\ \A i \in DOMAIN f : OnItsWay(links, 0, f[i])
  /\ k < Cardinality(UNION links) => \A i \in DOMAIN f : f[i].from = f[i].to /\ f[i].to < k

HopsInv(s, k, links, booted) ==
  \E f : s = Sim(f, links, Blanks(links)) /\ HopsOf(f, k, links, booted)

(* The modules are 0, 1, and so on. *)
Counted(links) ==
  /\ Cardinality(UNION links) \in Nat \ {0, 1}
  /\ UNION links = 0 .. Cardinality(UNION links) - 1

(* What was inserted is the event or was there before. *)
LEMMA InsertedElements ==
  ASSUME NEW S, NEW f \in Seq(S), NEW e, NEW p, NEW g, Inserted(f, e, p, g), g \in Seq(S)
  PROVE  /\ \A i \in DOMAIN g : g[i] = e \/ \E j \in DOMAIN f : g[i] = f[j]
         /\ \E i \in DOMAIN g : g[i] = e
         /\ \A j \in DOMAIN f : \E i \in DOMAIN g : g[i] = f[j]
<1>1. /\ p \in 1 .. Len(f) + 1 /\ Len(g) = Len(f) + 1 /\ Len(f) \in Nat
      /\ \A i \in 1 .. Len(f) + 1 :
           g[i] = IF i < p THEN f[i] ELSE IF i = p THEN e ELSE f[i - 1]
  BY DEF Inserted
<1>2. DOMAIN f = 1 .. Len(f) /\ DOMAIN g = 1 .. Len(f) + 1
  BY <1>1
<1>3. ASSUME NEW i \in DOMAIN g
      PROVE  g[i] = e \/ \E j \in DOMAIN f : g[i] = f[j]
  <2>1. CASE i < p
    <3>1. i \in DOMAIN f /\ g[i] = f[i]
      BY <1>1, <1>2, <2>1
    <3>2. QED
      BY <3>1
  <2>2. CASE i = p
    BY <1>1, <1>2, <2>2
  <2>3. CASE i > p
    <3>1. i - 1 \in DOMAIN f /\ g[i] = f[i - 1]
      BY <1>1, <1>2, <2>3
    <3>2. QED
      BY <3>1
  <2>4. QED
    BY <1>1, <1>2, <2>1, <2>2, <2>3
<1>4. p \in DOMAIN g /\ g[p] = e
  BY <1>1, <1>2
<1>5. ASSUME NEW j \in DOMAIN f
      PROVE  \E i \in DOMAIN g : g[i] = f[j]
  <2>1. CASE j < p
    <3>1. j \in DOMAIN g /\ g[j] = f[j]
      BY <1>1, <1>2, <2>1
    <3>2. QED
      BY <3>1
  <2>2. CASE j >= p
    <3>1. j + 1 \in DOMAIN g /\ g[j + 1] = f[j]
      BY <1>1, <1>2, <2>2
    <3>2. QED
      BY <3>1
  <2>3. QED
    BY <1>1, <1>2, <2>1, <2>2
<1>6. QED
  BY <1>3, <1>4, <1>5

LEMMA ElementsOf ==
  ASSUME NEW S, NEW f \in Seq(S)
  PROVE  \A i \in DOMAIN f : f[i] \in S
OBVIOUS

(* The others are left in their order when the first is taken out. *)
LEMMA RestForm ==
  ASSUME NEW S, NEW f \in Seq(S), f # <<>>
  PROVE  /\ Len(Rest(f)) = Len(f) - 1 /\ DOMAIN Rest(f) = 1 .. Len(f) - 1
         /\ Head(f) = f[1] /\ 1 \in DOMAIN f
         /\ \A i \in DOMAIN Rest(f) :
              /\ i + 1 \in DOMAIN f
              /\ Rest(f)[i] = [f[i + 1] EXCEPT !.in = @ - Head(f).in]
<1>1. Len(f) \in Nat \ {0} /\ DOMAIN f = 1 .. Len(f)
  BY EmptySeq
<1>2. DOMAIN Rest(f) = 1 .. Len(f) - 1
  BY DEF Rest
<1>3. Len(Rest(f)) = Len(f) - 1
  BY <1>1 DEF Rest
<1>4. \A i \in DOMAIN Rest(f) : i + 1 \in DOMAIN f
  BY <1>1, <1>2
<1>5. \A i \in DOMAIN Rest(f) : Rest(f)[i] = [f[i + 1] EXCEPT !.in = @ - Head(f).in]
  BY <1>2 DEF Rest
<1>6. QED
  BY <1>1, <1>2, <1>3, <1>4, <1>5

SameButTime(a, b) == a.from = b.from /\ a.to = b.to /\ a.msg = b.msg

LEMMA EventInTime ==
  ASSUME NEW M, NEW N, NEW e \in [in : Int, from : M, to : M, msg : N], NEW x \in Int
  PROVE  /\ [e EXCEPT !.in = @ - x] \in [in : Int, from : M, to : M, msg : N]
         /\ SameButTime([e EXCEPT !.in = @ - x], e)
BY DEF SameButTime

LEMMA RestInTime ==
  ASSUME NEW M, NEW N, NEW f \in Seq([in : Int, from : M, to : M, msg : N]), f # <<>>
  PROVE  /\ Rest(f) \in Seq([in : Int, from : M, to : M, msg : N])
         /\ Head(f) \in [in : Int, from : M, to : M, msg : N]
         /\ \A i \in DOMAIN Rest(f) : SameButTime(Rest(f)[i], f[i + 1])
<1> DEFINE S == [in : Int, from : M, to : M, msg : N]
<1>1. Head(f) = f[1] /\ 1 \in DOMAIN f
  BY RestForm
<1>2. \A i \in DOMAIN f : f[i] \in S
  BY ElementsOf, Zenon
<1>3. Head(f) \in S
  BY <1>1, <1>2
<1>4. Head(f).in \in Int
  BY <1>3
<1> DEFINE g(i) == [f[i + 1] EXCEPT !.in = @ - Head(f).in]
<1>5. \A i \in DOMAIN Rest(f) : g(i) \in S /\ SameButTime(g(i), f[i + 1])
  <2> TAKE i \in DOMAIN Rest(f)
  <2>1. f[i + 1] \in S
    BY <1>2, RestForm
  <2>2. PICK e \in S : e = f[i + 1]
    BY <2>1
  <2>3. [e EXCEPT !.in = @ - Head(f).in] \in S /\ SameButTime([e EXCEPT !.in = @ - Head(f).in], e)
    BY <1>4, <2>2, EventInTime
  <2>4. QED
    BY <2>2, <2>3
<1>6. \A i \in DOMAIN Rest(f) : Rest(f)[i] = g(i)
  BY DEF Rest
<1> HIDE DEF g, S
<1>7. Rest(f) = [i \in 1 .. Len(f) - 1 |-> Rest(f)[i]] /\ DOMAIN Rest(f) = 1 .. Len(f) - 1
  BY DEF Rest
<1>8. Len(f) - 1 \in Nat
  BY EmptySeq DEF S
<1>9. \A i \in 1 .. Len(f) - 1 : Rest(f)[i] \in S
  BY <1>5, <1>6, <1>7
<1>10. Rest(f) \in Seq(S)
  BY <1>7, <1>8, <1>9
<1>11. QED
  BY <1>3, <1>5, <1>6, <1>10 DEF S

LEMMA HopEvents ==
  ASSUME NEW links, NEW uncounted, NEW t \in Int, NEW a, NEW b, NEW m,
         OnItsWay(links, uncounted, Event(t, a, b, m))
  PROVE  Event(t, a, b, m) \in HopEvent(links)
<1>1. a \in UNION links /\ b \in UNION links /\ m \in HopMsg(links)
  BY EventForm DEF OnItsWay
<1>2. QED
  BY <1>1 DEF Event, HopEvent

(* A module that was not initialized yet has no event. *)
LEMMA HopsBoot ==
  ASSUME NEW links, Counted(links), IsTree(links), NEW s, NEW k \in Nat,
         k < Cardinality(UNION links), NEW booted \in Nat, HopsInv(s, k, links, booted),
         NEW u \in Booted(s, k)
  PROVE  HopsInv(u, k + 1, links, booted + 1)
<1>1. PICK f : s = Sim(f, links, Blanks(links)) /\ HopsOf(f, k, links, booted)
  BY DEF HopsInv
<1>2. k \in UNION links
  <2>1. PICK N \in Nat \ {0, 1} : N = Cardinality(UNION links)
    BY DEF Counted
  <2>2. k \in 0 .. N - 1
    BY <2>1
  <2>3. UNION links = 0 .. N - 1
    BY <2>1 DEF Counted
  <2>4. QED
    BY <2>2, <2>3
<1>3. PICK m \in NewMsgs(links, k) : u = scheduleAt(s, k, 0, m)
  <2>1. generateMessage(s, k) = NewMsgs(links, k)
    BY <1>1, GenerateForm
  <2>2. QED
    BY <2>1 DEF Booted
<1> DEFINE e == Event(0, k, k, m)
           g == Insert(f, e)
<1>4. OnItsWay(links, 0, e) /\ e \in HopEvent(links) /\ e.from = k /\ e.to = k
  <2>1. OnItsWay(links, 0, e)
    BY <1>2, <1>3, JourneyWaits
  <2>2. e \in HopEvent(links)
    BY <2>1, HopEvents
  <2>3. QED
    BY <2>1, <2>2, EventForm
<1>5. \A i \in DOMAIN f : ~ IsTimer(f[i], k, m)
  <2> SUFFICES ASSUME NEW i \in DOMAIN f, f[i].to = k
               PROVE  FALSE
    BY DEF IsTimer
  <2>1. f[i].to < k
    BY <1>1 DEF HopsOf
  <2>2. QED
    BY <2>1
<1>6. u = Sim(g, links, Blanks(links))
  BY <1>1, <1>3, <1>5, ScheduleForm
<1>7. f \in Seq(HopEvent(links)) /\ Len(f) = booted
  BY <1>1 DEF HopsOf
<1> HIDE DEF e
<1>8. g \in Seq(HopEvent(links)) /\ Inserted(f, e, Place(f, e), g)
  BY <1>4, <1>7, InsertPuts
<1> HIDE DEF g
<1>9. \A i \in DOMAIN g : g[i] = e \/ \E j \in DOMAIN f : g[i] = f[j]
  BY <1>7, <1>8, InsertedElements
<1>10. Len(g) = booted + 1
  BY <1>7, <1>8 DEF Inserted
<1>11. \A i \in DOMAIN g : OnItsWay(links, 0, g[i])
  BY <1>1, <1>4, <1>9 DEF HopsOf
<1>12. \A i \in DOMAIN g : g[i].from = g[i].to /\ g[i].to < k + 1
  <2> TAKE i \in DOMAIN g
  <2>1. CASE g[i] = e
    BY <1>4, <2>1
  <2>2. CASE \E j \in DOMAIN f : g[i] = f[j]
    <3>1. PICK j \in DOMAIN f : g[i] = f[j]
      BY <2>2
    <3>2. f[j].from = f[j].to /\ f[j].to < k
      BY <1>1, <3>1 DEF HopsOf
    <3>3. f[j].to \in Int
      <4>1. OnItsWay(links, 0, f[j])
        BY <1>1, <3>1 DEF HopsOf
      <4>2. PICK N \in Nat : UNION links = 0 .. N - 1
        BY DEF Counted
      <4>3. QED
        BY <4>1, <4>2 DEF OnItsWay
    <3>4. QED
      BY <3>1, <3>2, <3>3
  <2>3. QED
    BY <1>9, <2>1, <2>2
<1>13. HopsOf(g, k + 1, links, booted + 1)
  BY <1>8, <1>10, <1>11, <1>12 DEF HopsOf
<1>14. QED
  BY <1>6, <1>13 DEF HopsInv

(* The initialization of a module that does not boot. *)
LEMMA HopsStay ==
  ASSUME NEW links, Counted(links), NEW s, NEW k \in Nat,
         k < Cardinality(UNION links), NEW booted \in Nat, HopsInv(s, k, links, booted)
  PROVE  HopsInv(s, k + 1, links, booted)
<1>1. PICK f : s = Sim(f, links, Blanks(links)) /\ HopsOf(f, k, links, booted)
  BY DEF HopsInv
<1>2. PICK N \in Nat : UNION links = 0 .. N - 1
  BY DEF Counted
<1>3. \A i \in DOMAIN f : f[i].from = f[i].to /\ f[i].to < k + 1
  <2> TAKE i \in DOMAIN f
  <2>1. f[i].from = f[i].to /\ f[i].to < k /\ OnItsWay(links, 0, f[i])
    BY <1>1 DEF HopsOf
  <2>2. f[i].to \in Int
    BY <1>2, <2>1 DEF OnItsWay
  <2>3. QED
    BY <2>1, <2>2
<1>4. HopsOf(f, k + 1, links, booted)
  BY <1>1, <1>3 DEF HopsOf
<1>5. QED
  BY <1>1, <1>4 DEF HopsInv

(* The message that is passed on takes the place of the one that came. *)
LEMMA HopsGoOn ==
  ASSUME NEW links, Counted(links), IsTree(links), NEW s, NEW booted \in Nat,
         HopsInv(s, Cardinality(UNION links), links, booted), s.fes # <<>>,
         NEW m \in ToForward(Advanced(s), Head(s.fes).to, Head(s.fes)),
         NEW o \in Neighbours(Advanced(s), Head(s.fes).to)
  PROVE  HopsInv(send(Advanced(s), Head(s.fes).to, o, Hopped(m)),
                 Cardinality(UNION links), links, booted)
<1> DEFINE k == Cardinality(UNION links)
<1>1. PICK f : s = Sim(f, links, Blanks(links)) /\ HopsOf(f, k, links, booted)
  BY DEF HopsInv
<1>2. /\ f \in Seq(HopEvent(links)) /\ Len(f) = booted
      /\ \A i \in DOMAIN f : OnItsWay(links, 0, f[i])
  BY <1>1 DEF HopsOf
<1>3. s.fes = f
  BY <1>1 DEF Sim
<1> DEFINE e == Head(f)
           n == e.to
           r == Rest(f)
           c == Event(1, n, o, Hopped(m))
           g == Insert(r, c)
<1>4. f # <<>> /\ e = Head(s.fes) /\ Advanced(s) = Sim(r, links, Blanks(links))
  BY <1>1, <1>3, AdvancedForm
<1>5. e = f[1] /\ 1 \in DOMAIN f /\ Len(r) = Len(f) - 1 /\ DOMAIN r = 1 .. Len(f) - 1
  BY <1>2, <1>4, RestForm
<1>6. OnItsWay(links, 0, e)
  BY <1>2, <1>5
<1>7. r \in Seq(HopEvent(links)) /\ \A i \in DOMAIN r : SameButTime(r[i], f[i + 1])
  BY <1>2, <1>4, RestInTime DEF HopEvent
<1>8. \A i \in DOMAIN r : OnItsWay(links, 0, r[i])
  <2> TAKE i \in DOMAIN r
  <2>1. i + 1 \in DOMAIN f
    BY <1>2, <1>4, RestForm
  <2>2. OnItsWay(links, 0, f[i + 1]) /\ SameButTime(r[i], f[i + 1])
    BY <1>2, <1>7, <2>1
  <2> HIDE DEF r
  <2>3. QED
    BY <2>2, JourneyInTime DEF SameButTime
<1>9. o \in Near(links, n)
  BY <1>4, NearForm
<1>10. m \in IF e.msg.destination = n THEN NewMsgs(links, n) ELSE {e.msg}
  BY <1>4, GenerateForm DEF ToForward
<1> HIDE DEF e, r
<1>11. OnItsWay(links, 0, c)
  <2>1. n \in UNION links /\ e.msg \in HopMsg(links)
    BY <1>6 DEF OnItsWay
  <2>2. CASE e.msg.destination = n
    <3>1. m \in NewMsgs(links, n)
      BY <1>10, <2>2
    <3>2. m \in HopMsg(links) /\ m.source = n /\ m.destination # n /\ m.hopCount = 0
      BY <2>1, <3>1, NewMsgForm
    <3>3. /\ Hopped(m) \in HopMsg(links) /\ Hopped(m).source = n
          /\ Hopped(m).destination # n /\ Hopped(m).hopCount + 0 = 1
      BY <3>2, HopMsgForm
    <3>4. QED
      BY <1>9, <2>1, <3>3, JourneyBegins
  <2>3. CASE e.msg.destination # n
    <3>1. m = e.msg
      BY <1>10, <2>3
    <3>2. CASE e.to \in Near(links, e.from)
      BY <1>6, <1>9, <2>3, <3>1, <3>2, JourneyGoesOn
    <3>3. CASE e.to \notin Near(links, e.from)
      <4>1. e.from = n /\ e.from = m.source /\ m.hopCount = 0
        BY <1>6, <3>1, <3>3 DEF OnItsWay
      <4>2. /\ Hopped(m) \in HopMsg(links) /\ Hopped(m).source = n
            /\ Hopped(m).destination # n /\ Hopped(m).hopCount + 0 = 1
        BY <2>1, <2>3, <3>1, <4>1, HopMsgForm
      <4>3. QED
        BY <1>9, <2>1, <4>2, JourneyBegins
    <3>4. QED
      BY <3>2, <3>3
  <2>4. QED
    BY <2>2, <2>3
<1>12. c \in HopEvent(links)
  BY <1>11, HopEvents
<1>13. send(Advanced(s), n, o, Hopped(m)) = Sim(g, links, Blanks(links))
  BY <1>4, SendForm
<1> HIDE DEF c
<1>14. g \in Seq(HopEvent(links)) /\ Inserted(r, c, Place(r, c), g)
  BY <1>7, <1>12, InsertPuts
<1> HIDE DEF g
<1>15. \A i \in DOMAIN g : g[i] = c \/ \E j \in DOMAIN r : g[i] = r[j]
  BY <1>7, <1>14, InsertedElements
<1>16. Len(g) = booted
  BY <1>2, <1>5, <1>14 DEF Inserted
<1>17. \A i \in DOMAIN g : OnItsWay(links, 0, g[i])
  BY <1>8, <1>11, <1>15
<1>18. ~ (k < Cardinality(UNION links))
  <2>1. PICK N \in Nat : N = Cardinality(UNION links)
    BY DEF Counted
  <2>2. QED
    BY <2>1
<1>19. HopsOf(g, k, links, booted)
  BY <1>14, <1>16, <1>17, <1>18 DEF HopsOf
<1>20. HopsInv(send(Advanced(s), n, o, Hopped(m)), k, links, booted)
  BY <1>13, <1>19 DEF HopsInv
<1>21. QED
  BY <1>4, <1>20 DEF e

(* As many messages as booted, and their hops are counted. *)
LEMMA HopsKeep ==
  ASSUME NEW links, NEW s, NEW k, NEW booted \in Nat, HopsInv(s, k, links, booted)
  PROVE  /\ ~ s.thrown
         /\ Messages(s) = booted
         /\ \A i \in DOMAIN s.fes : OnItsWay(links, 0, s.fes[i])
<1>1. PICK f : s = Sim(f, links, Blanks(links)) /\ HopsOf(f, k, links, booted)
  BY DEF HopsInv
<1>2. ~ s.thrown /\ s.fes = f
  BY <1>1 DEF Sim
<1>3. /\ f \in Seq(HopEvent(links)) /\ Len(f) = booted
      /\ \A i \in DOMAIN f : OnItsWay(links, 0, f[i])
  BY <1>1 DEF HopsOf
<1>4. \A i \in DOMAIN f : Ordinary(f[i].msg)
  BY <1>3, HopMsgForm DEF OnItsWay
<1>5. UnderWayIn(f) = 1 .. booted
  BY <1>3, <1>4 DEF UnderWayIn
<1>6. Cardinality(1 .. booted) = booted
  <2>1. 1 \in Int /\ booted \in Int
    OBVIOUS
  <2>2. QED
    BY <2>1, FS_Interval
<1>7. Messages(s) = booted + 0
  BY <1>1, <1>5, <1>6, MessagesForm, BlanksKeepNothing
<1>8. QED
  BY <1>2, <1>3, <1>7

-----------------------------------------------------------------------------
(* Txc13 of the terminal copy: every module has a timer besides.           *)

MixedEvent(links) ==
  [in : Int, from : UNION links, to : UNION links, msg : HopMsg(links) \cup {event}]

Fine(links, e) ==
  \/ e.msg # event /\ OnItsWay(links, 1, e)
  \/ e.msg = event /\ e.from = e.to

Running(f, n) == \E i \in DOMAIN f : IsTimer(f[i], n, event)

HasMessage(f) == \E i \in DOMAIN f : f[i].msg # event

(* No module has two timers. *)
Mixed(f, links) ==
  /\ f \in Seq(MixedEvent(links))
  /\ \A i \in DOMAIN f : Fine(links, f[i])
  /\ \A i, j \in DOMAIN f : f[i].msg = event /\ f[j].msg = event /\ f[i].to = f[j].to => i = j

PeriodicOf(f, k, links) ==
  /\ Mixed(f, links)
  /\ \A n \in UNION links : Running(f, n) <=> n < k
  /\ IF k = 0 THEN f = <<>> ELSE HasMessage(f)

PeriodicInv(s, k, links) ==
  \E f : s = Sim(f, links, Blanks(links)) /\ PeriodicOf(f, k, links)

LEMMA MixedInsert ==
  ASSUME NEW links, NEW f, Mixed(f, links), NEW e \in MixedEvent(links), Fine(links, e),
         e.msg = event => ~ Running(f, e.to)
  PROVE  /\ Mixed(Insert(f, e), links)
         /\ \A n : Running(Insert(f, e), n) <=> Running(f, n) \/ IsTimer(e, n, event)
         /\ HasMessage(Insert(f, e)) <=> HasMessage(f) \/ e.msg # event
<1> DEFINE S == MixedEvent(links)
           g == Insert(f, e)
           p == Place(f, e)
<1>1. f \in Seq(S) /\ \A i \in DOMAIN f : Fine(links, f[i])
  BY DEF Mixed
<1>2. g \in Seq(S) /\ Inserted(f, e, p, g)
  BY <1>1, InsertPuts
<1> HIDE DEF S, g, p
<1>3. /\ \A i \in DOMAIN g : g[i] = e \/ \E j \in DOMAIN f : g[i] = f[j]
      /\ \E i \in DOMAIN g : g[i] = e
      /\ \A j \in DOMAIN f : \E i \in DOMAIN g : g[i] = f[j]
  BY <1>1, <1>2, InsertedElements
<1>4. \A i \in DOMAIN g : Fine(links, g[i])
  BY <1>1, <1>3
<1>5. ASSUME NEW n
      PROVE  Running(g, n) <=> Running(f, n) \/ IsTimer(e, n, event)
  <2>1. ASSUME Running(g, n) PROVE Running(f, n) \/ IsTimer(e, n, event)
    BY <1>3, <2>1 DEF Running
  <2>2. ASSUME Running(f, n) PROVE Running(g, n)
    <3>1. PICK j \in DOMAIN f : IsTimer(f[j], n, event)
      BY <2>2 DEF Running
    <3>2. PICK i \in DOMAIN g : g[i] = f[j]
      BY <1>3, <3>1
    <3>3. QED
      BY <3>1, <3>2 DEF Running
  <2>3. ASSUME IsTimer(e, n, event) PROVE Running(g, n)
    BY <1>3, <2>3 DEF Running
  <2>4. QED
    BY <2>1, <2>2, <2>3
<1>6. HasMessage(g) <=> HasMessage(f) \/ e.msg # event
  <2>1. ASSUME HasMessage(g) PROVE HasMessage(f) \/ e.msg # event
    BY <1>3, <2>1 DEF HasMessage
  <2>2. ASSUME HasMessage(f) PROVE HasMessage(g)
    <3>1. PICK j \in DOMAIN f : f[j].msg # event
      BY <2>2 DEF HasMessage
    <3>2. PICK i \in DOMAIN g : g[i] = f[j]
      BY <1>3, <3>1
    <3>3. QED
      BY <3>1, <3>2 DEF HasMessage
  <2>3. ASSUME e.msg # event PROVE HasMessage(g)
    BY <1>3, <2>3 DEF HasMessage
  <2>4. QED
    BY <2>1, <2>2, <2>3
<1>7. \A i, j \in DOMAIN g : g[i].msg = event /\ g[j].msg = event /\ g[i].to = g[j].to => i = j
  <2>1. /\ p \in 1 .. Len(f) + 1 /\ Len(g) = Len(f) + 1 /\ Len(f) \in Nat
        /\ DOMAIN f = 1 .. Len(f) /\ DOMAIN g = 1 .. Len(f) + 1
        /\ \A i \in 1 .. Len(f) + 1 :
             g[i] = IF i < p THEN f[i] ELSE IF i = p THEN e ELSE f[i - 1]
    BY <1>1, <1>2 DEF Inserted
  <2>2. \A j \in DOMAIN f : f[j].msg = event /\ e.msg = event => f[j].to # e.to
    <3> SUFFICES ASSUME NEW j \in DOMAIN f, f[j].msg = event, e.msg = event, f[j].to = e.to
                 PROVE  FALSE
      OBVIOUS
    <3>1. IsTimer(f[j], e.to, event)
      BY <1>1 DEF Fine, IsTimer, IsSelfMessage
    <3>2. QED
      BY <3>1 DEF Running
  <2>3. \A i, j \in DOMAIN f :
          f[i].msg = event /\ f[j].msg = event /\ f[i].to = f[j].to => i = j
    BY DEF Mixed
  <2> DEFINE at(i) == IF i < p THEN i ELSE i - 1
  <2>4. \A i \in DOMAIN g : i # p => at(i) \in DOMAIN f /\ g[i] = f[at(i)]
    BY <2>1
  <2>5. g[p] = e
    BY <2>1
  <2>6. \A i, j \in DOMAIN g : i # p /\ j # p /\ at(i) = at(j) => i = j
    BY <2>1
  <2> HIDE DEF at
  <2> SUFFICES ASSUME NEW i \in DOMAIN g, NEW j \in DOMAIN g,
                      g[i].msg = event, g[j].msg = event, g[i].to = g[j].to
               PROVE  i = j
    OBVIOUS
  <2>7. CASE i # p /\ j # p
    BY <2>3, <2>4, <2>6, <2>7
  <2>8. CASE i = p /\ j # p
    BY <2>2, <2>4, <2>5, <2>8
  <2>9. CASE i # p /\ j = p
    BY <2>2, <2>4, <2>5, <2>9
  <2>10. QED
    BY <2>7, <2>8, <2>9
<1>8. Mixed(g, links)
  BY <1>2, <1>4, <1>7 DEF Mixed, S
<1>9. QED
  BY <1>5, <1>6, <1>8 DEF g

LEMMA MixedRest ==
  ASSUME NEW links, NEW f, Mixed(f, links), f # <<>>
  PROVE  /\ Mixed(Rest(f), links)
         /\ Head(f) \in MixedEvent(links) /\ Fine(links, Head(f))
         /\ \A n : Running(Rest(f), n) <=> Running(f, n) /\ ~ IsTimer(Head(f), n, event)
         /\ Head(f).msg = event /\ HasMessage(f) => HasMessage(Rest(f))
<1> DEFINE r == Rest(f)
           e == Head(f)
<1>1. /\ f \in Seq(MixedEvent(links))
      /\ \A i \in DOMAIN f : Fine(links, f[i])
      /\ \A i, j \in DOMAIN f :
           f[i].msg = event /\ f[j].msg = event /\ f[i].to = f[j].to => i = j
  BY DEF Mixed
<1>2. e = f[1] /\ 1 \in DOMAIN f /\ DOMAIN r = 1 .. Len(f) - 1 /\ \A i \in DOMAIN r : i + 1 \in DOMAIN f
  BY <1>1, RestForm
<1>3. /\ r \in Seq(MixedEvent(links)) /\ e \in MixedEvent(links)
      /\ \A i \in DOMAIN r : SameButTime(r[i], f[i + 1])
  BY <1>1, RestInTime DEF MixedEvent
<1>4. DOMAIN f = 1 .. Len(f) /\ Len(f) \in Nat
  BY <1>1
<1> HIDE DEF r, e
<1>5. \A i \in DOMAIN r : Fine(links, r[i])
  <2> TAKE i \in DOMAIN r
  <2>1. Fine(links, f[i + 1]) /\ SameButTime(r[i], f[i + 1])
    BY <1>1, <1>2, <1>3
  <2>2. CASE OnItsWay(links, 1, f[i + 1]) /\ f[i + 1].msg # event
    <3>1. OnItsWay(links, 1, r[i])
      BY <2>1, <2>2, JourneyInTime DEF SameButTime
    <3>2. QED
      BY <2>1, <2>2, <3>1 DEF Fine, SameButTime
  <2>3. CASE f[i + 1].msg = event
    BY <2>1, <2>3 DEF Fine, SameButTime
  <2>4. QED
    BY <2>1, <2>2, <2>3 DEF Fine
<1>6. \A i, j \in DOMAIN r : r[i].msg = event /\ r[j].msg = event /\ r[i].to = r[j].to => i = j
  <2> SUFFICES ASSUME NEW i \in DOMAIN r, NEW j \in DOMAIN r,
                      r[i].msg = event, r[j].msg = event, r[i].to = r[j].to
               PROVE  i = j
    OBVIOUS
  <2>1. SameButTime(r[i], f[i + 1]) /\ SameButTime(r[j], f[j + 1])
    BY <1>3
  <2>2. i + 1 = j + 1
    BY <1>1, <1>2, <2>1 DEF SameButTime
  <2>3. QED
    BY <1>2, <2>2
<1>7. Mixed(r, links)
  BY <1>3, <1>5, <1>6 DEF Mixed
<1>8. Fine(links, e)
  BY <1>1, <1>2
<1>9. \A i \in DOMAIN f : i # 1 => i - 1 \in DOMAIN r /\ SameButTime(r[i - 1], f[i])
  <2> TAKE i \in DOMAIN f
  <2> HAVE i # 1
  <2>1. i - 1 \in DOMAIN r /\ (i - 1) + 1 = i
    BY <1>2, <1>4
  <2>2. QED
    BY <1>3, <2>1
<1>10. ASSUME NEW n
       PROVE  Running(r, n) <=> Running(f, n) /\ ~ IsTimer(e, n, event)
  <2>1. ASSUME Running(r, n) PROVE Running(f, n) /\ ~ IsTimer(e, n, event)
    <3>1. PICK i \in DOMAIN r : IsTimer(r[i], n, event)
      BY <2>1 DEF Running
    <3>2. IsTimer(f[i + 1], n, event) /\ i + 1 \in DOMAIN f
      BY <1>2, <1>3, <3>1 DEF SameButTime, IsTimer, IsSelfMessage
    <3>3. i + 1 # 1
      BY <1>2, <3>1
    <3>4. ~ IsTimer(e, n, event)
      BY <1>1, <1>2, <3>2, <3>3 DEF IsTimer
    <3>5. QED
      BY <3>2, <3>4 DEF Running
  <2>2. ASSUME Running(f, n), ~ IsTimer(e, n, event) PROVE Running(r, n)
    <3>1. PICK i \in DOMAIN f : IsTimer(f[i], n, event)
      BY <2>2 DEF Running
    <3>2. i # 1
      BY <1>2, <2>2, <3>1
    <3>3. i - 1 \in DOMAIN r /\ IsTimer(r[i - 1], n, event)
      BY <1>9, <3>1, <3>2 DEF SameButTime, IsTimer, IsSelfMessage
    <3>4. QED
      BY <3>3 DEF Running
  <2>3. QED
    BY <2>1, <2>2
<1>11. ASSUME e.msg = event, HasMessage(f) PROVE HasMessage(r)
  <2>1. PICK i \in DOMAIN f : f[i].msg # event
    BY <1>11 DEF HasMessage
  <2>2. i # 1
    BY <1>2, <1>11, <2>1
  <2>3. i - 1 \in DOMAIN r /\ r[i - 1].msg # event
    BY <1>9, <2>1, <2>2 DEF SameButTime
  <2>4. QED
    BY <2>3 DEF HasMessage
<1>12. QED
  BY <1>3, <1>7, <1>8, <1>10, <1>11 DEF r, e

(* A timer is started where none runs. *)
LEMMA TimerStarts ==
  ASSUME NEW links, NEW f, Mixed(f, links), NEW n \in UNION links, ~ Running(f, n),
         NEW t \in DelayTimes
  PROVE  /\ scheduleAt(Sim(f, links, Blanks(links)), n, t, event)
              = Sim(Insert(f, Event(t, n, n, event)), links, Blanks(links))
         /\ Mixed(Insert(f, Event(t, n, n, event)), links)
         /\ \A m : Running(Insert(f, Event(t, n, n, event)), m) <=> Running(f, m) \/ m = n
         /\ HasMessage(Insert(f, Event(t, n, n, event))) <=> HasMessage(f)
<1> DEFINE e == Event(t, n, n, event)
<1>1. t \in Int
  BY TicTocAssumption
<1>2. e \in MixedEvent(links)
  BY <1>1 DEF Event, MixedEvent
<1>3. e.msg = event /\ e.from = e.to /\ e.to = n /\ \A m : IsTimer(e, m, event) <=> m = n
  BY EventForm
<1>4. \A i \in DOMAIN f : ~ IsTimer(f[i], n, event)
  BY DEF Running
<1>5. scheduleAt(Sim(f, links, Blanks(links)), n, t, event)
        = Sim(Insert(f, e), links, Blanks(links))
  BY <1>4, ScheduleForm
<1> HIDE DEF e
<1>6. Fine(links, e)
  BY <1>3 DEF Fine
<1>7. /\ Mixed(Insert(f, e), links)
      /\ \A m : Running(Insert(f, e), m) <=> Running(f, m) \/ IsTimer(e, m, event)
      /\ HasMessage(Insert(f, e)) <=> HasMessage(f) \/ e.msg # event
  BY <1>2, <1>3, <1>6, MixedInsert
<1>8. /\ \A m : Running(Insert(f, e), m) <=> Running(f, m) \/ m = n
      /\ HasMessage(Insert(f, e)) <=> HasMessage(f)
  BY <1>3, <1>7
<1>9. QED
  BY <1>5, <1>7, <1>8 DEF e

(* A message is added and no timer started. *)
LEMMA MessageAdded ==
  ASSUME NEW links, NEW f, Mixed(f, links), NEW t \in Int, NEW a, NEW b, NEW m,
         OnItsWay(links, 1, Event(t, a, b, m))
  PROVE  /\ Mixed(Insert(f, Event(t, a, b, m)), links)
         /\ \A n : Running(Insert(f, Event(t, a, b, m)), n) <=> Running(f, n)
         /\ HasMessage(Insert(f, Event(t, a, b, m)))
<1> DEFINE e == Event(t, a, b, m)
<1>1. m \in HopMsg(links) /\ a \in UNION links /\ b \in UNION links
  BY EventForm DEF OnItsWay
<1>2. m # event
  BY <1>1, HopMsgForm
<1>3. e \in MixedEvent(links)
  BY <1>1 DEF Event, MixedEvent
<1>4. e.msg # event /\ \A n : ~ IsTimer(e, n, event)
  BY <1>2, EventForm
<1> HIDE DEF e
<1>5. Fine(links, e)
  BY <1>4 DEF Fine, e
<1>6. /\ Mixed(Insert(f, e), links)
      /\ \A n : Running(Insert(f, e), n) <=> Running(f, n) \/ IsTimer(e, n, event)
      /\ HasMessage(Insert(f, e)) <=> HasMessage(f) \/ e.msg # event
  BY <1>3, <1>4, <1>5, MixedInsert
<1>7. QED
  BY <1>4, <1>6 DEF e

LEMMA PeriodicStarts ==
  ASSUME NEW links, Counted(links), IsTree(links), NEW s, NEW k \in Nat,
         k < Cardinality(UNION links), PeriodicInv(s, k, links),
         NEW u \in Txc13Terminal(s, k, Start)
  PROVE  PeriodicInv(u, k + 1, links)
<1> DEFINE B == Blanks(links)
<1>1. PICK f : s = Sim(f, links, B) /\ PeriodicOf(f, k, links)
  BY DEF PeriodicInv
<1>2. PICK N \in Nat \ {0, 1} : N = Cardinality(UNION links) /\ UNION links = 0 .. N - 1
  BY DEF Counted
<1>3. k \in UNION links
  <2>1. k \in 0 .. N - 1
    BY <1>2
  <2>2. QED
    BY <1>2, <2>1, Zenon
<1>4. Mixed(f, links) /\ \A n \in UNION links : Running(f, n) <=> n < k
  BY <1>1 DEF PeriodicOf
<1>5. ~ Running(f, k)
  BY <1>3, <1>4
<1>6. PICK t \in DelayTimes : u \in IF k = 0 THEN Booted(scheduleAt(s, k, t, event), k)
                                    ELSE {scheduleAt(s, k, t, event)}
  <2>1. u \in UNION {IF k = 0 THEN Booted(x, k) ELSE {x} :
                       x \in {scheduleAt(s, k, t, event) : t \in DelayTimes}}
    BY DEF Txc13Terminal, EventTimer
  <2>2. QED
    BY <2>1
<1> DEFINE e == Event(t, k, k, event)
           g == Insert(f, e)
<1>7. /\ scheduleAt(s, k, t, event) = Sim(g, links, B)
      /\ Mixed(g, links)
      /\ \A m : Running(g, m) <=> Running(f, m) \/ m = k
      /\ HasMessage(g) <=> HasMessage(f)
  BY <1>1, <1>3, <1>4, <1>5, <1>6, TimerStarts
<1>8. \A n \in UNION links : Running(g, n) <=> n < k + 1
  <2> TAKE n \in UNION links
  <2>1. Running(g, n) <=> n < k \/ n = k
    BY <1>4, <1>7
  <2>2. n \in Int
    BY <1>2
  <2>3. QED
    BY <2>1, <2>2
<1>9. CASE k = 0
  <2>1. f = <<>>
    BY <1>1, <1>9 DEF PeriodicOf
  <2>2. g = <<e>>
    BY <2>1, InsertFirst
  <2>3. u \in Booted(Sim(g, links, B), k)
    BY <1>6, <1>7, <1>9
  <2>4. PICK m \in NewMsgs(links, k) : u = scheduleAt(Sim(g, links, B), k, 0, m)
    <3>1. generateMessage(Sim(g, links, B), k) = NewMsgs(links, k)
      BY GenerateForm
    <3> HIDE DEF g, B
    <3>2. QED
      BY <2>3, <3>1 DEF Booted
  <2>5. m # event
    BY <1>3, <2>4, NewMsgForm, HopMsgForm
  <2>6. e.msg = event
    BY EventForm
  <2>7. \A i \in DOMAIN g : ~ IsTimer(g[i], k, m)
    BY <2>2, <2>5, <2>6 DEF IsTimer
  <2> DEFINE h == Insert(g, Event(0, k, k, m))
  <2>8. u = Sim(h, links, B)
    BY <2>4, <2>7, ScheduleForm
  <2>9. OnItsWay(links, 1, Event(0, k, k, m))
    BY <1>3, <2>4, JourneyWaits
  <2> HIDE DEF g
  <2>10. /\ Mixed(h, links)
         /\ \A n : Running(h, n) <=> Running(g, n)
         /\ HasMessage(h)
    BY <1>7, <2>9, MessageAdded
  <2> HIDE DEF h
  <2>11. PeriodicOf(h, k + 1, links)
    BY <1>8, <1>9, <2>10 DEF PeriodicOf
  <2>12. QED
    BY <2>8, <2>11 DEF PeriodicInv
<1>10. CASE k # 0
  <2>1. u = Sim(g, links, B)
    BY <1>6, <1>7, <1>10
  <2>2. HasMessage(g)
    BY <1>1, <1>7, <1>10 DEF PeriodicOf
  <2> HIDE DEF g
  <2>3. PeriodicOf(g, k + 1, links)
    BY <1>7, <1>8, <2>2 DEF PeriodicOf
  <2>4. QED
    BY <2>1, <2>3 DEF PeriodicInv
<1>11. QED
  BY <1>9, <1>10

LEMMA PeriodicHandles ==
  ASSUME NEW links, Counted(links), IsTree(links), NEW s,
         PeriodicInv(s, Cardinality(UNION links), links), s.fes # <<>>,
         NEW u \in Txc13Terminal(Advanced(s), Head(s.fes).to, Head(s.fes))
  PROVE  PeriodicInv(u, Cardinality(UNION links), links)
<1> DEFINE B == Blanks(links)
           k == Cardinality(UNION links)
<1>1. PICK f : s = Sim(f, links, B) /\ PeriodicOf(f, k, links)
  BY DEF PeriodicInv
<1>2. k \in Nat /\ k # 0
  BY DEF Counted
<1> HIDE DEF k, B
<1>3. Mixed(f, links) /\ (\A n \in UNION links : Running(f, n) <=> n < k) /\ HasMessage(f)
  BY <1>1, <1>2 DEF PeriodicOf
<1>4. s.fes = f
  BY <1>1 DEF Sim
<1> DEFINE e == Head(f)
           n == e.to
           r == Rest(f)
<1>5. f # <<>> /\ e = Head(s.fes) /\ Advanced(s) = Sim(r, links, B)
  BY <1>1, <1>4, AdvancedForm
<1>6. /\ Mixed(r, links)
      /\ e \in MixedEvent(links) /\ Fine(links, e)
      /\ \A m : Running(r, m) <=> Running(f, m) /\ ~ IsTimer(e, m, event)
      /\ e.msg = event => HasMessage(r)
  BY <1>3, <1>5, MixedRest
<1>7. n \in UNION links /\ e # Start
  <2>1. n \in UNION links
    BY <1>6 DEF MixedEvent
  <2>2. DOMAIN e = {"in", "from", "to", "msg"} /\ DOMAIN Start = {"msg"} /\ "in" # "msg"
    BY <1>6 DEF MixedEvent, Start
  <2>3. e # Start
    BY <2>2, Zenon
  <2>4. QED
    BY <2>1, <2>3
<1>8. u \in Txc13Terminal(Sim(r, links, B), n, e)
  BY <1>5
<1> HIDE DEF e, r
<1>9. CASE e.msg = event
  <2>1. PICK t \in DelayTimes, m \in NewMsgs(links, n) :
          u \in TossedOn(scheduleAt(Sim(r, links, B), n, t, event), n, {}, m)
    <3>1. u \in UNION {TossedOn(x, n, {}, m) : x \in EventTimer(Sim(r, links, B), n),
                                               m \in generateMessage(Sim(r, links, B), n)}
      BY <1>7, <1>8, <1>9 DEF Txc13Terminal
    <3>2. generateMessage(Sim(r, links, B), n) = NewMsgs(links, n)
      BY GenerateForm
    <3>3. QED
      BY <3>1, <3>2 DEF EventTimer
  <2>2. e.from = e.to /\ IsTimer(e, n, event)
    BY <1>6, <1>9 DEF Fine, IsTimer, IsSelfMessage
  <2>3. ~ Running(r, n)
    BY <1>6, <2>2
  <2> DEFINE g == Insert(r, Event(t, n, n, event))
  <2>4. /\ scheduleAt(Sim(r, links, B), n, t, event) = Sim(g, links, B)
        /\ Mixed(g, links)
        /\ \A m1 : Running(g, m1) <=> Running(r, m1) \/ m1 = n
        /\ HasMessage(g) <=> HasMessage(r)
    BY <1>6, <1>7, <2>1, <2>3, TimerStarts DEF B
  <2>5. \A m1 : IsTimer(e, m1, event) <=> m1 = n
    BY <1>9, <2>2 DEF IsTimer, IsSelfMessage
  <2> HIDE DEF g
  <2>6. PICK o \in Neighbours(Sim(g, links, B), n) : u = send(Sim(g, links, B), n, o, m)
    BY <2>1, <2>4, TossedForm
  <2>7. o \in Near(links, n)
    BY <2>6, NearForm
  <2> DEFINE c == Event(1, n, o, m)
             h == Insert(g, c)
  <2>8. u = Sim(h, links, B)
    BY <2>6, SendForm
  <2>9. m \in HopMsg(links) /\ m.source = n /\ m.destination # n /\ m.hopCount + 1 = 1
    <3>1. m \in HopMsg(links) /\ m.source = n /\ m.destination # n /\ m.hopCount = 0
      BY <1>7, <2>1, NewMsgForm
    <3>2. QED
      BY <3>1
  <2>10. OnItsWay(links, 1, c)
    BY <1>7, <2>7, <2>9, JourneyBegins
  <2>11. /\ Mixed(h, links)
         /\ \A m1 : Running(h, m1) <=> Running(g, m1)
         /\ HasMessage(h)
    BY <2>4, <2>10, MessageAdded
  <2> HIDE DEF h
  <2>12. \A m1 \in UNION links : Running(h, m1) <=> m1 < k
    <3> TAKE m1 \in UNION links
    <3>1. Running(h, m1) <=> (Running(f, m1) /\ ~ IsTimer(e, m1, event)) \/ m1 = n
      BY <1>6, <2>4, <2>11
    <3>2. n < k
      <4>1. Running(f, n)
        <5>1. Mixed(f, links) /\ f # <<>>
          BY <1>3, <1>5
        <5>2. f[1] = e /\ 1 \in DOMAIN f
          BY <5>1, RestForm DEF Mixed, e
        <5>3. QED
          BY <2>2, <5>2 DEF Running
      <4>2. QED
        BY <1>3, <1>7, <4>1
    <3>3. QED
      BY <1>3, <2>5, <3>1, <3>2
  <2>13. PeriodicOf(h, k, links)
    BY <1>2, <2>11, <2>12 DEF PeriodicOf
  <2>14. QED
    BY <2>8, <2>13 DEF PeriodicInv, B, k
<1>10. CASE e.msg # event
  <2>1. OnItsWay(links, 1, e)
    BY <1>6, <1>10 DEF Fine
  <2>2. e.msg \in HopMsg(links)
    BY <2>1 DEF OnItsWay
  <2>3. PICK m \in IF e.msg.destination = n THEN NewMsgs(links, n) ELSE {e.msg} :
          u \in TossedOn(Sim(r, links, B), n, CameThrough(n, e, m),
                         HoppedOn(m, CameThrough(n, e, m)))
    <3>1. u \in UNION {TossedOn(Sim(r, links, B), n, CameThrough(n, e, m),
                                HoppedOn(m, CameThrough(n, e, m))) :
                         m \in ToForward(Sim(r, links, B), n, e)}
      BY <1>7, <1>8, <1>10 DEF Txc13Terminal
    <3>2. ToForward(Sim(r, links, B), n, e)
            = IF e.msg.destination = n THEN NewMsgs(links, n) ELSE {e.msg}
      BY GenerateForm DEF ToForward
    <3>3. QED
      BY <3>1, <3>2
  <2> DEFINE came == CameThrough(n, e, m)
             p == HoppedOn(m, came)
  <2> HIDE DEF came, p
  <2>4. PICK o \in Neighbours(Sim(r, links, B), n) : u = send(Sim(r, links, B), n, o, p)
    BY <2>3, TossedForm DEF came, p
  <2>5. o \in Near(links, n)
    BY <2>4, NearForm
  <2> DEFINE c == Event(1, n, o, p)
             h == Insert(r, c)
  <2>6. u = Sim(h, links, B)
    BY <2>4, SendForm
  <2>7. OnItsWay(links, 1, c)
    <3>1. CASE e.msg.destination = n
      <4>1. m \in NewMsgs(links, n)
        BY <2>3, <3>1
      <4>2. m \in HopMsg(links) /\ m.source = n /\ m.destination # n /\ m.hopCount = 0
        BY <1>7, <4>1, NewMsgForm
      <4>3. came = {}
        BY <3>1, <4>2 DEF came, CameThrough
      <4>4. p = m /\ m.hopCount + 1 = 1
        BY <4>2, <4>3 DEF p, HoppedOn
      <4>5. QED
        BY <1>7, <2>5, <4>2, <4>4, JourneyBegins
    <3>2. CASE e.msg.destination # n /\ e.to \in Near(links, e.from)
      <4>1. m = e.msg
        BY <2>3, <3>2
      <4>2. came = {e.from} \ {n}
        BY <4>1 DEF came, CameThrough
      <4>3. n # e.from
        BY <3>2 DEF Near
      <4>4. e.from \in came
        BY <4>2, <4>3
      <4>5. p = Hopped(e.msg)
        BY <4>1, <4>4 DEF p, HoppedOn
      <4>6. QED
        BY <2>1, <2>5, <3>2, <4>5, JourneyGoesOn
    <3>3. CASE e.msg.destination # n /\ e.to \notin Near(links, e.from)
      <4>1. m = e.msg
        BY <2>3, <3>3
      <4>2. e.from = n /\ e.from = m.source /\ m.hopCount = 0
        BY <2>1, <3>3, <4>1 DEF OnItsWay
      <4>3. came = {}
        BY <4>1, <4>2 DEF came, CameThrough
      <4>4. p = m /\ m.hopCount + 1 = 1
        BY <4>2, <4>3 DEF p, HoppedOn
      <4>5. m \in HopMsg(links) /\ m.source = n /\ m.destination # n
        BY <2>2, <3>3, <4>1, <4>2
      <4>6. QED
        BY <1>7, <2>5, <4>4, <4>5, JourneyBegins
    <3>4. QED
      BY <3>1, <3>2, <3>3
  <2>8. /\ Mixed(h, links)
        /\ \A m1 : Running(h, m1) <=> Running(r, m1)
        /\ HasMessage(h)
    BY <1>6, <2>7, MessageAdded
  <2> HIDE DEF h
  <2>9. \A m1 : ~ IsTimer(e, m1, event)
    BY <1>10 DEF IsTimer
  <2>10. \A m1 \in UNION links : Running(h, m1) <=> m1 < k
    BY <1>3, <1>6, <2>8, <2>9
  <2>11. PeriodicOf(h, k, links)
    BY <1>2, <2>8, <2>10 DEF PeriodicOf
  <2>12. QED
    BY <2>6, <2>11 DEF PeriodicInv, B, k
<1>11. QED
  BY <1>9, <1>10

LEMMA PeriodicKeeps ==
  ASSUME NEW links, Counted(links), NEW s, PeriodicInv(s, Cardinality(UNION links), links)
  PROVE  /\ ~ s.thrown
         /\ Messages(s) >= 1
         /\ {n \in Modules(s) : Scheduled(s, n, event)} = Modules(s)
         /\ \A i \in DOMAIN s.fes : s.fes[i].msg # event => OnItsWay(links, 1, s.fes[i])
<1> DEFINE B == Blanks(links)
           k == Cardinality(UNION links)
<1>1. PICK f : s = Sim(f, links, B) /\ PeriodicOf(f, k, links)
  BY DEF PeriodicInv
<1>2. k \in Nat /\ k # 0 /\ UNION links = 0 .. k - 1
  BY DEF Counted
<1>3. ~ s.thrown /\ s.fes = f /\ Modules(s) = UNION links
  BY <1>1 DEF Sim, Modules
<1> HIDE DEF k
<1>4. Mixed(f, links) /\ (\A n \in UNION links : Running(f, n) <=> n < k) /\ HasMessage(f)
  BY <1>1, <1>2 DEF PeriodicOf
<1>5. \A n \in UNION links : Scheduled(s, n, event)
  <2> TAKE n \in UNION links
  <2>1. n < k
    BY <1>2
  <2>2. \E i \in DOMAIN f : IsTimer(f[i], n, event)
    BY <1>4, <2>1 DEF Running
  <2>3. QED
    BY <1>1, <2>2, ScheduledForm
<1>6. \A i \in DOMAIN f : f[i].msg # event => OnItsWay(links, 1, f[i])
  BY <1>4 DEF Mixed, Fine
<1>7. PICK i \in DOMAIN f : f[i].msg # event
  BY <1>4 DEF HasMessage
<1>8. Ordinary(f[i].msg)
  <2>1. f[i].msg \in HopMsg(links)
    BY <1>6, <1>7 DEF OnItsWay
  <2>2. QED
    BY <2>1, HopMsgForm
<1>9. UnderWayIn(f) # {} /\ UnderWayIn(f) \subseteq 1 .. Len(f) /\ Len(f) \in Nat
  BY <1>4, <1>7, <1>8 DEF UnderWayIn, Mixed
<1>10. IsFiniteSet(UnderWayIn(f)) /\ Cardinality(UnderWayIn(f)) \in Nat
  <2>1. 1 \in Int /\ Len(f) \in Int
    BY <1>9
  <2>2. IsFiniteSet(1 .. Len(f))
    BY <2>1, FS_Interval
  <2>3. QED
    BY <1>9, <2>2, FS_Subset, FS_CardinalityType
<1>11. Cardinality(UnderWayIn(f)) # 0
  BY <1>9, <1>10, FS_EmptySet
<1>12. Messages(s) = Cardinality(UnderWayIn(f)) + 0
  BY <1>1, MessagesForm, BlanksKeepNothing
<1>13. QED
  BY <1>3, <1>5, <1>6, <1>10, <1>11, <1>12

-----------------------------------------------------------------------------
(* The programs together.                                                  *)

Fits(p, s, k, links) ==
  /\ p \in {"Txc1", "Txc2"} => PingInv(s, k, links)
  /\ p \in {"Txc3", "Txc4", "Txc5"} => CountInv(s, k, links)
  /\ p = "Txc6" => KeepInv(s, k, links, FALSE)
  /\ p = "Txc7" => KeepInv(s, k, links, TRUE)
  /\ p = "Txc8" => StopInv(s, k, links)
  /\ p = "Txc9" => WaitInv(s, k, links)
  /\ p \in TossPrograms => TossInv(s, k, links)
  /\ p \in {"Txc13", "Txc14", "Txc15", "Txc16Terminal"} =>
       HopsInv(s, k, links, IF k = 0 THEN 0 ELSE 1)
  /\ p = "Txc16" => HopsInv(s, k, links, k)
  /\ p = "Txc13Terminal" => PeriodicInv(s, k, links)

(* The simulation is as the program that runs on the network leaves it. *)
TicTocInv ==
  \E c \in Networks :
    /\ c.program = program
    /\ initialized \in 0 .. Cardinality(UNION c.links)
    /\ Fits(program, sim, initialized, c.links)

LEMMA HandledForm ==
  ASSUME NEW s, NEW n, NEW e
  PROVE  /\ program \in {"Txc1", "Txc2"} => Handled(s, n, e) = Txc1(s, n, e)
         /\ program \in {"Txc3", "Txc4", "Txc5"} =>
              Handled(s, n, e) \subseteq {CountDown(s, n, e, limit) : limit \in Nat \ {0}}
         /\ program = "Txc6" => Handled(s, n, e) = Txc6(s, n, e)
         /\ program = "Txc7" => Handled(s, n, e) = Txc7(s, n, e)
         /\ program = "Txc8" => Handled(s, n, e) = Txc8(s, n, e)
         /\ program = "Txc9" => Handled(s, n, e) = Txc9(s, n, e)
         /\ program \in {"Txc13", "Txc14", "Txc15"} => Handled(s, n, e) = Txc13(s, n, e)
         /\ program = "Txc16" => Handled(s, n, e) = Txc16(s, n, e)
         /\ program = "Txc16Terminal" => Handled(s, n, e) = Txc16Terminal(s, n, e)
         /\ program = "Txc13Terminal" => Handled(s, n, e) = Txc13Terminal(s, n, e)
<1>1. program \in {"Txc1", "Txc2"} => Handled(s, n, e) = Txc1(s, n, e)
  BY DEF Handled, Txc2
<1>2. program \in {"Txc3", "Txc4", "Txc5"} =>
        Handled(s, n, e) \subseteq {CountDown(s, n, e, limit) : limit \in Nat \ {0}}
  <2>1. program = "Txc3" => Handled(s, n, e) = Txc3(s, n, e)
    BY DEF Handled
  <2>2. program \in {"Txc4", "Txc5"} => Handled(s, n, e) = Txc4(s, n, e)
    BY DEF Handled, Txc5
  <2>3. 10 \in Nat \ {0} /\ Limits \subseteq Nat \ {0}
    BY TicTocAssumption
  <2>4. Txc3(s, n, e) \subseteq {CountDown(s, n, e, limit) : limit \in Nat \ {0}}
    BY <2>3 DEF Txc3
  <2>5. Txc4(s, n, e) \subseteq {CountDown(s, n, e, limit) : limit \in Nat \ {0}}
    BY <2>3 DEF Txc4
  <2>6. QED
    BY <2>1, <2>2, <2>4, <2>5
<1>3. program = "Txc6" => Handled(s, n, e) = Txc6(s, n, e)
  BY DEF Handled
<1>4. program = "Txc7" => Handled(s, n, e) = Txc7(s, n, e)
  BY DEF Handled
<1>5. program = "Txc8" => Handled(s, n, e) = Txc8(s, n, e)
  BY DEF Handled
<1>6. program = "Txc9" => Handled(s, n, e) = Txc9(s, n, e)
  BY DEF Handled
<1>7. program \in {"Txc13", "Txc14", "Txc15"} => Handled(s, n, e) = Txc13(s, n, e)
  BY DEF Handled, Txc14, Txc15
<1>8. program = "Txc16" => Handled(s, n, e) = Txc16(s, n, e)
  BY DEF Handled
<1>9. program = "Txc16Terminal" => Handled(s, n, e) = Txc16Terminal(s, n, e)
  BY DEF Handled
<1>10. program = "Txc13Terminal" => Handled(s, n, e) = Txc13Terminal(s, n, e)
  BY DEF Handled
<1>11. QED
  BY <1>1, <1>2, <1>3, <1>4, <1>5, <1>6, <1>7, <1>8, <1>9, <1>10, Zenon

LEMMA TossHandled ==
  ASSUME NEW s, NEW n, NEW e, program \in TossPrograms
  PROVE  \E tossed : /\ tossed \subseteq {send(s, n, to, e.msg) : to \in Neighbours(s, n)}
                     /\ Handled(s, n, e) = TossTo3(s, n, e, tossed)
<1>1. CASE program \in {"Txc10", "Txc11", "Txc12"}
  <2>1. Handled(s, n, e) = TossTo3(s, n, e, Tossed(s, n, e.msg))
    BY <1>1 DEF Handled, Txc10, Txc11, Txc12
  <2>2. Tossed(s, n, e.msg) \subseteq {send(s, n, to, e.msg) : to \in Neighbours(s, n)}
    BY DEF Tossed
  <2>3. QED
    BY <2>1, <2>2
<1>2. CASE program \in {"Txc10Terminal", "Txc11Terminal", "Txc12Terminal"}
  <2>1. Handled(s, n, e) = TossTo3(s, n, e, TossedOn(s, n, {e.from}, e.msg))
    BY <1>2 DEF Handled, Txc10Terminal, Txc11Terminal, Txc12Terminal
  <2>2. TossedOn(s, n, {e.from}, e.msg) \subseteq {send(s, n, to, e.msg) : to \in Neighbours(s, n)}
    <3> DEFINE came == {e.from}
    <3> HIDE DEF came
    <3>1. TossedOn(s, n, came, e.msg) \subseteq {send(s, n, to, e.msg) : to \in Neighbours(s, n)}
      BY TossedForm
    <3>2. QED
      BY <3>1 DEF came
  <2>3. QED
    BY <2>1, <2>2
<1>3. QED
  BY <1>1, <1>2 DEF TossPrograms

(* What Txc13 does with a message. *)
TossedFurther(s, n, e) == UNION {Tossed(s, n, Hopped(m)) : m \in ToForward(s, n, e)}

(* A message is passed on, in either way, to a neighbour. *)
LEMMA PassedOn ==
  ASSUME NEW s, NEW n, NEW e, NEW u,
         u \in TossedFurther(s, n, e) \/ u \in Forwarded(s, n, e)
  PROVE  \E m \in ToForward(s, n, e), o \in Neighbours(s, n) : u = send(s, n, o, Hopped(m))
<1>1. CASE u \in TossedFurther(s, n, e)
  <2>1. PICK m \in ToForward(s, n, e) : u \in Tossed(s, n, Hopped(m))
    BY <1>1 DEF TossedFurther
  <2>2. QED
    BY <2>1 DEF Tossed
<1>2. CASE u \in Forwarded(s, n, e)
  <2>1. PICK m \in ToForward(s, n, e) : u \in TossedOn(s, n, CameThrough(n, e, m), Hopped(m))
    BY <1>2 DEF Forwarded
  <2> DEFINE came == CameThrough(n, e, m)
             h == Hopped(m)
  <2> HIDE DEF came, h
  <2>2. PICK o \in Neighbours(s, n) : u = send(s, n, o, h)
    BY <2>1, TossedForm DEF came, h
  <2>3. QED
    BY <2>1, <2>2 DEF h
<1>3. QED
  BY <1>1, <1>2, Zenon

LEMMA NetworkForm ==
  ASSUME NEW c \in Networks
  PROVE  /\ Counted(c.links)
         /\ c.program \in PairPrograms \cup TossPrograms \cup HopPrograms
         /\ c.program \in PairPrograms =>
              UNION c.links = {tic, toc} /\ Cardinality(UNION c.links) = 2
         /\ c.program \in HopPrograms => IsTree(c.links)
<1> DEFINE N == Cardinality(UNION c.links)
<1>1. /\ c.program \in PairPrograms \cup TossPrograms \cup HopPrograms
      /\ N - 1 \in Nat \ {0} /\ UNION c.links = 0 .. N - 1
      /\ c.program \in PairPrograms => UNION c.links = {tic, toc}
  BY TicTocAssumption
<1>2. c.program \in HopPrograms => IsTree(c.links)
  BY TreeAssumption
<1>3. N \in Nat
  <2>1. 0 \in Int /\ N - 1 \in Int
    BY <1>1
  <2>2. IsFiniteSet(0 .. N - 1)
    BY <2>1, FS_Interval
  <2>3. QED
    BY <1>1, <2>2, FS_CardinalityType
<1>4. c.program \in PairPrograms => N = 2
  <2> HIDE DEF N
  <2>1. SUFFICES ASSUME c.program \in PairPrograms PROVE N = 2
    OBVIOUS
  <2>2. 0 .. N - 1 = {0, 1}
    BY <1>1, <2>1 DEF tic, toc
  <2>3. N - 1 \in 0 .. N - 1
    BY <1>1, <1>3
  <2>4. N - 1 \in {0, 1}
    BY <2>2, <2>3
  <2>5. QED
    BY <1>1, <1>3, <2>4
<1>5. Counted(c.links)
  <2>1. N \in Nat \ {0, 1}
    BY <1>1, <1>3
  <2>2. QED
    BY <1>1, <2>1 DEF Counted
<1>6. QED
  BY <1>1, <1>2, <1>4, <1>5

(* The network stays as it is, and no error ends the simulation. *)
LEMMA FitsForm ==
  ASSUME NEW c \in Networks, NEW s, NEW k \in Nat, Fits(c.program, s, k, c.links)
  PROVE  s.links = c.links /\ Modules(s) = UNION c.links /\ ~ s.thrown
<1>1. \E f, mem : s = Sim(f, c.links, mem)
  <2>1. CASE c.program \in {"Txc1", "Txc2"}
    BY <2>1 DEF Fits, PingInv
  <2>2. CASE c.program \in {"Txc3", "Txc4", "Txc5"}
    BY <2>2 DEF Fits, CountInv
  <2>3. CASE c.program = "Txc6"
    BY <2>3 DEF Fits, KeepInv
  <2>4. CASE c.program = "Txc7"
    BY <2>4 DEF Fits, KeepInv
  <2>5. CASE c.program = "Txc8"
    BY <2>5 DEF Fits, StopInv, AwaitInv
  <2>6. CASE c.program = "Txc9"
    BY <2>6 DEF Fits, WaitInv, AwaitInv
  <2>7. CASE c.program \in TossPrograms
    BY <2>7 DEF Fits, TossInv
  <2>8. CASE c.program \in {"Txc13", "Txc14", "Txc15", "Txc16Terminal"}
    BY <2>8 DEF Fits, HopsInv
  <2>9. CASE c.program = "Txc16"
    BY <2>9 DEF Fits, HopsInv
  <2>10. CASE c.program = "Txc13Terminal"
    BY <2>10 DEF Fits, PeriodicInv
  <2>11. c.program \in PairPrograms \cup TossPrograms \cup HopPrograms
    BY NetworkForm
  <2>12. QED
    BY <2>1, <2>2, <2>3, <2>4, <2>5, <2>6, <2>7, <2>8, <2>9, <2>10, <2>11
      DEF PairPrograms, HopPrograms
<1>2. QED
  BY <1>1 DEF Sim, Modules

(* No program is of two kinds, and only the kind matters. *)
LEMMA FitsWhole ==
  ASSUME NEW p \in PairPrograms \cup TossPrograms \cup HopPrograms, NEW s, NEW k, NEW links
  PROVE  /\ p \in {"Txc1", "Txc2"} => (Fits(p, s, k, links) <=> PingInv(s, k, links))
         /\ p \in {"Txc3", "Txc4", "Txc5"} => (Fits(p, s, k, links) <=> CountInv(s, k, links))
         /\ p = "Txc6" => (Fits(p, s, k, links) <=> KeepInv(s, k, links, FALSE))
         /\ p = "Txc7" => (Fits(p, s, k, links) <=> KeepInv(s, k, links, TRUE))
         /\ p = "Txc8" => (Fits(p, s, k, links) <=> StopInv(s, k, links))
         /\ p = "Txc9" => (Fits(p, s, k, links) <=> WaitInv(s, k, links))
         /\ p \in TossPrograms => (Fits(p, s, k, links) <=> TossInv(s, k, links))
         /\ p \in {"Txc13", "Txc14", "Txc15", "Txc16Terminal"} =>
              (Fits(p, s, k, links) <=> HopsInv(s, k, links, IF k = 0 THEN 0 ELSE 1))
         /\ p = "Txc16" => (Fits(p, s, k, links) <=> HopsInv(s, k, links, k))
         /\ p = "Txc13Terminal" => (Fits(p, s, k, links) <=> PeriodicInv(s, k, links))
<1>1. p \in {"Txc1", "Txc2"} => (Fits(p, s, k, links) <=> PingInv(s, k, links))
  BY DEF Fits, TossPrograms
<1>2. p \in {"Txc3", "Txc4", "Txc5"} => (Fits(p, s, k, links) <=> CountInv(s, k, links))
  BY DEF Fits, TossPrograms
<1>3. p = "Txc6" => (Fits(p, s, k, links) <=> KeepInv(s, k, links, FALSE))
  BY DEF Fits, TossPrograms
<1>4. p = "Txc7" => (Fits(p, s, k, links) <=> KeepInv(s, k, links, TRUE))
  BY DEF Fits, TossPrograms
<1>5. p = "Txc8" => (Fits(p, s, k, links) <=> StopInv(s, k, links))
  BY DEF Fits, TossPrograms
<1>6. p = "Txc9" => (Fits(p, s, k, links) <=> WaitInv(s, k, links))
  BY DEF Fits, TossPrograms
<1>7. p \in TossPrograms => (Fits(p, s, k, links) <=> TossInv(s, k, links))
  BY DEF Fits, TossPrograms
<1>8. p \in {"Txc13", "Txc14", "Txc15", "Txc16Terminal"} =>
        (Fits(p, s, k, links) <=> HopsInv(s, k, links, IF k = 0 THEN 0 ELSE 1))
  BY DEF Fits, TossPrograms
<1>9. p = "Txc16" => (Fits(p, s, k, links) <=> HopsInv(s, k, links, k))
  BY DEF Fits, TossPrograms
<1>10. p = "Txc13Terminal" => (Fits(p, s, k, links) <=> PeriodicInv(s, k, links))
  BY DEF Fits, TossPrograms
<1>11. QED
  BY <1>1, <1>2, <1>3, <1>4, <1>5, <1>6, <1>7, <1>8, <1>9, <1>10, Zenon

LEMMA ProgramCases ==
  ASSUME NEW c \in Networks
  PROVE  \/ c.program \in {"Txc1", "Txc2"}
         \/ c.program \in {"Txc3", "Txc4", "Txc5"}
         \/ c.program = "Txc6" \/ c.program = "Txc7" \/ c.program = "Txc8" \/ c.program = "Txc9"
         \/ c.program \in TossPrograms
         \/ c.program \in {"Txc13", "Txc14", "Txc15", "Txc16Terminal"}
         \/ c.program = "Txc16" \/ c.program = "Txc13Terminal"
BY NetworkForm DEF PairPrograms, HopPrograms

(* The initialization of a module. *)
LEMMA FitsStarts ==
  ASSUME NEW c \in Networks, c.program = program, NEW s, NEW k \in Nat,
         k < Cardinality(UNION c.links), Fits(program, s, k, c.links),
         NEW u \in Handled(s, k, Start)
  PROVE  Fits(program, u, k + 1, c.links)
<1> DEFINE L == c.links
<1>1. /\ Counted(L) /\ program \in PairPrograms \cup TossPrograms \cup HopPrograms
      /\ program \in PairPrograms => UNION L = {tic, toc} /\ k \in {0, 1}
      /\ program \in HopPrograms => IsTree(L)
  BY NetworkForm
<1>2. k + 1 \in Nat /\ k + 1 # 0
  OBVIOUS
<1> HIDE DEF L
<1>3. CASE program \in {"Txc1", "Txc2"}
  <2>1. PingInv(s, k, L) /\ k \in {0, 1}
    BY <1>1, <1>3, FitsWhole DEF L, PairPrograms
  <2>2. u \in Txc1(s, k, Start)
    BY <1>3, HandledForm
  <2>3. PingInv(u, k + 1, L)
    BY <2>1, <2>2, PingStarts
  <2>4. QED
    BY <1>1, <1>3, <2>3, FitsWhole DEF L
<1>4. CASE program \in {"Txc3", "Txc4", "Txc5"}
  <2>1. CountInv(s, k, L) /\ k \in {0, 1}
    BY <1>1, <1>4, FitsWhole DEF L, PairPrograms
  <2>2. PICK limit \in Nat \ {0} : u = CountDown(s, k, Start, limit)
    BY <1>4, HandledForm
  <2>3. CountInv(u, k + 1, L)
    BY <2>1, <2>2, CountStarts
  <2>4. QED
    BY <1>1, <1>4, <2>3, FitsWhole DEF L
<1>5. CASE program = "Txc6"
  <2>1. KeepInv(s, k, L, FALSE) /\ k \in {0, 1}
    BY <1>1, <1>5, FitsWhole DEF L, PairPrograms
  <2>2. u = IF k = tic THEN keep(s, k, tictocMsg, 50) ELSE s
    <3>1. u \in Txc6(s, k, Start)
      BY <1>5, HandledForm
    <3>2. QED
      BY <3>1 DEF Txc6
  <2>3. KeepInv(u, k + 1, L, FALSE)
    BY <2>1, <2>2, KeepStarts
  <2>4. QED
    BY <1>1, <1>5, <2>3, FitsWhole DEF L
<1>6. CASE program = "Txc7"
  <2>1. KeepInv(s, k, L, TRUE) /\ k \in {0, 1}
    BY <1>1, <1>6, FitsWhole DEF L, PairPrograms
  <2>2. u = IF k = tic THEN keep(s, k, tictocMsg, 50) ELSE s
    <3>1. u \in Txc7(s, k, Start)
      BY <1>6, HandledForm
    <3>2. QED
      BY <3>1 DEF Txc6, Txc7
  <2>3. KeepInv(u, k + 1, L, TRUE)
    BY <2>1, <2>2, KeepStarts
  <2>4. QED
    BY <1>1, <1>6, <2>3, FitsWhole DEF L
<1>7. CASE program = "Txc8"
  <2>1. StopInv(s, k, L) /\ k \in {0, 1}
    BY <1>1, <1>7, FitsWhole DEF L, PairPrograms
  <2>2. u \in Txc8(s, k, Start)
    BY <1>7, HandledForm
  <2>3. StopInv(u, k + 1, L)
    BY <2>1, <2>2, StopStarts
  <2>4. QED
    BY <1>1, <1>7, <2>3, FitsWhole DEF L
<1>8. CASE program = "Txc9"
  <2>1. WaitInv(s, k, L) /\ k \in {0, 1} /\ UNION L = {tic, toc}
    BY <1>1, <1>8, FitsWhole DEF L, PairPrograms
  <2>2. u \in Txc9(s, k, Start)
    BY <1>8, HandledForm
  <2>3. WaitInv(u, k + 1, L)
    BY <2>1, <2>2, WaitStarts
  <2>4. QED
    BY <1>1, <1>8, <2>3, FitsWhole DEF L
<1>9. CASE program \in TossPrograms
  <2>1. TossInv(s, k, L)
    BY <1>1, <1>9, FitsWhole DEF L
  <2>2. PICK tossed : Handled(s, k, Start) = TossTo3(s, k, Start, tossed)
    BY <1>9, TossHandled
  <2>3. TossInv(u, k + 1, L)
    BY <2>1, <2>2, TossStarts
  <2>4. QED
    BY <1>1, <1>9, <2>3, FitsWhole DEF L
<1>10. CASE program \in {"Txc13", "Txc14", "Txc15", "Txc16Terminal"}
  <2> DEFINE booted == IF k = 0 THEN 0 ELSE 1
             next   == IF k + 1 = 0 THEN 0 ELSE 1
  <2>1. HopsInv(s, k, L, booted) /\ booted \in Nat /\ IsTree(L)
    BY <1>1, <1>10, FitsWhole DEF L, HopPrograms
  <2>2. /\ k = 0 => u \in Booted(s, k)
        /\ k # 0 => u = s
    <3>1. CASE program = "Txc16Terminal"
      <4>1. u \in Txc16Terminal(s, k, Start)
        BY <3>1, HandledForm
      <4>2. QED
        BY <4>1 DEF Txc16Terminal, Txc16
    <3>2. CASE program # "Txc16Terminal"
      <4>1. u \in Txc13(s, k, Start)
        BY <1>10, <3>2, HandledForm
      <4>2. QED
        BY <4>1 DEF Txc13
    <3>3. QED
      BY <3>1, <3>2
  <2>3. /\ next = 1 /\ (k # 0 => booted = 1) /\ (k = 0 => booted + 1 = 1)
    BY <1>2
  <2>4. k < Cardinality(UNION L)
    BY DEF L
  <2> HIDE DEF booted
  <2>5. HopsInv(u, k + 1, L, 1)
    <3>1. CASE k = 0
      <4>1. HopsInv(u, k + 1, L, booted + 1)
        BY <1>1, <2>1, <2>2, <2>4, <3>1, HopsBoot
      <4>2. QED
        BY <2>3, <3>1, <4>1, Zenon
    <3>2. CASE k # 0
      <4>1. HopsInv(u, k + 1, L, booted)
        BY <1>1, <2>1, <2>2, <2>4, <3>2, HopsStay
      <4>2. QED
        BY <2>3, <3>2, <4>1, Zenon
    <3>3. QED
      BY <3>1, <3>2
  <2>6. HopsInv(u, k + 1, L, next)
    BY <2>3, <2>5, Zenon
  <2>7. QED
    BY <1>1, <1>10, <2>6, FitsWhole DEF L
<1>11. CASE program = "Txc16"
  <2>1. HopsInv(s, k, L, k) /\ IsTree(L)
    BY <1>1, <1>11, FitsWhole DEF L, HopPrograms
  <2>2. u \in Booted(s, k)
    <3>1. u \in Txc16(s, k, Start)
      BY <1>11, HandledForm
    <3>2. QED
      BY <3>1 DEF Txc16
  <2>3. k < Cardinality(UNION L)
    BY DEF L
  <2>4. HopsInv(u, k + 1, L, k + 1)
    BY <1>1, <2>1, <2>2, <2>3, HopsBoot
  <2>5. QED
    BY <1>1, <1>11, <2>4, FitsWhole DEF L
<1>12. CASE program = "Txc13Terminal"
  <2>1. PeriodicInv(s, k, L) /\ IsTree(L)
    BY <1>1, <1>12, FitsWhole DEF L, HopPrograms
  <2>2. u \in Txc13Terminal(s, k, Start)
    BY <1>12, HandledForm
  <2>3. k < Cardinality(UNION L)
    BY DEF L
  <2>4. PeriodicInv(u, k + 1, L)
    BY <1>1, <2>1, <2>2, <2>3, PeriodicStarts
  <2>5. QED
    BY <1>1, <1>12, <2>4, FitsWhole DEF L
<1>13. QED
  BY <1>3, <1>4, <1>5, <1>6, <1>7, <1>8, <1>9, <1>10, <1>11, <1>12, ProgramCases

(* An event is handled, when all modules are initialized. *)
LEMMA FitsHandles ==
  ASSUME NEW c \in Networks, c.program = program, NEW s, NEW k, k = Cardinality(UNION c.links),
         Fits(program, s, k, c.links), s.fes # <<>>,
         NEW u \in Handled(Advanced(s), Head(s.fes).to, Head(s.fes))
  PROVE  Fits(program, u, k, c.links)
<1> DEFINE L == c.links
           r == Advanced(s)
           e == Head(s.fes)
<1>1. /\ Counted(L) /\ program \in PairPrograms \cup TossPrograms \cup HopPrograms
      /\ program \in PairPrograms => UNION L = {tic, toc} /\ k = 2
      /\ program \in HopPrograms => IsTree(L)
  BY NetworkForm
<1>2. k \in Nat /\ k # 0
  BY <1>1 DEF Counted
<1>3. k = Cardinality(UNION L) /\ u \in Handled(r, e.to, e)
  OBVIOUS
<1> HIDE DEF L
<1>4. CASE program \in {"Txc1", "Txc2"}
  <2>1. PingInv(s, k, L)
    BY <1>1, <1>4, FitsWhole DEF L
  <2>2. u \in Txc1(r, e.to, e)
    BY <1>3, <1>4, HandledForm
  <2>3. PingInv(u, k, L)
    BY <1>2, <2>1, <2>2, PingHandles
  <2>4. QED
    BY <1>1, <1>4, <2>3, FitsWhole DEF L
<1>5. CASE program \in {"Txc3", "Txc4", "Txc5"}
  <2>1. CountInv(s, 2, L) /\ k = 2
    BY <1>1, <1>5, FitsWhole DEF L, PairPrograms
  <2>2. PICK limit \in Nat \ {0} : u = CountDown(r, e.to, e, limit)
    BY <1>3, <1>5, HandledForm
  <2>3. CountInv(u, 2, L)
    BY <2>1, <2>2, CountHandles
  <2>4. QED
    BY <1>1, <1>5, <2>1, <2>3, FitsWhole DEF L
<1>6. CASE program = "Txc6"
  <2>1. KeepInv(s, 2, L, FALSE) /\ k = 2
    BY <1>1, <1>6, FitsWhole DEF L, PairPrograms
  <2>2. e # Start
    BY <2>1, KeepEvent
  <2>3. u \in KeepHandled(r, e.to, e, FALSE)
    BY <1>3, <1>6, <2>2, HandledForm, KeepPrograms
  <2>4. KeepInv(u, 2, L, FALSE)
    BY <2>1, <2>3, KeepHandles
  <2>5. QED
    BY <1>1, <1>6, <2>1, <2>4, FitsWhole DEF L
<1>7. CASE program = "Txc7"
  <2>1. KeepInv(s, 2, L, TRUE) /\ k = 2
    BY <1>1, <1>7, FitsWhole DEF L, PairPrograms
  <2>2. e # Start
    BY <2>1, KeepEvent
  <2>3. u \in KeepHandled(r, e.to, e, TRUE)
    BY <1>3, <1>7, <2>2, HandledForm, KeepPrograms
  <2>4. KeepInv(u, 2, L, TRUE)
    BY <2>1, <2>3, KeepHandles
  <2>5. QED
    BY <1>1, <1>7, <2>1, <2>4, FitsWhole DEF L
<1>8. CASE program = "Txc8"
  <2>1. StopInv(s, k, L)
    BY <1>1, <1>8, FitsWhole DEF L
  <2>2. u \in Txc8(r, e.to, e)
    BY <1>3, <1>8, HandledForm
  <2>3. StopInv(u, k, L)
    BY <1>2, <2>1, <2>2, StopHandles
  <2>4. QED
    BY <1>1, <1>8, <2>3, FitsWhole DEF L
<1>9. CASE program = "Txc9"
  <2>1. WaitInv(s, k, L) /\ UNION L = {tic, toc}
    BY <1>1, <1>9, FitsWhole DEF L, PairPrograms
  <2>2. u \in Txc9(r, e.to, e)
    BY <1>3, <1>9, HandledForm
  <2>3. WaitInv(u, k, L)
    BY <1>2, <2>1, <2>2, WaitGoesOn
  <2>4. QED
    BY <1>1, <1>9, <2>3, FitsWhole DEF L
<1>10. CASE program \in TossPrograms
  <2>1. TossInv(s, k, L)
    BY <1>1, <1>10, FitsWhole DEF L
  <2>2. PICK tossed :
          /\ tossed \subseteq {send(r, e.to, to, e.msg) : to \in Neighbours(r, e.to)}
          /\ Handled(r, e.to, e) = TossTo3(r, e.to, e, tossed)
    BY <1>10, TossHandled
  <2>3. TossInv(u, k, L)
    BY <1>2, <1>3, <2>1, <2>2, TossHandles
  <2>4. QED
    BY <1>1, <1>10, <2>3, FitsWhole DEF L
<1>11. CASE program \in {"Txc13", "Txc14", "Txc15", "Txc16Terminal", "Txc16"}
  <2> DEFINE booted == IF program = "Txc16" THEN k ELSE 1
  <2>1. booted \in Nat
    BY <1>2
  <2>2. Fits(program, s, k, L) <=> HopsInv(s, k, L, booted)
    BY <1>1, <1>2, <1>11, FitsWhole
  <2>3. Fits(program, u, k, L) <=> HopsInv(u, k, L, booted)
    BY <1>1, <1>2, <1>11, FitsWhole
  <2>4. HopsInv(s, k, L, booted) /\ IsTree(L)
    BY <1>1, <1>11, <2>2 DEF L, HopPrograms
  <2> HIDE DEF booted
  <2>5. e # Start
    <3>1. PICK f \in Seq(HopEvent(L)) : s = Sim(f, L, Blanks(L))
      BY <2>4 DEF HopsInv, HopsOf
    <3>2. s.fes = f
      BY <3>1 DEF Sim
    <3>3. e \in HopEvent(L)
      BY <3>1, <3>2, RestInTime DEF HopEvent
    <3>4. DOMAIN e = {"in", "from", "to", "msg"} /\ DOMAIN Start = {"msg"} /\ "in" # "msg"
      BY <3>3 DEF HopEvent, Start
    <3>5. QED
      BY <3>4, Zenon
  <2> HIDE DEF r, e
  <2> DEFINE n == e.to
  <2> HIDE DEF n
  <2>6. u \in TossedFurther(r, n, e) \/ u \in Forwarded(r, n, e)
    <3>1. CASE program \in {"Txc13", "Txc14", "Txc15"}
      BY <1>3, <2>5, <3>1, HandledForm DEF Txc13, TossedFurther, n
    <3>2. CASE program = "Txc16"
      BY <1>3, <2>5, <3>2, HandledForm DEF Txc16, n
    <3>3. CASE program = "Txc16Terminal"
      BY <1>3, <2>5, <3>3, HandledForm DEF Txc16, Txc16Terminal, n
    <3>4. QED
      BY <1>11, <3>1, <3>2, <3>3
  <2>7. PICK m \in ToForward(r, n, e), o \in Neighbours(r, n) : u = send(r, n, o, Hopped(m))
    BY <2>6, PassedOn
  <2>8. HopsInv(u, k, L, booted)
    <3>1. HopsInv(s, Cardinality(UNION L), L, booted)
      BY <1>3, <2>4
    <3>2. m \in ToForward(Advanced(s), Head(s.fes).to, Head(s.fes))
      BY <2>7 DEF r, e, n
    <3>3. o \in Neighbours(Advanced(s), Head(s.fes).to)
      BY <2>7 DEF r, e, n
    <3>4. HopsInv(send(Advanced(s), Head(s.fes).to, o, Hopped(m)), Cardinality(UNION L), L, booted)
      BY <1>1, <2>1, <2>4, <3>1, <3>2, <3>3, HopsGoOn
    <3>5. QED
      BY <1>3, <2>7, <3>4 DEF r, e, n
  <2>9. QED
    BY <2>3, <2>8 DEF L
<1>12. CASE program = "Txc13Terminal"
  <2>1. PeriodicInv(s, k, L) /\ IsTree(L)
    BY <1>1, <1>12, FitsWhole DEF L, HopPrograms
  <2>2. u \in Txc13Terminal(r, e.to, e)
    BY <1>3, <1>12, HandledForm
  <2>3. PeriodicInv(u, k, L)
    BY <1>1, <1>3, <2>1, <2>2, PeriodicHandles
  <2>4. QED
    BY <1>1, <1>12, <2>3, FitsWhole DEF L
<1>13. QED
  BY <1>4, <1>5, <1>6, <1>7, <1>8, <1>9, <1>10, <1>11, <1>12, ProgramCases

(* The inductive invariant holds. *)
THEOREM TicTocInvHolds == Spec => []TicTocInv
<1>1. Init => TicTocInv
  <2> SUFFICES ASSUME Init PROVE TicTocInv
    OBVIOUS
  <2>1. PICK c \in Networks :
          /\ program = c.program
          /\ sim = [fes |-> <<>>, links |-> c.links, thrown |-> FALSE,
                    mem |-> [n \in UNION c.links |->
                               [counter |-> 0, tictocMsg |-> NULL, seq |-> 0, message |-> NULL]]]
          /\ initialized = 0
    BY DEF Init
  <2> DEFINE L == c.links
  <2>2. sim = Sim(<<>>, L, Blanks(L))
    BY <2>1 DEF Sim, Blanks, Blank
  <2> HIDE DEF L
  <2>3. PingInv(sim, 0, L) /\ StopInv(sim, 0, L) /\ WaitInv(sim, 0, L) /\ TossInv(sim, 0, L)
    BY <2>2 DEF PingInv, StopInv, WaitInv, TossInv
  <2>4. program \in PairPrograms => UNION L = {tic, toc}
    BY <2>1, NetworkForm DEF L
  <2>5. program \in PairPrograms => CountInv(sim, 0, L)
    <3>1. SUFFICES ASSUME UNION L = {tic, toc} PROVE CountInv(sim, 0, L)
      BY <2>4
    <3> DEFINE c0 == [n \in {tic, toc} |-> 0]
    <3>2. c0 \in Counters
      BY DEF Counters
    <3>3. Counting(c0) = Blanks(L)
      BY <3>1 DEF Counting, Blanks, Blank
    <3> HIDE DEF c0
    <3>4. sim = Sim(<<>>, L, Counting(c0))
      BY <2>2, <3>3
    <3>5. QED
      BY <3>2, <3>4 DEF CountInv
  <2>6. program \in PairPrograms => KeepInv(sim, 0, L, FALSE) /\ KeepInv(sim, 0, L, TRUE)
    <3>1. SUFFICES ASSUME UNION L = {tic, toc}
                   PROVE  KeepInv(sim, 0, L, FALSE) /\ KeepInv(sim, 0, L, TRUE)
      BY <2>4
    <3>2. Keeping({}) = Blanks(L)
      BY <3>1 DEF Keeping, Blanks, Blank
    <3>3. sim = Sim(<<>>, L, Keeping({}))
      BY <2>2, <3>2
    <3>4. QED
      BY <3>3 DEF KeepInv
  <2>7. HopsInv(sim, 0, L, 0)
    <3>1. HopsOf(<<>>, 0, L, 0)
      BY DEF HopsOf
    <3>2. QED
      BY <2>2, <3>1 DEF HopsInv
  <2>8. Counted(L)
    BY <2>1, NetworkForm DEF L
  <2>9. PeriodicInv(sim, 0, L)
    <3>1. Mixed(<<>>, L)
      BY DEF Mixed
    <3>2. \A n \in UNION L : Running(<<>>, n) <=> n < 0
      BY <2>8 DEF Running, Counted
    <3>3. PeriodicOf(<<>>, 0, L)
      BY <3>1, <3>2 DEF PeriodicOf
    <3>4. QED
      BY <2>2, <3>3 DEF PeriodicInv
  <2>10. (IF 0 = 0 THEN 0 ELSE 1) = 0
    OBVIOUS
  <2>11. Fits(program, sim, 0, L)
    BY <2>3, <2>5, <2>6, <2>7, <2>9, <2>10 DEF Fits, PairPrograms
  <2>12. 0 \in 0 .. Cardinality(UNION L)
    BY <2>8 DEF Counted
  <2>13. QED
    BY <2>1, <2>11, <2>12 DEF TicTocInv, L
<1>2. TicTocInv /\ [Next]_vars => TicTocInv'
  <2> SUFFICES ASSUME TicTocInv, [Next]_vars PROVE TicTocInv'
    OBVIOUS
  <2>1. PICK c \in Networks :
          /\ c.program = program
          /\ initialized \in 0 .. Cardinality(UNION c.links)
          /\ Fits(program, sim, initialized, c.links)
    BY DEF TicTocInv
  <2> DEFINE N == Cardinality(UNION c.links)
  <2>2. N \in Nat /\ initialized \in Nat /\ initialized <= N
    <3>1. N \in Nat
      BY NetworkForm DEF Counted
    <3>2. QED
      BY <2>1, <3>1
  <2>3. Modules(sim) = UNION c.links
    BY <2>1, <2>2, FitsForm
  <2>4. CASE initialize
    <3>1. PICK u : u = sim'
      OBVIOUS
    <3>2. /\ initialized # N /\ initialized' = initialized + 1 /\ program' = program
          /\ u \in Handled(sim, initialized, Start)
      BY <2>3, <2>4, <3>1 DEF initialize, AllInitialized
    <3>3. initialized < N
      BY <2>2, <3>2
    <3>4. Fits(program, u, initialized + 1, c.links)
      BY <2>1, <2>2, <3>2, <3>3, FitsStarts
    <3>5. initialized' \in 0 .. N
      BY <2>2, <3>2, <3>3
    <3>6. QED
      BY <2>1, <3>1, <3>2, <3>4, <3>5 DEF TicTocInv
  <2>5. CASE handleMessage
    <3>1. PICK u : u = sim'
      OBVIOUS
    <3>2. /\ initialized = N /\ initialized' = initialized /\ program' = program
          /\ sim.fes # <<>>
          /\ u \in Handled(Advanced(sim), Head(sim.fes).to, Head(sim.fes))
      BY <2>3, <2>5, <3>1 DEF handleMessage, AllInitialized
    <3>3. Fits(program, u, initialized, c.links)
      BY <2>1, <3>2, FitsHandles
    <3>4. QED
      BY <2>1, <3>1, <3>2, <3>3 DEF TicTocInv
  <2>6. CASE UNCHANGED vars
    BY <2>1, <2>6 DEF TicTocInv, vars
  <2>7. QED
    BY <2>4, <2>5, <2>6 DEF Next
<1>3. QED
  BY <1>1, <1>2, PTL DEF Spec

(* What the invariant says when all modules are initialized. *)
LEMMA FitsKeeps ==
  ASSUME NEW c \in Networks, c.program = program,
         initialized = Cardinality(UNION c.links), Fits(program, sim, initialized, c.links)
  PROVE  NothingIsLostOrDoubled
<1> DEFINE L == c.links
           k == initialized
           Timed == {n \in Modules(sim) : Scheduled(sim, n, event)}
<1>1. /\ Counted(L) /\ program \in PairPrograms \cup TossPrograms \cup HopPrograms
      /\ program \in PairPrograms => UNION L = {tic, toc} /\ k = 2
      /\ program \in HopPrograms => IsTree(L)
  BY NetworkForm
<1>2. k \in Nat \ {0} /\ k = Cardinality(UNION L)
  BY <1>1 DEF Counted
<1>3. Modules(sim) = UNION L
  BY <1>2, FitsForm
<1> HIDE DEF L
<1>4. CASE program \in {"Txc1", "Txc2"}
  <2>1. PingInv(sim, k, L)
    BY <1>1, <1>4, FitsWhole DEF L
  <2>2. Messages(sim) = 1
    BY <1>2, <2>1, PingKeeps
  <2>3. ~ sim.thrown
    BY <1>2, <2>1 DEF PingInv, Sim
  <2>4. QED
    BY <1>4, <2>2, <2>3 DEF NothingIsLostOrDoubled
<1>5. CASE program \in {"Txc3", "Txc4", "Txc5"}
  <2>1. CountInv(sim, 2, L) /\ UNION L = {tic, toc}
    BY <1>1, <1>5, FitsWhole DEF L, PairPrograms
  <2>2. /\ ~ sim.thrown
        /\ Messages(sim) = IF \E n \in Modules(sim) : sim.mem[n].counter = 0 THEN 0 ELSE 1
    BY <2>1, CountKeeps
  <2>3. QED
    BY <1>5, <2>2 DEF NothingIsLostOrDoubled
<1>6. CASE program = "Txc6"
  <2>1. KeepInv(sim, 2, L, FALSE) /\ UNION L = {tic, toc}
    BY <1>1, <1>6, FitsWhole DEF L, PairPrograms
  <2>2. /\ ~ sim.thrown
        /\ Timed = {n \in Modules(sim) : sim.mem[n].tictocMsg # NULL}
        /\ Messages(sim) = 1
    BY <2>1, KeepKeeps
  <2>3. QED
    BY <1>6, <2>2 DEF NothingIsLostOrDoubled
<1>7. CASE program = "Txc7"
  <2>1. KeepInv(sim, 2, L, TRUE) /\ UNION L = {tic, toc}
    BY <1>1, <1>7, FitsWhole DEF L, PairPrograms
  <2>2. /\ ~ sim.thrown
        /\ Timed = {n \in Modules(sim) : sim.mem[n].tictocMsg # NULL}
        /\ Messages(sim) <= 1
    BY <2>1, KeepKeeps
  <2>3. QED
    BY <1>7, <2>2 DEF NothingIsLostOrDoubled
<1>8. CASE program \in {"Txc8", "Txc9"}
  <2>1. ~ sim.thrown /\ Messages(sim) <= 1 /\ Scheduled(sim, tic, timeoutEvent)
    <3>1. CASE program = "Txc8"
      <4>1. StopInv(sim, k, L)
        BY <1>1, <3>1, FitsWhole DEF L
      <4>2. QED
        BY <1>2, <4>1, StopKeeps
    <3>2. CASE program = "Txc9"
      <4>1. WaitInv(sim, k, L) /\ UNION L = {tic, toc}
        BY <1>1, <3>2, FitsWhole DEF L, PairPrograms
      <4>2. QED
        BY <1>2, <4>1, WaitKeeps
    <3>3. QED
      BY <1>8, <3>1, <3>2
  <2>2. QED
    BY <1>8, <2>1 DEF NothingIsLostOrDoubled
<1>9. CASE program \in TossPrograms
  <2>1. TossInv(sim, k, L)
    BY <1>1, <1>9, FitsWhole DEF L
  <2>2. ~ sim.thrown /\ Messages(sim) <= 1
    BY <2>1, TossKeeps
  <2>3. QED
    BY <1>9, <2>2 DEF NothingIsLostOrDoubled, TossPrograms
<1>10. CASE program \in {"Txc13", "Txc14", "Txc15", "Txc16Terminal", "Txc16"}
  <2> DEFINE booted == IF program = "Txc16" THEN k ELSE 1
  <2>1. booted \in Nat
    BY <1>2
  <2>2. HopsInv(sim, k, L, booted)
    BY <1>1, <1>2, <1>10, FitsWhole DEF L
  <2> HIDE DEF booted
  <2>3. ~ sim.thrown /\ Messages(sim) = booted
    BY <2>1, <2>2, HopsKeep
  <2>4. QED
    BY <1>2, <1>3, <1>10, <2>3 DEF NothingIsLostOrDoubled, booted
<1>11. CASE program = "Txc13Terminal"
  <2>1. PeriodicInv(sim, k, L)
    BY <1>1, <1>11, FitsWhole DEF L
  <2>2. ~ sim.thrown /\ Messages(sim) >= 1 /\ Timed = Modules(sim)
    BY <1>1, <1>2, <2>1, PeriodicKeeps
  <2>3. QED
    BY <1>11, <2>2 DEF NothingIsLostOrDoubled
<1>12. QED
  BY <1>4, <1>5, <1>6, <1>7, <1>8, <1>9, <1>10, <1>11, ProgramCases

(* Only the last programs count hops. *)
CountsHops(e) == "hopCount" \in DOMAIN e.msg

LEMMA NoHopCount ==
  /\ "hopCount" \notin DOMAIN tictocMsg /\ "hopCount" \notin DOMAIN event
  /\ "hopCount" \notin DOMAIN timeoutEvent /\ "hopCount" \notin DOMAIN ack
  /\ "hopCount" \notin DOMAIN ticMessage
  /\ \A q : "hopCount" \notin DOMAIN Numbered(q)
BY DEF tictocMsg, event, timeoutEvent, ack, ticMessage, Numbered

LEMMA OneWithoutHops ==
  ASSUME NEW links, NEW mem, NEW t, NEW a, NEW b, NEW m, NEW s, "hopCount" \notin DOMAIN m,
         s = Sim(<<>>, links, mem) \/ s = Sim(<<Event(t, a, b, m)>>, links, mem)
  PROVE  \A i \in DOMAIN s.fes : ~ CountsHops(s.fes[i])
<1>1. CASE s = Sim(<<>>, links, mem)
  BY <1>1 DEF Sim
<1>2. CASE s = Sim(<<Event(t, a, b, m)>>, links, mem)
  <2>1. s.fes = <<Event(t, a, b, m)>>
    BY <1>2 DEF Sim
  <2>2. ~ CountsHops(Event(t, a, b, m))
    BY EventForm DEF CountsHops
  <2>3. QED
    BY <2>1, <2>2
<1>3. QED
  BY <1>1, <1>2

LEMMA AwaitWithoutHops ==
  ASSUME NEW links, NEW mem, NEW msg, NEW answer, NEW s, AwaitInv(s, links, mem, msg, answer),
         "hopCount" \notin DOMAIN msg, "hopCount" \notin DOMAIN answer
  PROVE  \A i \in DOMAIN s.fes : ~ CountsHops(s.fes[i])
<1>1. PICK f \in {Sending(msg), Answering(answer), Waiting} : s.fes = f
  BY DEF AwaitInv, Sim
<1>2. \A t : ~ CountsHops(Timer(t))
  BY EventForm, NoHopCount DEF CountsHops, Timer
<1>3. \A t, a, b : ~ CountsHops(Event(t, a, b, msg)) /\ ~ CountsHops(Event(t, a, b, answer))
  BY EventForm DEF CountsHops
<1>4. QED
  BY <1>1, <1>2, <1>3 DEF Sending, Answering, Waiting

LEMMA FitsWithoutHops ==
  ASSUME NEW c \in Networks, NEW s, NEW k \in Nat, Fits(c.program, s, k, c.links),
         c.program \notin HopPrograms
  PROVE  \A i \in DOMAIN s.fes : ~ CountsHops(s.fes[i])
<1> DEFINE L == c.links
           p == c.program
           Goal == \A i \in DOMAIN s.fes : ~ CountsHops(s.fes[i])
<1>1. p \in PairPrograms \cup TossPrograms \cup HopPrograms /\ Fits(p, s, k, L)
  BY NetworkForm
<1>2. \/ p \in {"Txc1", "Txc2"} \/ p \in {"Txc3", "Txc4", "Txc5"}
      \/ p = "Txc6" \/ p = "Txc7" \/ p = "Txc8" \/ p = "Txc9" \/ p \in TossPrograms
  BY ProgramCases DEF HopPrograms
<1> HIDE DEF L, p
<1>3. CASE p \in {"Txc1", "Txc2"}
  <2>1. PingInv(s, k, L)
    BY <1>1, <1>3, FitsWhole
  <2>2. PICK t, a, b : \/ s = Sim(<<>>, L, Blanks(L))
                       \/ s = Sim(<<Event(t, a, b, tictocMsg)>>, L, Blanks(L))
    BY <2>1 DEF PingInv
  <2>3. QED
    BY <2>2, NoHopCount, OneWithoutHops
<1>4. CASE p \in {"Txc3", "Txc4", "Txc5"}
  <2>1. CountInv(s, k, L)
    BY <1>1, <1>4, FitsWhole
  <2>2. PICK t, a, b, mem : \/ s = Sim(<<>>, L, mem)
                            \/ s = Sim(<<Event(t, a, b, tictocMsg)>>, L, mem)
    BY <2>1 DEF CountInv
  <2>3. QED
    BY <2>2, NoHopCount, OneWithoutHops
<1>5. CASE p = "Txc6" \/ p = "Txc7"
  <2>1. KeepInv(s, k, L, FALSE) \/ KeepInv(s, k, L, TRUE)
    BY <1>1, <1>5, FitsWhole
  <2>2. PICK m \in {event, tictocMsg} :
          \E t, a, b, H : \/ s = Sim(<<>>, L, Keeping(H))
                         \/ s = Sim(<<Event(t, a, b, m)>>, L, Keeping(H))
    BY <2>1 DEF KeepInv
  <2>3. "hopCount" \notin DOMAIN m
    BY <2>2, NoHopCount
  <2>4. PICK t, a, b, H : \/ s = Sim(<<>>, L, Keeping(H))
                          \/ s = Sim(<<Event(t, a, b, m)>>, L, Keeping(H))
    BY <2>2
  <2>5. QED
    BY <2>3, <2>4, OneWithoutHops
<1>6. CASE p = "Txc8"
  <2>1. StopInv(s, k, L)
    BY <1>1, <1>6, FitsWhole
  <2>2. CASE s = Sim(<<>>, L, Blanks(L))
    BY <2>2, NoHopCount, OneWithoutHops
  <2>3. CASE AwaitInv(s, L, Blanks(L), tictocMsg, tictocMsg)
    BY <2>3, NoHopCount, AwaitWithoutHops
  <2>4. QED
    BY <2>1, <2>2, <2>3 DEF StopInv
<1>7. CASE p = "Txc9"
  <2>1. WaitInv(s, k, L)
    BY <1>1, <1>7, FitsWhole
  <2>2. CASE s = Sim(<<>>, L, Blanks(L))
    BY <2>2, NoHopCount, OneWithoutHops
  <2>3. CASE \E q \in Nat \ {0} : AwaitInv(s, L, Numbering(q), Numbered(q), ack)
    <3>1. PICK q \in Nat \ {0} : AwaitInv(s, L, Numbering(q), Numbered(q), ack)
      BY <2>3
    <3>2. "hopCount" \notin DOMAIN Numbered(q) /\ "hopCount" \notin DOMAIN ack
      BY NoHopCount
    <3>3. QED
      BY <3>1, <3>2, AwaitWithoutHops
  <2>4. QED
    BY <2>1, <2>2, <2>3 DEF WaitInv
<1>8. CASE p \in TossPrograms
  <2>1. TossInv(s, k, L)
    BY <1>1, <1>8, FitsWhole
  <2>2. PICK t, a, b : \/ s = Sim(<<>>, L, Blanks(L))
                       \/ s = Sim(<<Event(t, a, b, ticMessage)>>, L, Blanks(L))
    BY <2>1 DEF TossInv
  <2>3. QED
    BY <2>2, NoHopCount, OneWithoutHops
<1>9. QED
  BY <1>2, <1>3, <1>4, <1>5, <1>6, <1>7, <1>8

LEMMA FitsCounts ==
  ASSUME NEW c \in Networks, NEW s, NEW k \in Nat, Fits(c.program, s, k, c.links),
         c.program \in HopPrograms
  PROVE  \A i \in DOMAIN s.fes : CountsHops(s.fes[i]) =>
           OnItsWay(c.links, IF c.program = "Txc13Terminal" THEN 1 ELSE 0, s.fes[i])
<1> DEFINE L == c.links
           p == c.program
           x == IF p = "Txc13Terminal" THEN 1 ELSE 0
<1>1. p \in PairPrograms \cup TossPrograms \cup HopPrograms /\ Fits(p, s, k, L)
  BY NetworkForm
<1>2. /\ p # "Txc13Terminal" => x = 0
      /\ p = "Txc13Terminal" => x = 1
  OBVIOUS
<1> HIDE DEF L, x
<1>3. CASE p # "Txc13Terminal"
  <2>1. p \in {"Txc13", "Txc14", "Txc15", "Txc16Terminal"} \/ p = "Txc16"
    BY <1>3 DEF HopPrograms
  <2> HIDE DEF p
  <2>2. PICK booted \in Nat : HopsInv(s, k, L, booted)
    <3>1. CASE p = "Txc16"
      BY <1>1, <3>1, FitsWhole
    <3>2. CASE p # "Txc16"
      <4>1. HopsInv(s, k, L, IF k = 0 THEN 0 ELSE 1)
        BY <1>1, <2>1, <3>2, FitsWhole
      <4>2. (IF k = 0 THEN 0 ELSE 1) \in Nat
        OBVIOUS
      <4>3. QED
        BY <4>1, <4>2
    <3>3. QED
      BY <3>1, <3>2
  <2>3. \A i \in DOMAIN s.fes : OnItsWay(L, 0, s.fes[i])
    BY <2>2, HopsKeep
  <2>4. \A i \in DOMAIN s.fes : OnItsWay(L, x, s.fes[i])
    BY <1>2, <1>3, <2>3
  <2>5. QED
    BY <2>4 DEF L, p, x
<1>4. CASE p = "Txc13Terminal"
  <2> HIDE DEF p
  <2>1. PICK f : s = Sim(f, L, Blanks(L)) /\ PeriodicOf(f, k, L)
    BY <1>1, <1>4, FitsWhole DEF PeriodicInv
  <2>2. s.fes = f
    BY <2>1 DEF Sim
  <2>3. \A i \in DOMAIN f : Fine(L, f[i])
    BY <2>1 DEF PeriodicOf, Mixed
  <2>4. \A i \in DOMAIN f : CountsHops(f[i]) => OnItsWay(L, 1, f[i])
    <3> TAKE i \in DOMAIN f
    <3>1. CountsHops(f[i]) => f[i].msg # event
      BY NoHopCount DEF CountsHops
    <3>2. QED
      BY <2>3, <3>1 DEF Fine
  <2>5. \A i \in DOMAIN s.fes : CountsHops(s.fes[i]) => OnItsWay(L, x, s.fes[i])
    BY <1>2, <1>4, <2>2, <2>4, Zenon
  <2>6. QED
    BY <2>5 DEF L, p, x
<1>5. QED
  BY <1>3, <1>4

(* No tutorial program loses or doubles a message unless it means to, and  *)
(* none schedules a timer that is running.                                 *)
THEOREM NothingIsLostOrDoubledHolds == Spec => []NothingIsLostOrDoubled
<1>1. TicTocInv => NothingIsLostOrDoubled
  <2> SUFFICES ASSUME TicTocInv PROVE NothingIsLostOrDoubled
    OBVIOUS
  <2>1. PICK c \in Networks :
          /\ c.program = program
          /\ initialized \in 0 .. Cardinality(UNION c.links)
          /\ Fits(program, sim, initialized, c.links)
    BY DEF TicTocInv
  <2>2. initialized \in Nat
    BY <2>1, NetworkForm DEF Counted
  <2>3. Modules(sim) = UNION c.links /\ ~ sim.thrown
    BY <2>1, <2>2, FitsForm
  <2>4. CASE AllInitialized
    BY <2>1, <2>3, <2>4, FitsKeeps DEF AllInitialized
  <2>5. CASE ~ AllInitialized
    BY <2>3, <2>5 DEF NothingIsLostOrDoubled
  <2>6. QED
    BY <2>4, <2>5
<1>2. QED
  BY <1>1, TicTocInvHolds, PTL

(* The hop count of every message fits the way it has come, and no message *)
(* has passed its destination.                                             *)
THEOREM HopsAreCountedHolds == Spec => []HopsAreCounted
<1>1. TicTocInv => HopsAreCounted
  <2> SUFFICES ASSUME TicTocInv PROVE HopsAreCounted
    OBVIOUS
  <2>1. PICK c \in Networks :
          /\ c.program = program
          /\ initialized \in 0 .. Cardinality(UNION c.links)
          /\ Fits(program, sim, initialized, c.links)
    BY DEF TicTocInv
  <2>2. initialized \in Nat
    BY <2>1, NetworkForm DEF Counted
  <2>3. sim.links = c.links
    BY <2>1, <2>2, FitsForm
  <2> DEFINE L == sim.links
             x == IF program = "Txc13Terminal" THEN 1 ELSE 0
  <2>4. x \in Nat
    OBVIOUS
  <2>5. ASSUME NEW e \in Range(sim.fes), "hopCount" \in DOMAIN e.msg
        PROVE  LET m        == e.msg
                   way(a,b) == Distance(sim.links, a, b)
                   more     == LinksCrossed(e) - way(m.source, e.to)
               IN /\ more \in Nat /\ more % 2 = 0
                  /\ way(m.source, e.from) # way(m.source, m.destination) + way(m.destination, e.from)
    <3> PICK i \in DOMAIN sim.fes : e = sim.fes[i]
      BY <2>5 DEF Range
    <3>1. CountsHops(sim.fes[i])
      BY <2>5 DEF CountsHops
    <3>2. c.program \in HopPrograms
      BY <2>1, <2>2, <3>1, FitsWithoutHops
    <3>3. OnItsWay(L, x, e)
      BY <2>1, <2>2, <2>3, <3>1, <3>2, FitsCounts
    <3>4. IsTree(L)
      BY <2>3, <3>2, NetworkForm
    <3>5. LinksCrossed(e) = e.msg.hopCount + IF e.from = e.to THEN 0 ELSE x
      BY DEF LinksCrossed, IsSelfMessage
    <3> HIDE DEF x, L
    <3>6. QED
      BY <2>4, <3>3, <3>4, <3>5, JourneyCounted DEF L
  <2>6. QED
    BY <2>5 DEF HopsAreCounted
<1>2. QED
  BY <1>1, TicTocInvHolds, PTL

-----------------------------------------------------------------------------
(* Stop and wait keeps its promise.                                        *)

(* What is heard of the simulations of Txc9. *)
LEMMA WaitHeard ==
  ASSUME NEW links, NEW q, NEW msg
  PROVE  /\ Sim(Sending(msg), links, Numbering(q)).mem[tic].seq = q
         /\ Sim(Answering(msg), links, Numbering(q)).mem[tic].seq = q
         /\ Sim(Waiting, links, Numbering(q)).mem[tic].seq = q
         /\ ~ UnderWay(Sim(Sending(msg), links, Numbering(q)), tic)
         /\ UnderWay(Sim(Answering(msg), links, Numbering(q)), tic)
         /\ ~ UnderWay(Sim(Waiting, links, Numbering(q)), tic)
<1>1. \A f : Sim(f, links, Numbering(q)).mem[tic].seq = q
  BY DEF Sim, Numbering
<1>2. \A f : UnderWay(Sim(f, links, Numbering(q)), tic)
               <=> \E i \in DOMAIN f : f[i].to = tic /\ f[i].from # tic
  BY DEF UnderWay, Sim, Range, IsSelfMessage
<1>3. toc # tic
  BY DEF tic, toc
<1>4. \A t, a, b, m : Event(t, a, b, m).from = a /\ Event(t, a, b, m).to = b
  BY EventForm
<1>5. ~ \E i \in DOMAIN Sending(msg) : Sending(msg)[i].to = tic /\ Sending(msg)[i].from # tic
  BY <1>3, <1>4 DEF Sending, Timer
<1>6. \E i \in DOMAIN Answering(msg) : Answering(msg)[i].to = tic /\ Answering(msg)[i].from # tic
  <2>1. 1 \in DOMAIN Answering(msg) /\ Answering(msg)[1] = Event(1, toc, tic, msg)
    BY DEF Answering
  <2>2. QED
    BY <1>3, <1>4, <2>1
<1>7. ~ \E i \in DOMAIN Waiting : Waiting[i].to = tic /\ Waiting[i].from # tic
  BY <1>4 DEF Waiting, Timer
<1>8. QED
  BY <1>1, <1>2, <1>5, <1>6, <1>7

LEMMA TicIsThere ==
  ASSUME NEW links, Counted(links)
  PROVE  tic \in UNION links
<1>1. PICK N \in Nat \ {0, 1} : UNION links = 0 .. N - 1
  BY DEF Counted
<1>2. tic \in 0 .. N - 1
  BY DEF tic
<1>3. QED
  BY <1>1, <1>2, Zenon

(* Only Txc9 numbers its messages. *)
LEMMA NumbersOnly ==
  ASSUME NEW c \in Networks, NEW s, NEW k \in Nat, Fits(c.program, s, k, c.links),
         c.program # "Txc9"
  PROVE  s.mem[tic].seq = 0
<1> DEFINE L == c.links
           p == c.program
<1>1. p \in PairPrograms \cup TossPrograms \cup HopPrograms /\ Fits(p, s, k, L) /\ Counted(L)
  BY NetworkForm
<1>2. \/ p \in {"Txc1", "Txc2"} \/ p \in {"Txc3", "Txc4", "Txc5"}
      \/ p = "Txc6" \/ p = "Txc7" \/ p = "Txc8" \/ p \in TossPrograms
      \/ p \in {"Txc13", "Txc14", "Txc15", "Txc16Terminal"}
      \/ p = "Txc16" \/ p = "Txc13Terminal"
  BY ProgramCases
<1> HIDE DEF L, p
<1>3. \A f : Sim(f, L, Blanks(L)).mem[tic].seq = 0
  <2>1. 0 \in UNION L
    BY <1>1, TicIsThere DEF tic
  <2>2. Blanks(L)[0].seq = 0
    BY <2>1 DEF Blanks, Blank
  <2>3. QED
    BY <2>2 DEF Sim, tic
<1>4. \A f, d : Sim(f, L, Counting(d)).mem[tic].seq = 0
  BY DEF Sim, Counting, Blank
<1>5. \A f, H : Sim(f, L, Keeping(H)).mem[tic].seq = 0
  BY DEF Sim, Keeping, Blank
<1>6. CASE p \in {"Txc1", "Txc2"}
  <2>1. PingInv(s, k, L)
    BY <1>1, <1>6, FitsWhole
  <2>2. QED
    BY <1>3, <2>1 DEF PingInv
<1>7. CASE p \in {"Txc3", "Txc4", "Txc5"}
  <2>1. CountInv(s, k, L)
    BY <1>1, <1>7, FitsWhole
  <2>2. QED
    BY <1>4, <2>1 DEF CountInv
<1>8. CASE p = "Txc6" \/ p = "Txc7"
  <2>1. KeepInv(s, k, L, FALSE) \/ KeepInv(s, k, L, TRUE)
    BY <1>1, <1>8, FitsWhole
  <2>2. QED
    BY <1>5, <2>1 DEF KeepInv
<1>9. CASE p = "Txc8"
  <2>1. StopInv(s, k, L)
    BY <1>1, <1>9, FitsWhole
  <2>2. QED
    BY <1>3, <2>1 DEF StopInv, AwaitInv
<1>10. CASE p \in TossPrograms
  <2>1. TossInv(s, k, L)
    BY <1>1, <1>10, FitsWhole
  <2>2. QED
    BY <1>3, <2>1 DEF TossInv
<1>11. CASE p \in {"Txc13", "Txc14", "Txc15", "Txc16Terminal"} \/ p = "Txc16"
  <2>1. HopsInv(s, k, L, k) \/ HopsInv(s, k, L, IF k = 0 THEN 0 ELSE 1)
    BY <1>1, <1>11, FitsWhole
  <2>2. QED
    BY <1>3, <2>1 DEF HopsInv
<1>12. CASE p = "Txc13Terminal"
  <2>1. PeriodicInv(s, k, L)
    BY <1>1, <1>12, FitsWhole
  <2>2. QED
    BY <1>3, <2>1 DEF PeriodicInv
<1>13. QED
  BY <1>2, <1>6, <1>7, <1>8, <1>9, <1>10, <1>11, <1>12

(* Every message of Txc9 is heard and answered once and in order, each     *)
(* before the next is made, however many are lost: the steps of the        *)
(* programs are steps of the exchange or do not touch it.                  *)
THEOREM ExchangeIsKept == Spec => Service!Init /\ [][Service!Next]_(Service!vars)
<1>1. Init => Service!Init
  <2> SUFFICES ASSUME Init PROVE Service!Init
    OBVIOUS
  <2>1. PICK c \in Networks :
          sim = [fes |-> <<>>, links |-> c.links, thrown |-> FALSE,
                 mem |-> [n \in UNION c.links |->
                            [counter |-> 0, tictocMsg |-> NULL, seq |-> 0, message |-> NULL]]]
    BY DEF Init
  <2>2. tic \in UNION c.links
    BY <2>1, NetworkForm, TicIsThere
  <2>3. sim.mem[tic].seq = 0
    BY <2>1, <2>2
  <2>4. ~ UnderWay(sim, tic)
    BY <2>1 DEF UnderWay, Range
  <2>5. QED
    BY <2>3, <2>4 DEF Service!Init
<1>2. TicTocInv /\ TicTocInv' /\ [Next]_vars => [Service!Next]_(Service!vars)
  <2> SUFFICES ASSUME TicTocInv, TicTocInv', [Next]_vars PROVE [Service!Next]_(Service!vars)
    OBVIOUS
  <2>1. PICK c \in Networks :
          /\ c.program = program
          /\ initialized \in 0 .. Cardinality(UNION c.links)
          /\ Fits(program, sim, initialized, c.links)
    BY DEF TicTocInv
  <2>2. PICK d \in Networks :
          /\ d.program = program'
          /\ initialized' \in 0 .. Cardinality(UNION d.links)
          /\ Fits(program', sim', initialized', d.links)
    BY DEF TicTocInv
  <2>3. initialized \in Nat /\ initialized' \in Nat
    BY <2>1, <2>2, NetworkForm DEF Counted
  <2>4. program' = program
    BY DEF Next, initialize, handleMessage, vars
  <2>5. CASE program # "Txc9"
    <3>1. sim.mem[tic].seq = 0
      BY <2>1, <2>3, <2>5, NumbersOnly
    <3>2. PICK u : u = sim'
      OBVIOUS
    <3>3. PICK i : i = initialized'
      OBVIOUS
    <3>4. Fits(d.program, u, i, d.links) /\ d.program # "Txc9" /\ i \in Nat
      BY <2>2, <2>3, <2>4, <2>5, <3>2, <3>3
    <3>5. u.mem[tic].seq = 0
      BY <3>4, NumbersOnly
    <3>6. sim'.mem[tic].seq = 0
      BY <3>2, <3>5
    <3>7. QED
      BY <2>4, <2>5, <3>1, <3>6 DEF Service!vars
  <2> DEFINE L == c.links
             k == initialized
  <2>6. CASE program = "Txc9"
    <3>1. WaitInv(sim, k, L) /\ UNION L = {tic, toc} /\ Modules(sim) = UNION L
          /\ Cardinality(UNION L) = 2
      BY <2>1, <2>3, <2>6, NetworkForm, FitsForm DEF Fits, PairPrograms
    <3> HIDE DEF L
    <3>2. PICK u : u = sim'
      OBVIOUS
    <3>3. ASSUME ~ UnderWay(sim, tic), ~ UnderWay(u, tic), sim.mem[tic].seq = u.mem[tic].seq
          PROVE  UNCHANGED Service!vars
      <4>1. ~ UnderWay(sim', tic) /\ sim'.mem[tic].seq = sim.mem[tic].seq
        BY <3>2, <3>3
      <4>2. QED
        BY <3>3, <4>1 DEF Service!vars
    <3>4. CASE initialize /\ k = 0
      <4>1. sim = Sim(<<>>, L, Blanks(L))
        BY <3>1, <3>4 DEF WaitInv
      <4>2. u = sendCopyOf(generateNewMessage(sim))
        <5>1. u \in Txc9(sim, 0, Start)
          BY <2>6, <3>2, <3>4, HandledForm DEF initialize
        <5>2. QED
          BY <5>1 DEF Txc9, Tic9, tic
      <4>3. u = Sim(Sending(Numbered(1)), L, Numbering(1))
        BY <3>1, <4>1, <4>2, Generated, CopySent
      <4>4. ~ UnderWay(u, tic) /\ u.mem[tic].seq = 1
        BY <4>3, WaitHeard
      <4>5. sim.mem[tic].seq = 0
        <5>1. Blanks(L)[tic].seq = 0
          BY <3>1 DEF Blanks, Blank
        <5>2. QED
          BY <4>1, <5>1 DEF Sim
      <4>6. ~ UnderWay(sim', tic) /\ sim'.mem[tic].seq = 1
        BY <3>2, <4>4
      <4>7. Service!Begin
        BY <4>5, <4>6 DEF Service!Begin
      <4>8. QED
        BY <4>7 DEF Service!Next
    <3>5. CASE initialize /\ k # 0
      <4>1. k = 1
        BY <2>1, <2>3, <3>1, <3>5 DEF initialize, AllInitialized, L
      <4>2. u \in Txc9(sim, 1, Start)
        BY <2>6, <3>2, <3>5, <4>1, HandledForm DEF initialize
      <4>3. u = sim
        BY <4>2 DEF Txc9, Toc9, tic
      <4>4. UNCHANGED Service!vars
        BY <2>4, <3>2, <4>3 DEF Service!vars, UnderWay
      <4>5. QED
        BY <4>4
    <3>6. CASE handleMessage
      <4>1. k = 2 /\ sim.fes # <<>>
        BY <3>1, <3>6 DEF handleMessage, AllInitialized
      <4>2. PICK q \in Nat \ {0} : AwaitInv(sim, L, Numbering(q), Numbered(q), ack)
        BY <3>1, <4>1 DEF WaitInv
      <4>3. u \in Txc9(Advanced(sim), Head(sim.fes).to, Head(sim.fes))
        BY <2>6, <3>2, <3>6, HandledForm DEF handleMessage
      <4>4. CASE /\ sim = Sim(Sending(Numbered(q)), L, Numbering(q))
                 /\ u = Sim(Waiting, L, Numbering(q))
        BY <3>3, <4>4, WaitHeard
      <4>5. CASE /\ sim = Sim(Sending(Numbered(q)), L, Numbering(q))
                 /\ u = Sim(Answering(ack), L, Numbering(q))
        <5>1. /\ ~ UnderWay(sim, tic) /\ sim.mem[tic].seq = q
              /\ UnderWay(u, tic) /\ u.mem[tic].seq = q
          BY <4>5, WaitHeard
        <5>2. UnderWay(sim', tic) /\ sim'.mem[tic].seq = q
          BY <3>2, <5>1
        <5>3. Service!Hear
          BY <2>4, <2>6, <4>2, <5>1, <5>2 DEF Service!Hear
        <5>4. QED
          BY <5>3 DEF Service!Next
      <4>6. CASE /\ sim = Sim(Answering(ack), L, Numbering(q))
                 /\ u = Sim(Sending(Numbered(q + 1)), L, Numbering(q + 1))
        <5>1. /\ UnderWay(sim, tic) /\ sim.mem[tic].seq = q
              /\ ~ UnderWay(u, tic) /\ u.mem[tic].seq = q + 1
          BY <4>6, WaitHeard
        <5>2. ~ UnderWay(sim', tic) /\ sim'.mem[tic].seq = q + 1
          BY <3>2, <5>1
        <5>3. Head(sim.fes).msg = ack
          <6>1. Head(sim.fes) = Event(1, toc, tic, ack)
            BY <4>6, AwaitAdvances
          <6>2. QED
            BY <6>1, EventForm
        <5>4. sim.mem[tic].seq < MaxSeq
          BY <2>6, <3>6, <5>3 DEF handleMessage, WithinBounds
        <5>5. Service!Answer
          BY <2>4, <2>6, <5>1, <5>2, <5>4 DEF Service!Answer
        <5>6. QED
          BY <5>5 DEF Service!Next
      <4>7. CASE /\ sim = Sim(Waiting, L, Numbering(q))
                 /\ u = Sim(Sending(Numbered(q)), L, Numbering(q))
        BY <3>3, <4>7, WaitHeard
      <4>8. \/ /\ sim = Sim(Sending(Numbered(q)), L, Numbering(q))
               /\ u = Sim(Waiting, L, Numbering(q))
            \/ /\ sim = Sim(Sending(Numbered(q)), L, Numbering(q))
               /\ u = Sim(Answering(ack), L, Numbering(q))
            \/ /\ sim = Sim(Answering(ack), L, Numbering(q))
               /\ u = Sim(Sending(Numbered(q + 1)), L, Numbering(q + 1))
            \/ /\ sim = Sim(Waiting, L, Numbering(q))
               /\ u = Sim(Sending(Numbered(q)), L, Numbering(q))
        BY <3>1, <4>2, <4>3, WaitHandles
      <4>9. QED
        BY <4>4, <4>5, <4>6, <4>7, <4>8
    <3>7. CASE UNCHANGED vars
      BY <3>7 DEF vars, Service!vars, UnderWay
    <3>8. QED
      BY <3>4, <3>5, <3>6, <3>7 DEF Next
  <2>7. QED
    BY <2>5, <2>6
<1>3. QED
  BY <1>1, <1>2, TicTocInvHolds, PTL DEF Spec
=============================================================================
