----------------------------- MODULE Preemption -----------------------------
(***************************************************************************)
(* A ring port in byte time: SchedulerPort, with the arithmetic of         *)
(* Scheduler::getExpressSendTime in place of its nondeterministic test     *)
(* (fits), and two interfaces that take as long as their frames are.       *)
(*                                                                         *)
(* The code cuts no frame.  When an express frame interrupts a normal one, *)
(* it computes the moment at which the fragment in progress, its checksum  *)
(* and the interframe gap would be out, sends the express frame with that  *)
(* delay on the express interface, and adds what the cut costs to the      *)
(* message size it judges the next cut by.  The normal interface never     *)
(* learns of it.                                                           *)
(*                                                                         *)
(* Time is counted in bytes at the line rate; arrivals fall on the         *)
(* boundary of a byte (the code rounds down to one) and the products with  *)
(* datarate are exact.  Time slots and the limiter are off, the default.   *)
(***************************************************************************)
EXTENDS SchedulerPort

ASSUME PreemptionAssumption ==
  /\ schedID \in {"A", "B"}
  /\ schedmode # "TOKENS"
  /\ framebyteLimit = -1
  /\ ~ TimeslotsOn
  /\ FragmentMin = 128

VARIABLES
  messageSize,  \* sendingStatus.messageSize
  elapsed,      \* bytes since sendingStatus.sendingTime (bytesAlreadySent)
  normLeft,     \* bytes until the normal interface has finished frame and gap
  expLeft,      \* the same for the express interface, with the computed delay
  rest,         \* bytes of the attached frame that no finished fragment holds
  cut,          \* the last cut: data bytes in front of it and bytes behind it
  waited        \* how long an express frame has waited in a queue although the
                \* express interface is free

line  == <<messageSize, elapsed, normLeft, expLeft, rest, cut, waited>>
tvars == <<vars, line>>

PREAMBLE == 8   \* with the start delimiter
FCS      == 4
IFG      == 12  \* INTERFRAME_GAP_BITS / 8

OnLine(len) == PREAMBLE + len + IFG

(* What one more express frame adds to the frame it interrupts. *)
preemptionDelay(len) == FCS + IFG + PREAMBLE + len + IFG + PREAMBLE

-----------------------------------------------------------------------------
(* getExpressSendTime of a frame long enough, sent bytes after the sending *)
(* time: the bytes to wait until the express frame may start.  Only asked  *)
(* for when the frame can be cut.  The third branch of the code waits for  *)
(* one more gap at an aligned position past the minimum; its first one     *)
(* takes all of these.                                                     *)

bytesAlreadySentData(sent) == IF sent - 12 - IFG < 0 THEN 0 ELSE sent - 12 - IFG
bytesNotYetSent(sent)      == messageSize - sent + 12

(* Mutant: the gap behind the first fragment is forgotten. *)
MutWaitWithoutGap(sent, another) ==
  LET misaligned == bytesAlreadySentData(sent) % 8
  IN IF another \/ (sent >= 72 /\ misaligned = 0) THEN 0
     ELSE IF misaligned # 0 /\ sent >= 72 THEN 8 - misaligned
     ELSE IF misaligned # 0 THEN 72 - sent + (8 - misaligned)
     ELSE 72 - sent

expressWait(sent, another) ==
  LET misaligned == bytesAlreadySentData(sent) % 8
  IN IF another \/ (sent >= 72 + IFG /\ misaligned = 0) THEN 0
     ELSE IF misaligned # 0 /\ sent >= 72 + IFG THEN 8 - misaligned + IFG
     ELSE IF misaligned # 0 THEN 72 + IFG - sent + (8 - misaligned)
     ELSE 72 + IFG - sent

Fits(sent) == bytesNotYetSent(sent) >= 64

-----------------------------------------------------------------------------
Interrupts == StartsExpress /\ sched'.transmitLock

ExpressWaits ==
  /\ \E side \in Side : sched.queues[<<"EXPRESS", side>>] # <<>>
  /\ ~ sched.transmitLockExp

(* What the sends of one handler do to the line; sent is the byte count at *)
(* the moment of the processing.  A cut is counted as the fragment that    *)
(* ends at the moment the express frame starts: its data is all that is    *)
(* out by then but preamble, checksum and gap.  An express frame that      *)
(* follows another makes no new fragment.                                  *)
Line(sent) ==
  LET norm    == Last(sched'.out)
      express == Last(sched'.outExp)
      another == sched'.nextUpAnotherExp
      wait    == IF Interrupts THEN expressWait(sent, another) ELSE 0
      data    == sent + wait - PREAMBLE - FCS - IFG
      divides == Interrupts /\ ~ another
  IN /\ elapsed'     = IF Starts THEN 0 ELSE sent
     /\ messageSize' = IF Starts THEN norm.len
                       ELSE IF Interrupts THEN messageSize + preemptionDelay(express.len)
                       ELSE messageSize
     /\ normLeft'    = IF Starts THEN OnLine(norm.len) ELSE normLeft
     /\ expLeft'     = IF StartsExpress THEN wait + OnLine(express.len) ELSE expLeft
     /\ rest'        = IF Starts THEN norm.len ELSE IF divides THEN rest - data ELSE rest
     /\ cut'         = IF divides THEN [data |-> data, rest |-> rest - data] ELSE cut
     /\ waited'      = IF ExpressWaits' THEN waited ELSE 0

TInit ==
  /\ Init
  /\ messageSize = 0 /\ elapsed = 0
  /\ normLeft = 0 /\ expLeft = 0
  /\ rest = 0 /\ waited = 0
  /\ cut = [data |-> 0, rest |-> 0]

Arrive(kind, side) == EnqueueFrame(kind, side) /\ UNCHANGED line

Process    == ProcessSelfMessage(Fits(elapsed)) /\ Line(elapsed)
NormalIdle == InterfaceIdle(Fits(elapsed)) /\ Line(elapsed)

(* With updateSendtime: the byte count starts again at the express frame's *)
(* end.                                                                    *)
ExpressIdle == ExpressInterfaceIdle(Fits(0)) /\ Line(0)

NormalFinished  == normLeft = 0 /\ Transmitted /\ UNCHANGED line
ExpressFinished == expLeft = 0 /\ ExpressTransmitted /\ UNCHANGED line

(* A byte's time passes, unless something is due now. *)
Tick ==
  /\ InstantIsOver
  /\ sched.out # <<>> \/ sched.outExp # <<>>
  /\ sched.out # <<>> => normLeft > 0
  /\ sched.outExp # <<>> => expLeft > 0
  /\ elapsed'  = elapsed + 1
  /\ normLeft' = IF sched.out # <<>> THEN normLeft - 1 ELSE normLeft
  /\ expLeft'  = IF sched.outExp # <<>> THEN expLeft - 1 ELSE expLeft
  /\ waited'   = IF ExpressWaits THEN waited + 1 ELSE 0
  /\ UNCHANGED <<vars, messageSize, rest, cut>>

TNext ==
  \/ \E kind \in FrameKind, side \in Side : Arrive(kind, side)
  \/ Process
  \/ NormalIdle
  \/ ExpressIdle
  \/ NormalFinished
  \/ ExpressFinished
  \/ Tick

TSpec == TInit /\ [][TNext]_tvars

-----------------------------------------------------------------------------
TypeOKLine ==
  /\ messageSize \in Nat /\ elapsed \in Nat
  /\ normLeft \in Nat /\ expLeft \in Nat
  /\ waited \in Nat
  /\ rest \in Int
  /\ cut \in [data : Int, rest : Int]

(* An express frame never waits longer for a free express interface than   *)
(* the longest frame that must not be cut takes with its gap, and once it  *)
(* is admitted it starts after the time of the shortest fragment at the    *)
(* latest (getExpressSendTime with the wake-ups around it).                *)
ExpressIsServedInTime ==
  /\ waited <= OnLine(FragmentMin - 1)
  /\ sched.outExp # <<>> => expLeft <= 72 + IFG + OnLine(Head(sched.outExp).len)

(* Every cut leaves at least 60 data bytes in front of it, so that the     *)
(* first fragment is a whole Ethernet frame with its checksum.             *)
FrontIsLongEnough == cut.data = 0 \/ cut.data >= 60

(* No fragment is smaller than the smallest Ethernet frame of 64 bytes     *)
(* (020_Vorgehen_Methoden.lyx 1240-1241): neither the one in front of a    *)
(* cut with its checksum nor what is left behind, which has the frame's    *)
(* own.  getExpressSendTime asks for 64 bytes behind the present moment    *)
(* and then moves the cut, by up to 84 bytes, without asking again.        *)
NoFragmentIsTooSmall == cut.data > 0 => cut.data + FCS >= 64 /\ cut.rest >= 64
=============================================================================
