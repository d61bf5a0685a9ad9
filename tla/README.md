# PA14_wlan_1: a verification project for the HSR switch with preemption

PA14_wlan_1 (`src/Workspace/PA14_wlan_1`) is an OMNeT++ model of an HSR ring. Every
end node has two ring ports, a switch, a CPU, and a duplicate list before each
way out. Frames are of one of three classes (express, high, low); an express frame
interrupts a normal frame that is being sent; low traffic of the node's own CPU
can be limited by tokens and high traffic confined to time slots.

The program is a simulator, so its "concurrency" is that of a discrete event
simulation: one event handler runs at a time, to its end, and the hazards lie in
the order of the events: a frame arriving between the end of a transmission and
its notification, an express frame between two others, a timer in the same instant
as either.

Beside it the repository holds `ethernetHSR`, the project PA14 was made from: the same
ring without preemption, on full-duplex Ethernet interfaces that lose frames, with
RedBoxes that couple rings and a module that keeps the account of every frame; and
two copies of the OMNeT++ tutorial.

Paths below are relative to `src/Workspace/PA14_wlan_1/`; `eHSR:` is
`src/Workspace/ethernetHSR/`, `lyx:` is `src/doc_nachvorlage/020_Vorgehen_Methoden.lyx`
(both from the repository root).

## 1. Inventory

| Part (code) | State | Operations | Talks to | Correct when |
|---|---|---|---|---|
| **Scheduler** (`src/switch/Scheduler`, `SendingStatus`), three per switch | six queues, two transmit locks, `nextUpAnotherExp`, side of ZIPPER, byte container, two "already notified" flags, the attached frame | `enqueueMessage`, `processQueues`, `loopQueues`, `processOneQueue`, `getExpressSendTime`, `sendExpressFrame`, `containerHasEnoughBytes`, `subtractFromByteContainer`, `timeslotIsValid`, `unlock`, `unlockExp`, `resetNotified…` | called by the switch; sends frames to the interfaces; schedules self messages on the switch | classes are served in order; a port never hands over a second frame and never stays locked; only a frame that can be cut is interrupted; no queue is forgotten; the limiter neither throws nor is exceeded |
| **Duplicate list** (`src/duplicateDetection`), six per node: normal and express, for A, B and the CPU | circular array of identities with pointer; a second, unbounded map that is compared with it | `handleMessage` (`checkFrame`, `limitCheck`, `searchMessage`, `addMessage`) | sits between a scheduler's gate and the interface or CPU | a frame leaves a port once as long as the array is long enough; the two stores never contradict each other |
| **End node switch** (`src/switch/EndNodeSwitch`, `HsrSwitch`) | the three schedulers | `handleMessage`: routes a frame by arrival gate and addresses; dispatches self messages 0/`i`/`o` and idle notifications | everything in the node | a frame is copied to the right ports and taken off the ring by its source |
| **Network interface** (`src/mac/NetworkInterfaceCard`), normal and express per ring port | a queue, the end-of-gap message | `handleMessage`: send, wait for the interframe gap, announce that it is idle | duplicate list, propagation delay, the scheduler through a `SchedulerSelfMessage` | announces the end of every transmission once |
| Propagation delay (`src/util`) | none | delays a frame, passes notifications at once | the line | keeps the order |
| CPU (`src/cpu`) | the patterns of `config.xml`, one self message for each, counters, a message count shared by all | `loadXMLFile`, `scheduleMessage`, `handleMessage`: generates frames and draws the next interval; hears frames and has them logged | the switch's CPU gates, the delay logger | sends just what the file says, keeps to its load, logs each frame once |
| Packer (`src/packer`) | none | builds and takes apart the nested frame; two modules that add and remove the HSR tag | all | packing and unpacking are inverse; no cast fails |
| Delay logger (`src/delayLogger`) | the delays logged, by priority | `addDelay` | CPU | each frame is logged once |
| Node table (`src/nodeTable`) | a list nobody fills (`pushNode` is empty) | none that is called with effect | none | nothing to say |
| RedBox switch (`src/switch/RedBoxSwitch`) | as the end node switch | throws "not yet implemented" when it is initialised | none | nothing to say |
| Networks and configuration (`*.ned`, `omnetpp.ini`) | none | wiring, parameters | all | source of the constants' values |
| Messages (`src/messages`) | none | generated from `.msg` | packer | records with a length |
| eHSR: interface (`ModifiedEtherMACBase`) | a queue whose head is in transmission, a transmit state, two timers | `processFrameFromUpperLayer`, `handleEndTxPeriod`, `handleEndIFGPeriod`, `startFrameTransmission`, bit errors | duplicate list, switch, channel | never sleeps on a queue, never sends a duplicate twice, survives a queue of duplicates |
| eHSR: duplicate list | as above, asked by the interface when a transmission starts | `checkFrame`, `addMessage` | interface, CPU | as above |
| eHSR: switches (`EndNodeSwitch`, `RedBoxSwitch`) | a sequence number | `handleMessage`: which ports get a copy | CPU, interfaces | every receiver is reached although a copy is lost; the copies die out |
| eHSR: forward delay | frames stored | `handleMessage` | switch, interface | a frame comes out once |
| eHSR: TestControl | list of frames sent, list of frames received | `registerSEND`, `registerRECV`, `finish` | CPU | the account is the truth |
| eHSR: CPU | as the CPU above | as above, without priorities | switch, TestControl | as above |
| Tutorials (`src/TicTocTutorialTerminal`, `src/Workspace/tictocIDE`) | each module a few variables; the event set | `initialize`, `handleMessage` of 16 programs, 5 of which differ in the other copy | each other | no message is lost or doubled by mistake; stop and wait delivers in order; hops are counted |

The hard behaviours, each at its line, are the `hazards` of `PROJECT.json`. The ones
the core is built around:

* a queue is looked at only when an event says so (a new frame, a notification, a
  timer). The two flags `notifiedToken` and `notifiedTimeslot` suppress timers:
  if a flag outlives its timer, a frame waits for ever;
* locks are set by the scheduler and cleared by messages of two interfaces, which
  may arrive in any order and in the same instant;
* `nextUpAnotherExp` and the attached frame survive the situation they describe:
  nothing resets the attached frame, and the flag switches off the checks that make
  preemption safe;
* six queues are tried in one processing with the lock changing between them, and
  the limiter is asked and charged separately;
* the limiter and ZIPPER change state when they are *asked*, not when a frame is sent;
* one handler of the switch serves the events of three schedulers and four interfaces;
* in eHSR nothing but a forgetful list stops a broadcast, an interface asks its list only
  when a transmission starts, and a frame may be lost on a line or in front of a full queue;
* the load generators compute times from loads by rounding, schedule the next frame before
  the present one and stop by comparing times;
* stop and wait in the tutorial has a timeout but no numbers on its answers.

## 2. Modules

| Module | What it is |
|---|---|
| `Scheduler` | the methods of class Scheduler as operators from scheduler state to scheduler state; no variables, so that a port, and later a node, composes whole handlers from them |
| `SchedulerPort` | one output port: a scheduler, the handlers of the switch that call it, its two interfaces, time. Constants choose the port (A, B or C), the mode, the limit, time slots |
| `Preemption` | a ring port in byte time: `SchedulerPort` with the arithmetic of `getExpressSendTime` and interfaces that take as long as their frames are |
| `MCSchedulerPort`, `MCPreemption` | kinds of frames for TLC |
| `MCLimiter` | a port with a history variable, for a statement of the documentation the code does not keep |
| `Switch` | the whole switch of an end node: three schedulers behind one dispatcher; each is shown to be a `SchedulerPort` |
| `DupWindow` | abstract: a duplicate list is a window over the identities forwarded last |
| `DupList` | the duplicate list as coded; implements `DupWindow` |
| `MCDupList` | a small list with the history of what was forwarded |
| `HsrService` | abstract: what the ring promises the processors of its nodes |
| `HsrRing` | the nodes of a ring: routing, duplicate lists, wiring; implements `HsrService` |
| `MCHsrRing`, `MCSwitch` | kinds of traffic for a ring of three and for a switch |
| `Packer` | the nested frames and what the packer does with them; operators only |
| `Cpu` | load generators, receivers and delay logger, with a clock |
| `MCCpu` | patterns for TLC, and the comparison with `EtherCpu` |
| `EtherPacker`, `EtherCpu`, `EtherMac` | the predecessor's frames, load generator and interface with its duplicate list, as operators |
| `EtherService` | abstract: what a network of the predecessor promises its processors |
| `EtherNet` | that network: nodes, RedBoxes, cables that lose frames, TestControl; implements `EtherService` |
| `MCEtherNet` | a ring of two nodes; two rings coupled by four RedBoxes |
| `FutureEvents` | the simulation kernel as the tutorials use it: event set, sending, scheduling, cancelling |
| `TicTocPair`, `TicTocNet` | the handlers of the tutorial's programs on two modules and on a network, as operators |
| `Exchange` | abstract: what stop and wait promises |
| `TicToc`, `MCTicToc` | a run of one of these programs; its networks |
| `SchedulerPort_proofs` | lemmas: what each method does to the scheduler's state; theorems about a port: locks, wake-ups, limiter; order of service |
| `Preemption_proofs`, `DupList_proofs`, `HsrRing_proofs` | theorems about the port in byte time, the duplicate list and the ring |
| `Switch_proofs`, `Cpu_proofs` | theorems about the switch as a composition of ports, and about processors, frames and delay logger |
| `EtherNet_proofs` | theorems about the predecessor's network |
| `TicToc_proofs` | theorems about the tutorial programs |

### Scheduler and SchedulerPort

The state of a scheduler is one record whose fields carry the source's names; the
header of the module explains each. An operator is a method and keeps its guards, its
early returns and its order. `containerHasEnoughBytes` both answers and changes
state, so it appears as an answer (`containerHasEnoughBytes`), an effect
(`CreditContainer`) and the value they share (`Credited`). `processOneQueue` evaluates
it first for every front frame, as the code does, also when nothing can be sent.

`getExpressSendTime` depends on bytes, line rate and time. Here it is reduced to the
one thing the control flow reads: zero or not. Short frames are refused; otherwise
a nondeterministic `fits` says whether 64 bytes of the frame are left
(`bytesNotYetSent >= 64`; each other branch gives a nonzero time). `Preemption`
puts the arithmetic back.

Each action of `SchedulerPort` is a whole handler of `EndNodeSwitch::handleMessage`:

| Action | Code |
|---|---|
| `EnqueueFrame` | a data frame is routed here: `enqueueMessage` and `scheduleProcessQueues('A')` and so on, which schedules a message of type 0 at the present time; `pending` counts these |
| `ProcessSelfMessage` | that message is delivered: `processQueues` |
| `TokenSelfMessage`, `TimeslotSelfMessage` | `o` and `i` messages: reset the flag, then `processQueues` |
| `InterfaceIdle`, `ExpressInterfaceIdle` | the notification of an interface: `unlock` or `unlockExp`, then `processQueues` |
| `Transmitted`, `ExpressTransmitted` | the interface's end-of-gap message: the frame is gone; if the interface's own queue is empty it announces that it is idle |
| `PhaseBoundary`, `TokenTime`, `CreditGrows` | time: the slot changes, the timer's moment comes, one more byte of credit |

`schedID = "C"` is the port to the CPU. It ignores locks, slots and limiter
(`Scheduler.cc` 550), and nobody announces the end of its transmissions.

Events of one instant are handled in any order; the simulator takes them in the
order they were scheduled. That is a superset of its behaviours, so what holds here
holds there. Time advances only when the instant's events are done
(`InstantIsOver`), except that the end of a transmission may fall anywhere.

### Preemption

The simulation never fragments a frame. When an express frame interrupts a normal
one, `getExpressSendTime` computes the moment at which the fragment in progress would
be out; the express frame is sent with that delay on an interface of its own; what the
cut costs is added to `messageSize`, the number the next cut is judged by. The normal
interface goes on as before.

`Preemption` counts time in bytes at the line rate. Seven variables are added:

| Variable | Code |
|---|---|
| `messageSize` | `sendingStatus->messageSize`: set by `attachFrame`, increased by `addPreemptionDelay` |
| `elapsed` | bytes since `sendingStatus->sendingTime`: restarts in `attachFrame` and in `updateSendtime`, when an express frame has ended |
| `normLeft`, `expLeft` | what the interfaces still have to do: preamble, frame, gap, and the delay of a delayed send |
| `rest`, `cut`, `waited` | history: the bytes behind the last cut, that cut, how long an express frame has waited although the express interface is free |

Each handler of `SchedulerPort` appears with `fits` replaced by `Fits(elapsed)` and with
`Line`, what its sends do to these variables. `Tick` is a byte's time; it is enabled only
when nothing is due. `expressWait` is the arithmetic of the four branches. A fragment's
data is what is out at the cut except preamble, checksum and gap; an express frame that
follows another (`nextUpAnotherExp`) makes no new fragment. `preemptionDelay` of the
frame's own tag is 0 throughout: the code adds to a copy that it drops.

### DupList

An identity is a pair of source address and sequence number. The array, pointer and
search order are the code's; the map is reduced to whether a key was seen (its count
matters only against the limit 1). The map's key is *coarser* than the array's: 16 bits
of the sequence number, and an address number whose computation shifts ints by 32 and
40 bits (`MessageList.cc` 23), which C++ leaves undefined. So that number is an arbitrary
function, `MacToLonglong`; the properties hold for each, also for one that maps all
addresses to the same number, as the run has it.

### HsrRing

The ring takes each part at the level its own module has established. A frame is a
record of source, sequence number, destination and class; the group address and an
address nobody has are two special destinations.

| State or action | Code |
|---|---|
| `generateOnePacket` | the processor sends a frame with the next sequence number towards its switch |
| `handleFrame` with `Route` | `EndNodeSwitch::handleMessage` with a data frame: which ports get a copy. The order of the tests is the code's: the sender takes out its own frames first, the receiver its own next |
| `waiting` | the queues of all ports: a copy waits until its port takes it, in any order (order and locks are `SchedulerPort`) |
| `Transmit`, `Deliver` | a copy's turn: its duplicate list does not know the frame, remembers it and passes it to the line, or to the processor |
| `Discard` | its duplicate list knows it and deletes it; on a ring port the lane is `stuck`, since the interface never reports the end of a transmission it never saw |
| `list` | six windows per node, what `DupList` is shown to implement |
| `line` | interface, cable and propagation delay, as a bag: a copy on an express interface overtakes one on a normal interface |
| `Neighbour` | the wiring of the networks: port A to port B of the next node, all of them closed |

`HsrService` says what the processors get out of it, without copies, directions or
ports: a frame is heard by members of its `Audience` only, and by none of them again
among the `ListSize` frames of its class heard last. The refinement maps `recent` to
the two lists of the processor's port.

### Switch

`SchedulerPort` takes it for granted that the events of a port are its own. `Switch` has
the dispatcher that makes them so. A self message carries the name of a scheduler and a
type; a report of an interface is known by the gate it comes in at.

| Action | Code |
|---|---|
| `handleFrame` | `EndNodeSwitch::handleMessage` with a data frame: `Destinations` are the queues it is put in, in the order of the code's tests; `scheduleProcessQueues` sends a message for each scheduler that got it |
| `SelfMessage` | types 0, `o`, `i`: reset the flag, `processQueues` of the scheduler named |
| `InterfaceReports` | a `SchedulerSelfMessage` at one of four gates: `unlock` or `unlockExp`, `processQueues` |
| `Transmitted`, `PhaseBoundary`, `TokenTime`, `CreditGrows` | interfaces and time as in `SchedulerPort`, but one clock for the three ports |

`PortA`, `PortB` and `PortC` are three instances of `SchedulerPort` whose variables are parts of
the switch's; the switch calls their `processQueues`, for the CPU's scheduler heeds no lock.
`PortsAreSchedulerPorts` is the refinement: whatever the switch does, each of its three
ports takes a step of `SchedulerPort` or none. What is proved of ports is true of the
ports of a switch.

### Packer and Cpu

`Packer` keeps what the nesting depends on: class, length, the type fields, and what
is encapsulated. A tag that is missing is `NULL`, a cast that fails is `BadCast`. What the
code does with lengths is kept as it is: the VLAN tag adds none.

`Cpu` counts time in ticks of 8/2^20 s; then a load in Mbit/s gives an interval by one
division, as in the code. The texts of the XML elements are left out, but not what the code
makes of them: an unknown word is `"ERROR"`, an element that is missing has its default,
two fields are narrowed to 16 bits. `initialize` chooses one of the configurations and
schedules a self message for each pattern, which is an error for a start before time 0; `SelfMessage` is the handler's first half, with
the early return of a single frame and the load generator's draw (`Intervals`) and check of
the stop time (`Again`); `Receive` is its second half, with the three cases in which the
delay logger is told, whose three statistics keep what the library reports of them: how many
delays, the least and the greatest; `Tick` moves time when nothing is due. The network between processors is
external: it brings a frame to whom `HsrRing` shows it to be for, each once, within `MaxDelay`.

### The predecessor: EtherMac and EtherNet

`EtherMac` has the handlers of an interface as operators on its state: `transmitState`, the
queue whose head stays in it until the end of transmission, and its duplicate list. An
exception of the code is the state `error`. `AfterDuplicates` is the loop that takes out
duplicates before a transmission starts.

| Action of `EtherNet` | Code |
|---|---|
| `SelfMessage` | `CPU::handleMessage` with a self message, `TestControl::registerSEND` |
| `handleMessage` | a frame leaves the cable: the receiving interface, `ForwardDelay`, then the switch's `handleMessage` (`FromCpu`, `FromRingPort`, `RedBoxSwitch`), which passes copies to interfaces and, through a duplicate list, to the CPU and `registerRECV` |
| `EndTx`, `EndIFG` | the timers of an interface |
| `BitError` | `processReceivedDataFrame` drops a frame with a bit error |
| `finish` | `TestControl::finish`, when no event is left |

Cables are a function `Peer` between interfaces, so that rings, coupled rings and open
lines are values of a constant. The frames on cables are a bag: the forward delay may depend
on a frame's length, so frames arrive in any order. The account of
TestControl is compiled only with `CHECK_FRAME_DELIVERY`, whose definition the source has
commented out; the model is of a build with it.

### The tutorials

A simulation is a record: the event set (a sequence ordered by time and, within an instant,
by insertion), the links, the modules' variables. `FutureEvents` has `send`, `scheduleAt`,
`cancelEvent` with the kernel's error for a message scheduled twice. A handler is an operator from a
simulation, a module and an event to the set of simulations it may lead to; `uniform`,
`exponential` and the random gate are that set's alternatives. `TicToc` initialises the modules in
order, then handles the first event of the event set, always.

The first nine programs run on `tic` and `toc`, the others on the tree of six modules of
their `.ned`, but for `Txc16` and the terminal copy's `Txc13`, in which every module sends:
they run on three in a row. Where the two copies of a program differ, the terminal
copy has a name of its own.

## 3. Runs

All configurations check with 2 workers in seconds to about two minutes.

| Run | Question | Bounds |
|---|---|---|
| `dup_list` | Does the circular array implement the window, and never contradict the map? Are repeats further apart than the list is long? | 2 addresses the map confuses, 3 sequence numbers (2 of them congruent), 3 slots, 6 forwards: the pointer goes round twice and 6 identities compete for 3 slots |
| `ring_port` | Locks, preemption and order of service of a ring port under all interleavings; wake-ups, limiter and liveness | FCFS, with slots and a limit of 3 bytes; 3 frames of 7 kinds (every class, both origins, long or short). CPU frames of 1, 2 and 4 bytes: the container is full, short, empty and never full enough. A frame can be held back by each of slot, limit and lock; an express frame can interrupt and a second one follow in the chain, or a normal frame wait for both |
| `preemption` | How long does an express frame wait? What does a cut leave in front of it? Which side of a class is first? Arrivals at every byte | 3 frames, RING_FIRST; normal ones of 127 bytes (the longest that must not be cut), 128 (the shortest that may be) and 181 (can be cut twice), one of the CPU, for the order of sides; express ones of 64, the smallest. One long frame and two express ones give a second cut and a chain |
| `switch` | Does each port of a switch see just the events of a port? Is any copy forgotten? | ZIPPER, time slots and a limit of 1; 2 frames out of 6 kinds, which cover every line of the routing table, both ring gates and all classes |
| `hsr_ring` | Does a frame reach its whole audience and nobody else, in a ring whose duplicate lists lock a port when they discard? Do all copies leave the ring? | 3 nodes (a node with two different neighbours, a node between sender and receiver in one direction and none in the other), 2 frames of 5 kinds: group, absent, oneself, a neighbour on either side; lists of one entry, so that forgetting happens all the time |
| `cpu_load` | Does a processor send what the file asks for, when it asks for it, and is each frame logged once? Do the two projects read a pattern alike? | 3 processors, 11 configurations: single frames, patterns for oneself and for nobody, two generators at once, two equal ones, jitter, uniform and normal intervals, a negative load and a varying one down to a negative, a negative start, a pattern that is rejected; frames under way up to 3 ticks, so that they overtake |
| `ether_ring` | Is a loss masked by the second copy? Is TestControl's account true? Does the ring come to rest? | 2 end nodes, 7 configurations of two or three frames; one bit error anywhere; queues of one frame beside the one in transmission, so that they overflow; lists of 3 entries |
| `ether_coupled` | The same loss in two rings coupled by two pairs of RedBoxes | 4 RedBoxes, one broadcast or one frame into the other ring, one bit error on any cable, the links between the rings included |
| `tictoc` | Does a program lose or double a message? Are hops counted? Does stop and wait keep its promise? | 8 hops (the longest way in the tree is 4), 5 events, counters of 2 and 5, delays of 1 and 3 tenths of a second; 7 messages of `Txc9`, since the timer of 1.0 s can only be met after five round trips |
| `short_fragment` (violation) | "kein Fragment unter ... 64 Bytes" (lyx:1240-1241) | one frame of 128 bytes, one express frame |
| `limiter` (violation) | "maximum of x Byte/s of generated low-traffic" (`simulations/omnetpp.ini` 32) | one low frame, limit 12500, the value of `omnetpp.ini` |
| `signed_numbers` (violation) | a copy missed by a duplicate list is an error (comments in eHSR:`src/duplicateDetection/ListenErkennung.cc` 272-276) | as `ether_ring`, with sequence numbers modulo 4 in place of 65536 |

The frame bound `MaxFrames` limits arrivals of one behaviour, not the queues' or
timers' reach; when all frames are sent, a port without limiter and slots stops, which
is why the port runs do not check deadlock. `NoLostWakeup` and `EveryFrameIsSent` are the
properties that a real standstill would break.

The properties, by what they guard:

* `LockTracksInterface`: a lock is set exactly while its interface has a frame or has
  reported an end not yet heard. Neither a stuck port nor a second frame.
* `OnlyLongFramesArePreempted`, `ExpressFlagIsFresh`: the attached frame that
  `getExpressSendTime` judges is the one in flight, and the flag that bypasses the
  checks is never found set from an earlier chain.
* `StrictPriority`, `SideOrder`, `FirstComeFirstServed`: order of service, stated on
  the frame that starts and what is left waiting.
* `NoLostWakeup`, `TimersMatchFlags`: whatever waits will be looked at again.
* `LimiterNeverThrows`: the traffic-limitation exception (`Scheduler.cc` 488) is
  unreachable.
* `EveryFrameIsSent`: liveness. A frame longer than the limit blocks its own queue and no
  other.
* `PortsAreSchedulerPorts`, `NoPortForgets`: the composition. The second says of all three
  ports together that each copy waits for an event that is on its way; for the CPU port, which
  is never unlocked, that no queue is longer than the number of processings to come
  (`EveryFrameHasAProcessing`).
* `ExpressIsServedInTime`: an express frame waits for a free express interface at most
  147 bytes, the time of the longest frame that must not be cut; once admitted it starts
  within 84 bytes, the shortest fragment and its gap.
* `FrontIsLongEnough`: what a cut leaves in front of it is a whole Ethernet frame, with 60 data
  bytes. What it leaves behind is not: see `NoFragmentIsTooSmall` below.
* `PortsStayOpen`: no duplicate list of a ring port ever discards a frame, although a
  list forgets. If one did, its port would be locked for good. What keeps the ports open
  is the routing, not the lists: a copy leaves the ring before it can meet a port it has passed.
* `ImplementsService`: no processor hears a frame that is not for it, nor one it remembers.
* `ComesToRest`: liveness: all copies leave the ring and each frame is heard by its
  whole audience. A frame taken for a duplicate by mistake, or one that circulates,
  breaks it.

* `SentOnSchedule`: a processor has sent exactly the frames its patterns ask for by now: the
  first at `startTime`, the last before `stopTime`.
* `LoadIsKept`: the bytes a load generator puts on the line do not exceed its load; the 32
  bytes the code adds to the data are what tags and preamble really are.
* `OnlyNegativeLoadsThrow`: only a start before time 0 and a negative load, which
  `scheduleMessage` lets pass when an interval is given too, make the kernel schedule into the past.
* `EachFrameIsLoggedOnce`: the three cases of the receiver add up to one, over all processors,
  and no delay is logged that is longer than a frame may take.
* `FramesStayWhole`: opening and closing a frame changes nothing.
* `EndsInTime`: the simulation ends.
* `PatternsAreUnderstoodAlike`: PA14 reads a pattern as its predecessor did.
* `OneLossIsMasked`: with one copy lost, on any line or before any full queue, every member of
  the audience has heard every frame when the network is at rest.
* `AccountIsTrue`: what TestControl counts as delivered, missing and doubled is so.
* `NothingIsThrown`: none of the exceptions of interfaces and lists is reachable.
* `ImplementsService` (of `EtherNet`): nobody hears a frame not meant for it, or one twice.
* `NothingIsLostOrDoubled`: in every tutorial program, the number of messages is what the
  program intends, and no timer is scheduled twice.
* `HopsAreCounted`: a hop count has the parity of the way and never falls below it, and a
  message ends at its first visit of its destination.
* `ImplementsExchange`: with stop and wait each message is heard once and in order, although
  answers are not numbered: the answer always beats the timer, however late.

### What the violations show

* **Short fragment.** `NoFragmentIsTooSmall` says what the documentation asks for: 64 bytes at least
  on both sides of every cut. `getExpressSendTime` counts the bytes left at the present
  moment (`Scheduler.cc` 665), then moves the cut by up to 84 bytes (680-696). The documentation
  has the moment judged anew when it has come (lyx:1979-1980); the code sends the express
  frame with a delay and never looks again. In the run an express frame comes when 25 bytes of a
  frame of 128 are out; it is cut after 67 data bytes, and 61 are left. `FirstCutFallsIntoFrame`
  proves how much the first cut of a frame leaves, whatever its length: 57 bytes.
* **Limiter.** `lowSendTime` moves only when a CPU frame passes
  (`Scheduler.cc` 424-427), but the credit since then is added at *every* look at a low
  frame (396-404): looking again mints tokens. The documentation says frames may use
  only the tokens generated (lyx:3793-3795). The run allows for the code counting credit
  at an eighth of the rate, and the first frame still leaves too early.
* **Signed numbers.** In the predecessor, `searchMessage` keeps the frame's number in a
  `short` and compares it with the list's `unsigned short`. From 32768 on the two never
  are equal, and every copy is taken for a first one: a processor hears it twice. The check
  that would have noticed is commented out.

### Further places where documentation and code differ

Read in the code, and kept in the models as the code has them:

* ZIPPER turns its side at every `processQueues`, also at one that finds the port locked
  (`src/switch/Scheduler.cc` 258-279); the documentation says after each frame (`omnetpp.ini` 19,
  lyx:416-417).
* The data in front of a cut is to be a multiple of 8 bytes (lyx:1330-1334). It is for a cut made at
  once. A cut that waits for the next boundary past the minimum comes 12 bytes, a gap, behind it
  (680; the formula of lyx:1931 has no gap there); one that waits for the minimum falls on 60
  data bytes, or 61 to 67 (684, 696), 67 in the trace of `short_fragment`. The documentation's
  own formula gives these last values too, but has them judged again.
* `messageSize` grows with each interruption (761) where the documentation says it is cut down
  to the rest (lyx:1871-1876), and the byte count restarts (`EndNodeSwitch.cc` 147): a second cut is
  judged by a frame longer than the one on the line.
* The interrupted frame is never lengthened on its interface: the delay goes into a copy that
  is dropped (747-764; lyx:1288-1289 has it delayed).
* The comment of `txc10` says that messages go to module 2; the code tests for index 3.

### Fairness

`SchedulerPort!Spec` adds weak fairness for delivering each kind of outstanding event and for
the interfaces finishing what they started: the simulator's event loop never skips an
event. It adds strong fairness for the three time actions: simulation time grows
without bound, so a slot ends and a timer expires, though each of the actions is
disabled again and again while the events of an instant are handled. Safety properties
use `SafeSpec` or `TSpec`, without fairness; `limiter` has the same fairness as the port, `short_fragment` none.
`HsrRing` has weak fairness of `Move`, everything but the processors' sending: the event
list is worked off, and with `Move` as a whole nothing is said about the order. `EtherNet` has
weak fairness of `Work` (the events) and of `finish`; bit errors are never owed.

`TicToc` has weak fairness of its step, and one strong fairness: toc loses a message when
`uniform(0,1) < 0.1`, and this does not hold for ever. So if answers are possible again and again, one
is sent. `Switch` and `Cpu` have none; what must happen there is said by safety properties.

### Assumptions of the models

* The arrival gate, by which the limiter recognises frames of the CPU, survives `dup()`,
  as in OMNeT++ 4.
* `fmod` in the slot computations is exact.
* In `Preemption`, frames arrive on the boundary of a byte (the code rounds down to one)
  and products with the data rate are exact. The documentation's claims are judged
  within these. Time slots and the limiter are off, as by default in the code.
* In `SchedulerPort`, the duplicate list between scheduler and interface passes every
  frame on. `HsrRing` justifies this for ring ports: `PortsStayOpen`, proved for every
  ring and every traffic. The processor's port needs no such thing, since its locks are ignored.
* In `HsrRing`, a copy that waits at a port whose interface reports gets its turn; that is
  what `EveryFrameIsSent` and `NothingIsForgotten` say of the port. Sequence numbers do
  not wrap (the lists compare 32 bits), no two nodes have the same address, and no line is
  broken: the networks of the repository are closed and no code breaks a line.
* `TOKENS` is an empty case in the code and sends nothing; the theorems on order and
  wake-ups exclude it by name.
* In `Cpu`, products of loads and times are exact, and a normal variate is looked at up to one
  deviation from its mean. Intervals that round to nothing are left out: the program would then send for ever
  in one instant. So is a random load of exactly 0 (`CPU.cc` 529-533), which has the same effect and
  probability 0; `EtherCpu` leaves it out too.
* In `EtherNet`, frames carry no lengths, since any order of arrival is allowed; the two times
  looked at by a load generator are before and after its stop time. A frame that comes
  within the gap starts without one, as in the code. Two errors that hang on lengths and times are
  therefore not in `thrown`: of a frame over 1518 bytes (eHSR:`ModifiedEtherMACBase.cc` 325), and of a
  load generator whose load is negative, which schedules into the past (`Cpu` has that one).
* In `TicToc`, limits are above 0; what is counted for display only is left out.

## 4. Proofs

TLAPS proves, for every value of the constants:

| Theorem | Statement |
|---|---|
| `PortTyped` | any port, any mode: the type invariant |
| `NeverStuckLocked` | `LockTracksInterface` on ring ports |
| `PreemptionIsSafe`, `ExpressFlagNeverStale` | the preemption properties on ring ports |
| `WakeupsAreReal`, `NothingIsForgotten` | the wake-up properties on ring ports |
| `LimiterIsSafe` | the exception is unreachable on ring ports |
| `CpuFramesAreProcessed` | `EveryFrameHasAProcessing` on the CPU port |
| `PrioritiesAreStrict`, `SidesAreOrdered` | `StrictPriority`, `SideOrder` on ring ports |
| `FcfsKeepsOrder` | `FirstComeFirstServed` on ring ports in FCFS mode |
| `Implements` | every behaviour of the port in byte time is one of the untimed port |
| `ExpressNeverWaitsLong` | `ExpressIsServedInTime`, for frames of every length |
| `FrontFragmentsAreWhole`, `FirstCutFallsIntoFrame` | `FrontIsLongEnough`; the first cut of a frame leaves 57 bytes of it or more, 7 fewer than documented |
| `DupListInvariant`, `ArrayIsTyped`, `NeverThrows`, `Refinement` | the duplicate list: invariant, types, no exception, implements the window |
| `ForwardedOnceWithinTheList` | `RepeatsAreFarApart`, for lists of every size |
| `RingInvariant` | `RingInv`, with it the types and the whereabouts of each copy |
| `PortsAreNeverStuck` | `PortsStayOpen` |
| `RingImplementsService` | every behaviour of the ring is one of `HsrService` |
| `Composition` | `PortsAreSchedulerPorts`: a switch is three ports |
| `NothingIsForgottenAnywhere` | `NoPortForgets`, in every mode but TOKENS |
| `BothRingPortsWork` | what is proved of one ring port holds of both of a switch |
| `OnlyThesePatternsThrow` | `OnlyNegativeLoadsThrow` |
| `FramesAreSentOnSchedule`, `LoadsAreKept` | `SentOnSchedule`, `LoadIsKept`, for every configuration |
| `OneLogsEachFrame`, `NoFrameIsDamaged`, `SimulationEnds` | `EachFrameIsLoggedOnce`, `FramesStayWhole`, `EndsInTime` |
| `ProjectsAgree` | `PatternsAreUnderstoodAlike`, for every pattern |
| `NothingIsEverThrown` | `NothingIsThrown`, on every topology |
| `ProcessorsHearOnce`, `NoFrameIsHeardTwice` | `ImplementsService` of `EtherNet` and `HeardOnce`, while `FewFrames` |
| `OneLossIsMaskedOnARing` | `OneLossIsMasked` on one ring of any number of end nodes, while `FewFrames` |
| `AccountIsTrueOnARing` | `AccountIsTrue` on such a ring |
| `TicTocInvHolds` | the invariant of the 21 tutorial programs |
| `NothingIsLostOrDoubledHolds` | `NothingIsLostOrDoubled`, on every network |
| `HopsAreCountedHolds` | `HopsAreCounted`, on every tree |
| `ExchangeIsKept` | every step of `Txc9` is one of `Exchange` or none, for any number of rounds |

Assumptions: `SchedulerAssumption`, `SchedulerPortAssumption`, `DupListAssumption`
(types of the constants; at least one slot) and, for the ring-port theorems, `RingPort`:
the port is A or B and the mode is not TOKENS; for the port in byte time
`PreemptionAssumption`, which adds that slots and limiter are off and that the shortest
frame that may be cut has 128 bytes; `HsrRingAssumption`: two nodes or more, at least one
slot; `SwitchAssumption`: types, and that a node's own frames carry its address; `CpuAssumption` and
`ConfigurationAssumption`: addresses are numbers, a frame takes a tick at least, and the elements
of a pattern are what `atof`, `atoi` and the comparison with three words make of a text; `EtherMacAssumption` and
`EtherNetAssumption`: types, an even number of sequence numbers, and cables that have two ends;
`TicTocAssumption` and `TreeAssumption`: modules numbered from 0 and at least two, just two for the first
nine programs, limits and times above 0, and no circles in the networks of the programs that count hops,
as in their `.ned` files. The number of nodes, the number, kinds and lengths of frames,
the mode, limit and slots are arbitrary; so are the topology of a predecessor's network, the
losses and the order of arrival.

The theorems about that network name four conditions of their own:

* `TagsAreKept`: no RedBox is in the mode REGULAR, which throws (section 5).
* `PatternsAreAccepted`: `scheduleMessage` throws at no pattern loaded, and none starts before time 0.
* `OneRing`, for the masking of losses and the account only: there is no RedBox, and port A of each node is
  wired to port B of the next, as `Prozessbus.ned` and `hsrnetz4.ned` do with any number of
  clients.
* `FewFrames`, for all but `NothingIsEverThrown`: no more frames were sent than `ListSize`, and no
  node has given out half of the sequence numbers. Neither half can be spared: the run
  `signed_numbers` breaks `HeardOnce` with too few numbers, and TLC breaks it on the network of
  `ether_ring` with a `ListSize` of 1 or 2 in place of 3. The processor's list forgets a frame
  whose second copy still waits in a queue. The model bounds no delay; a theorem for longer
  simulations would have to.

**The ring port.** None of the properties is inductive alone: they need one another.
`PortInv` conjoins them with

* *Sorted*: a frame stands in a queue of its class. Otherwise an express queue could hold
  a limited low frame, and the express frame that `unlockExp` announces through
  `nextUpAnotherExp` might not be sent;
* *Attached*: the frame in flight on the normal interface is the attached one;
* *Fresh* / *FreshSoon*: `nextUpAnotherExp` implies that the express lock is set. Within
  `ExpressInterfaceIdle` this is false for a while (the lock is cleared, the flag set),
  so inside a handler it is weakened to: or an express frame waits. The first queues of
  the loop restore it.
* *Looked*: `NoLostWakeup`.

The proof follows the code: one lemma for each branch of `processOneQueue`, one
(`OneQueue`, `Step`) for the whole of it, `Loop` for the six in a row, `Processing` for
the modes, then one step per action. `Covered` says of a queue that it is empty or waits
for something that will come; a processing covers each queue it visits and the
later ones keep that (`CoveredStays`), so all six are covered at its end.

**Order of service.** The action properties need to know what a whole processing did, not
only what it left. `Progress` says it for the queues visited so far: at most one frame was
sent, it came from the front of its queue, and every queue visited before it is empty or
held back. `ProgressStep` carries it over one queue, `ProgressLoop` over six,
`ProcessingOrder` over the modes. `OrderInv` adds to `PortInv` that every queue is sorted by
arrival and, outside FCFS, holds frames of its own side.

**Byte time.** Each timed step is a step of the port (`TimedStep`), so `PortInv` is
inherited. `LineInv` ties together the two clocks of a frame, the interface's (`normLeft`)
and the scheduler's (`messageSize`, `elapsed`): `normLeft + elapsed <= messageSize + 20`,
the interface is never later than the scheduler believes. `CannotCutNow` says why an
express frame waits when no processing is outstanding; with the first fact, a frame that
cannot be cut is short or at most 71 bytes from its end (`UncutEndsSoon`), and `WaitEnds`
counts it down. `RestIsLeft` keeps the size of a frame not yet cut exact, which is what
`FirstCutLeaves57` needs. `WaitBounds` is the arithmetic of the four branches.

**The CPU port.** A processing takes one frame of every non-empty queue, an arrival adds
one frame and one processing; hence no queue exceeds the processings outstanding.

**The duplicate list.** `SearchOrder` is a bijection between distances and slots, so the
search is exact; the limit check is then membership in the window; a forward shifts the
window, since the slot written is the oldest one.

**The ring.** That no port has passed a frame before is not a fact about lists, which
forget, but about geography. `Hops` counts the way from a frame's sender in each of the two
directions, and `Reach` how far the switches let it go. `RingInv` says: no copy is past its
reach (`NoneTooFar`), there is one copy each way at most (`OneCopyEachWay`), the lists
ahead of it do not know it (`NothingAheadKnowsIt`), and identities are unique
(`FramesAreSent`), without which a list could take another frame for it. Each hop adds one
(`Hops` of the neighbour), so what a copy leaves behind in a list is behind it. The service
then follows: what waits at a processor's port is for that processor, and its list is the window.

**The history of a list.** `RepeatsAreFarApart` speaks of a history the code does not keep.
`HistoryInv` ties the array to it: the i-th slot before the pointer holds the i-th last identity
forwarded, as far back as the list reaches (`ArrayIsRecentHistory`). A forward moves each slot's
distance by one; since `limitCheck` searches all slots, an identity it does not find is not among
the last `ListSize`.

**The switch.** The proof is a refinement, three times. `SwitchInv` has what mixing events could
break: no timer message is due twice, a port gets one copy of a frame at most. Each action of the
switch is then taken apart for the port it is for and for the two it is not: `handleFrame` is
`EnqueueFrame` of the ports in `Destinations` and a stutter of the others; time, which is one for
all, is a step of each or none, since a port's instant is over when the switch's is.
The theorems of `SchedulerPort_proofs` are then cited for each port.

**The processors.** Invariants in layers. `Base` says what is pending: loaded messages, each once,
none overdue, and the simulation has ended if a pattern was not accepted. `FlightInv` adds when a
pending message is due (`PendingEnds`) and what is under way (`Underway`): frames as
`generateOnePacket` nests them, sent before the last time of their pattern and at most `MaxDelay`
ago. `FramesStayWhole` is a calculation on such a frame, for any length and any number
(`WholeFrames`); `EndsInTime` follows because time waits for what is due.

Each other property then needs one relation between a counter and what is pending:

* `LoadInv`: the frames sent are within the bounds of the load *at the time the next is due*,
  not only at the present time, which is all that `LoadIsKept` says and not inductive. One interval
  leaves the time of one frame (`IntervalsLeaveTime`), whatever is drawn; `LongerLoad` adds them up;
* `ScheduleInv`: there are counts of a sender's patterns that add up to its `numFramesSent`, such
  that a pattern with count k is due at `startTime + k * interval`, or has come to its `stopTime`
  with the k-th frame before it and the next at or after it. `numFramesSent` is one number for all
  patterns, so the counts are a witness that each step has to find again (`OneMoreSent`). When
  nothing is due, a quotient is determined by its bounds (`DivUnique`), and that is the number
  `SentOnSchedule` computes;
* `LogInv`: the frames still under way to someone who will log them (`ToLog`) and those logged are
  all frames ever sent. It rests on `OneLogger`: among those who hear a frame one logs it.

`ProjectsAgree` needs no invariant: it holds of any element of any configuration.

**The predecessor's network.** `NetInv` is what keeps it from throwing: whatever comes to a ring
port or waits there is tagged and not for the node that sent it, what the array of a list holds
is unsigned and also in its checking map, and an interface with an empty queue is idle. So when
the array reports a hit, the number looked for is not negative, and the map has that key
(`ListsDoNotThrow`). `SwitchesPassOneFrame` shows that a switch passes one and the same tagged
frame to all its gates.

`ServiceInv` is what makes a processor hear a frame once. The counter identifies a frame, its copies
have one tag (`CopiesInv`), and a frame heard is in the processor's list in the form its copies
look for (`HeardInv`). The list must not have forgotten it: it has as many entries as its
processor heard frames, these have different counters below `messageCount`, so as long as there are
`FewFrames` a list that takes a new frame was not full (`NewIsNew`). `StepsOfTheNetwork` sorts the
network's steps by what they are to the service: `Makes`, `Tags`, `Moves`, `Hears`; each kind
keeps `ServiceInv`, and a step that `Hears` is a step of `EtherService`.

`LossInv` is what masks a loss. There are a tag for each frame that has left its processor
(`TagInv`) and no more lost ways, pairs of a frame and a direction, than `lost` counts
(`LostInv`). For a way that is not lost three things hold of the places where a copy can be
(`WayInv`): the sender's port queues or lists the frame; a port that lists it is sending it, or the
copy is on the line to the next node, or it has passed there; and where it has passed, the
processor has heard it if it is for it, and the next port queues or lists it unless the node is its
source or its only destination. Each action moves a copy one of these places on: `WaysGoOn` says
what a step must keep for that, and there is one lemma for each handler. The delicate case is a
port that drops a waiting copy because its list has the tag: no copy is lost, since the list had
room for all tags (`ListIsNotFull`) and holds only tags of frames it was sending or has sent. At
rest nothing is queued, sent or on the line, and one of the two ways is not lost: from
the source (`GoesRound`) it has passed every node up to each hearer (`MaskedAtRest`).

`AccountIsTrue` follows at the step `finish`. Its pairs of frame and processor that were found
correspond one to one to the entries of `recvList`, since a counter identifies a frame and each entry
is for its hearer (`AudienceInv`). `BagOfOnes` shows that the sum `BagCardinality` is, a recursive
function, is then the number of entries: a smallest set with another sum would have a smaller one.

**The tutorials.** Each kind of program has an invariant that gives the whole simulation after k
modules were initialized. The event set is small and known exactly in `Txc1` to `Txc12`:
`PingInv`, `CountInv`, `KeepInv` (a module that keeps the message has its timer running), `StopInv`
and `WaitInv`: there are only three event sets, the message under way with 1.0 s left on the
timer, its answer with 0.9 s, or the timer alone (`AwaitInv`). That is why an answer never
meets a timer that has expired, and why answers need no numbers. `TossInv` allows one message
anywhere. From `Txc13` on the event set is a sequence of any length (`HopsInv`, `PeriodicInv`), and
`OnItsWay` says of each message what `HopsAreCounted` does, in a form that forwarding keeps: it
waits at its source with a count of 0, or has come over a link, and not past its destination.
That needs `NotPassed`, a lemma about trees: who leaves b over a link and did not come past d
has not passed d, unless b is d. It follows from `IsTree`, which
says of distances only that a link leads one nearer or one farther and that one link of each
module leads nearer, by the smallest counterexample (`Detour`, `LeastElement`). In the terminal copy's `Txc13`, every module has one timer besides
(`Mixed`). `InsertPuts` says what the insertion by time does to a sequence; the order of the
event set matters for stop and wait alone. The refinement is then read off `WaitHandles`, which
lists the four things an event can do.

Model-checked only: `OneLossIsMasked` and `AccountIsTrue` on coupled rings, where a copy has
several paths; and the liveness properties
`EveryFrameIsSent`, `ComesToRest` (of `HsrRing` and `EtherNet`) and the progress part of
`ImplementsExchange` (liveness under fairness is beyond this prover). The violated statements are
refuted by TLC on the instances named above.

## 5. Not modelled, and the plan

Not modelled, or not in every detail:

* Node table: `pushNode` has no effect, `getNodeMode` always answers HSR (that answer is in
  `EtherNet`). RedBox switch of PA14: throws when it is initialised.
* RedBox with `redBoxCfg` 0 (REGULAR, the parameter's default) in the predecessor: it takes the tag off, and
  the duplicate list of the link throws at the first untagged frame (eHSR:`ListenErkennung.cc`
  112, although the comment above it says such frames pass). Every network of the repository sets
  the other mode, and the runs do too. The PRP modes forward nothing to the link.
* Memory: copies the packer and the receiver never delete change no behaviour.
* `frameByteContainerCheck`, which nobody calls; statistics and displays; code that is commented out.
* The descriptor classes the message compiler generates, and `prpMessage`, which is never
  built.
* Below the interfaces of PA14: INET's MAC. Only when it reports and how long a frame takes is here.
* `ListSize` is 400 where a network has 480 clients; the models take any size and make the lists
  forget much more often.

Next, in this order:

1. A node composed of three `SchedulerPort`s and six `DupList`s in place of the waiting bags
   and windows of `HsrRing`, with a refinement to it.
2. Slot and limiter timers in byte time.
3. Proofs: `OneLossIsMasked` and `AccountIsTrue` on coupled rings.
