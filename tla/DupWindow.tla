------------------------------ MODULE DupWindow ------------------------------
(***************************************************************************)
(* What a duplicate list promises the switch port it guards: it remembers  *)
(* the Size most recently forwarded frame identities, newest first.  A     *)
(* frame whose identity is among them is discarded and changes nothing;    *)
(* any other frame is forwarded, becomes the newest entry, and pushes the  *)
(* oldest entry out.  DupList shows that the circular array of             *)
(* ListenErkennung implements this.                                        *)
(***************************************************************************)
EXTENDS Integers

CONSTANTS
  Key,    \* identities of frames: source address and sequence number
  NoKey,  \* marks an entry of the window nothing has been stored in yet
  Size    \* number of identities remembered

VARIABLES
  recent,  \* recent[1] is the newest remembered identity, recent[Size] the oldest
  verdict  \* the frame handled last and what became of it

vars == <<recent, verdict>>

Init ==
  /\ recent  = [i \in 1 .. Size |-> NoKey]
  /\ verdict = [key |-> NoKey, result |-> "none"]

Remembered(k) == \E i \in 1 .. Size : recent[i] = k

Forward(k) ==
  /\ ~ Remembered(k)
  /\ recent'  = [i \in 1 .. Size |-> IF i = 1 THEN k ELSE recent[i - 1]]
  /\ verdict' = [key |-> k, result |-> "forward"]

Discard(k) ==
  /\ Remembered(k)
  /\ verdict' = [key |-> k, result |-> "discard"]
  /\ UNCHANGED recent

Next == \E k \in Key : Forward(k) \/ Discard(k)

Spec == Init /\ [][Next]_vars
=============================================================================
