------------------------------- MODULE DupList -------------------------------
(***************************************************************************)
(* One duplicate list (class ListenErkennung, with its checking copy       *)
(* MessageList).  A list sits between an output gate of the switch and     *)
(* the network interface (or the CPU) and passes every frame on exactly    *)
(* once: a circular array of listSize entries holds the identities of the  *)
(* frames forwarded last, and dupplikatListenPointer is the entry that     *)
(* will be overwritten next.                                               *)
(*                                                                         *)
(* The backup map of MessageList never forgets; ListenErkennung throws     *)
(* when the array and the map disagree about an identity found in the      *)
(* array.  The map's key is coarser than the array's: it holds the         *)
(* sequence number in 16 bits (keyMSG; SeqModulus is that 2^16) and the    *)
(* address as the sum of its bytes shifted as ints (MacToLonglong), where  *)
(* a shift by 32 or 40 bits is undefined: any number may come out, the     *)
(* same one for two addresses as well.                                     *)
(*                                                                         *)
(* Left out: time stamps, usecount and the vectors recorded from them,     *)
(* which no decision reads.                                                *)
(***************************************************************************)
EXTENDS Integers

CONSTANTS
  Source,      \* MAC addresses that send frames
  NullSource,  \* 00:00:00:00:00:00, the address an unused entry holds
  Sequence,    \* sequence numbers in use
  SeqModulus,  \* 2^16 in the code
  ListSize,    \* parameter ListSize of the module
  MacToLonglong  \* [Source -> Nat]: what the build makes of an address

ASSUME DupListAssumption ==
  /\ ListSize \in Nat \ {0}
  /\ SeqModulus \in Nat \ {0}
  /\ Sequence \subseteq Nat
  /\ NullSource \notin Source
  /\ MacToLonglong \in [Source -> Nat]

VARIABLES
  dupplikatListe,          \* [slot -> [key, addcount]]
  dupplikatListenPointer,  \* the slot written next
  backup,                  \* identities MessageList has a count >= 1 for
  verdict                  \* the frame handled last and what became of it

vars == <<dupplikatListe, dupplikatListenPointer, backup, verdict>>

Key     == Source \X Sequence
NullKey == <<NullSource, 0>>
Slot    == 0 .. ListSize - 1
Entry   == [key : Key \cup {NullKey}, addcount : Nat]

(* keyMSG: the sequence number is narrowed to an unsigned short. *)
BackupKey(k) == <<MacToLonglong[k[1]], k[2] % SeqModulus>>

initialize ==
  /\ dupplikatListe = [c \in Slot |-> [key |-> NullKey, addcount |-> 0]]
  /\ dupplikatListenPointer = 0
  /\ backup = {}
  /\ verdict = [key |-> NullKey, result |-> "none"]

(* The i-th slot searchMessage looks at: downwards from the one below the  *)
(* pointer to 0, then from the last slot down to the pointer, which is     *)
(* from the newest entry to the oldest.                                    *)
SearchOrder(i) ==
  IF i <= dupplikatListenPointer
    THEN dupplikatListenPointer - i
    ELSE dupplikatListenPointer - i + ListSize

(* Mutant: the second loop of searchMessage is missing. *)
MutSearchNewestPart(k) ==
  LET hits == {i \in 1 .. dupplikatListenPointer : dupplikatListe[SearchOrder(i)].key = k}
  IN IF hits = {} THEN -1 ELSE SearchOrder(CHOOSE i \in hits : \A j \in hits : i <= j)

searchMessage(k) ==
  LET hits == {i \in 1 .. ListSize : dupplikatListe[SearchOrder(i)].key = k}
  IN IF hits = {} THEN -1 ELSE SearchOrder(CHOOSE i \in hits : \A j \in hits : i <= j)

(* limitCheck(source, sequencenumber, 1), called by checkFrame: "discard"  *)
(* stands for true, "forward" for false, "error" for the two exceptions.   *)
limitCheck(k) ==
  LET c     == searchMessage(k)
      below == dupplikatListe[c].addcount < 1
      known == BackupKey(k) \in backup
  IN IF c = -1 THEN "forward"
     ELSE IF below = known THEN "error"
     ELSE IF below THEN "forward"
     ELSE "discard"

(* Mutant: the map is not told of the frame. *)
MutAddSkipsBackup(k) == UNCHANGED backup

(* MessageList::addMessage: a count of one or more is all limitCheck reads. *)
backupAddMessage(k) == backup' = backup \cup {BackupKey(k)}

(* Mutant: the pointer wraps one slot too early. *)
MutAddWrapsEarly(k) ==
  /\ dupplikatListe' = [dupplikatListe EXCEPT ![dupplikatListenPointer] = [key |-> k, addcount |-> 1]]
  /\ dupplikatListenPointer' =
       IF dupplikatListenPointer + 2 >= ListSize THEN 0 ELSE dupplikatListenPointer + 1
  /\ backupAddMessage(k)

(* Mutant: the pointer wraps one slot too late. *)
MutAddWrapsLate(k) ==
  /\ dupplikatListe' = [dupplikatListe EXCEPT ![dupplikatListenPointer] = [key |-> k, addcount |-> 1]]
  /\ dupplikatListenPointer' =
       IF dupplikatListenPointer = ListSize THEN 0 ELSE dupplikatListenPointer + 1
  /\ backupAddMessage(k)

addMessage(k) ==
  /\ LET c == searchMessage(k)
     IN IF c # -1
          THEN /\ dupplikatListe' = [dupplikatListe EXCEPT ![c].addcount = @ + 1]
               /\ UNCHANGED dupplikatListenPointer
          ELSE /\ dupplikatListe' =
                    [dupplikatListe EXCEPT ![dupplikatListenPointer] = [key |-> k, addcount |-> 1]]
               /\ dupplikatListenPointer' =
                    IF dupplikatListenPointer + 1 = ListSize THEN 0 ELSE dupplikatListenPointer + 1
  /\ backupAddMessage(k)

(* handleMessage with checkFrame: an exception ends the simulation. *)
handleMessage(k) ==
  /\ verdict.result # "error"
  /\ verdict' = [key |-> k, result |-> limitCheck(k)]
  /\ IF limitCheck(k) = "forward"
       THEN addMessage(k)
       ELSE UNCHANGED <<dupplikatListe, dupplikatListenPointer, backup>>

Next == \E k \in Key : handleMessage(k)

Spec == initialize /\ [][Next]_vars

-----------------------------------------------------------------------------
TypeOK ==
  /\ dupplikatListe \in [Slot -> Entry]
  /\ dupplikatListenPointer \in Slot
  /\ backup \subseteq Nat \X Nat
  /\ verdict \in [key : Key \cup {NullKey}, result : {"none", "forward", "discard", "error"}]

(* Neither exception of limitCheck (ListenErkennung.cc 257 and 263) is     *)
(* ever thrown: whatever the array still holds, the map holds too, and     *)
(* the coarser key of the map cannot make them disagree on a hit.          *)
LimitCheckNeverThrows == verdict.result # "error"

(* The array read from the newest entry to the oldest is the window. *)
Window ==
  INSTANCE DupWindow WITH
    Key    <- Key,
    NoKey  <- NullKey,
    Size   <- ListSize,
    recent <- [i \in 1 .. ListSize |-> dupplikatListe[SearchOrder(i)].key]

(* The circular array behaves as a window over the last ListSize forwarded *)
(* identities: nothing inside the window is forwarded again, nothing       *)
(* outside it is discarded, and the oldest entry is the one given up.      *)
ImplementsWindow == Window!Spec

(* The inductive invariant behind LimitCheckNeverThrows and the window. *)
DupListInv ==
  /\ TypeOK
  /\ LimitCheckNeverThrows
  /\ \A c \in Slot : dupplikatListe[c].key # NullKey =>
       /\ dupplikatListe[c].addcount >= 1
       /\ BackupKey(dupplikatListe[c].key) \in backup
=============================================================================
