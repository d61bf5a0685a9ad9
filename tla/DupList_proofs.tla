---------------------------- MODULE DupList_proofs ----------------------------
(***************************************************************************)
(* For every list size, set of senders and sequence-number width: the      *)
(* duplicate list never throws, its circular array implements the window   *)
(* of DupWindow, and a frame is forwarded a second time only after         *)
(* ListSize others (about the list with the history of MCDupList).         *)
(***************************************************************************)
EXTENDS MCDupList, WellFoundedInduction, TLAPS

(* A nonempty set of naturals has a least element. *)
LEMMA LeastElement ==
  ASSUME NEW T, T \subseteq Nat, T # {}
  PROVE  \E i \in T : \A j \in T : i <= j
<1> DEFINE R == OpToRel(<, Nat)
<1>1. IsWellFoundedOn(R, Nat)
  BY NatLessThanWellFounded
<1>2. \E i \in T : \A j \in T : <<j, i>> \notin R
  <2> HIDE DEF R
  <2>1. QED
    BY <1>1, WFMin
<1>3. \A i, j \in Nat : j < i => <<j, i>> \in R
  BY DEF OpToRel
<1>4. PICK i \in T : \A j \in T : <<j, i>> \notin R
  BY <1>2
<1>5. ASSUME NEW j \in T
      PROVE  i <= j
  <2>1. i \in Nat /\ j \in Nat /\ ~ (j < i)
    BY <1>3, <1>4
  <2>2. QED
    BY <2>1
<1>6. QED
  BY <1>5

(* SearchOrder numbers the slots: every slot is looked at exactly once. *)
LEMMA SearchOrderIsABijection ==
  ASSUME dupplikatListenPointer \in Slot
  PROVE  /\ \A i \in 1 .. ListSize : SearchOrder(i) \in Slot
         /\ \A c \in Slot : \E i \in 1 .. ListSize : SearchOrder(i) = c
         /\ \A i, j \in 1 .. ListSize : SearchOrder(i) = SearchOrder(j) => i = j
<1> USE DupListAssumption DEF SearchOrder, Slot
<1>1. \A i \in 1 .. ListSize : SearchOrder(i) \in Slot
  OBVIOUS
<1>2. ASSUME NEW c \in Slot
      PROVE  \E i \in 1 .. ListSize : SearchOrder(i) = c
  <2>1. CASE c < dupplikatListenPointer
    <3>1. /\ dupplikatListenPointer - c \in 1 .. ListSize
          /\ SearchOrder(dupplikatListenPointer - c) = c
      BY <2>1
    <3>2. QED
      BY <3>1
  <2>2. CASE c >= dupplikatListenPointer
    <3>1. /\ dupplikatListenPointer - c + ListSize \in 1 .. ListSize
          /\ SearchOrder(dupplikatListenPointer - c + ListSize) = c
      BY <2>2
    <3>2. QED
      BY <3>1
  <2>3. QED
    BY <2>1, <2>2
<1>3. \A i, j \in 1 .. ListSize : SearchOrder(i) = SearchOrder(j) => i = j
  OBVIOUS
<1>4. QED
  BY <1>1, <1>2, <1>3

(* searchMessage returns -1 exactly when no slot holds the identity, and   *)
(* otherwise a slot that holds it.                                         *)
LEMMA SearchIsExact ==
  ASSUME dupplikatListenPointer \in Slot, NEW k
  PROVE  /\ searchMessage(k) = -1 => \A c \in Slot : dupplikatListe[c].key # k
         /\ searchMessage(k) # -1 => /\ searchMessage(k) \in Slot
                                     /\ dupplikatListe[searchMessage(k)].key = k
<1> DEFINE hits == {i \in 1 .. ListSize : dupplikatListe[SearchOrder(i)].key = k}
<1>1. CASE hits = {}
  <2>1. searchMessage(k) = -1
    BY <1>1 DEF searchMessage
  <2>2. \A c \in Slot : dupplikatListe[c].key # k
    BY <1>1, SearchOrderIsABijection
  <2>3. QED
    BY <2>1, <2>2
<1>2. CASE hits # {}
  <2> DEFINE first == CHOOSE i \in hits : \A j \in hits : i <= j
  <2>1. \E i \in hits : \A j \in hits : i <= j
    <3>1. hits \subseteq Nat
      BY DupListAssumption
    <3>2. QED
      BY <1>2, <3>1, LeastElement
  <2>2. first \in hits
    BY <2>1
  <2>3. searchMessage(k) = SearchOrder(first)
    BY <1>2 DEF searchMessage
  <2>4. SearchOrder(first) \in Slot /\ dupplikatListe[SearchOrder(first)].key = k
    BY <2>2, SearchOrderIsABijection
  <2>5. SearchOrder(first) # -1
    BY <2>4, DupListAssumption DEF Slot
  <2>6. QED
    BY <2>3, <2>4, <2>5
<1>3. QED
  BY <1>1, <1>2

(* No frame carries the identity an unused slot holds. *)
LEMMA FramesAreNotNull == NullKey \notin Key
  BY DupListAssumption DEF NullKey, Key

(* In a state of the invariant limitCheck forwards a frame exactly when    *)
(* its identity is in no slot, and discards it otherwise.                  *)
LEMMA LimitCheckIsMembership ==
  ASSUME DupListInv, NEW k \in Key
  PROVE  /\ (\A c \in Slot : dupplikatListe[c].key # k) =>
              /\ searchMessage(k) = -1
              /\ limitCheck(k) = "forward"
         /\ (\E c \in Slot : dupplikatListe[c].key = k) => limitCheck(k) = "discard"
<1>1. dupplikatListenPointer \in Slot
  BY DEF DupListInv, TypeOK
<1>2. ASSUME \A c \in Slot : dupplikatListe[c].key # k
      PROVE  searchMessage(k) = -1 /\ limitCheck(k) = "forward"
  <2>1. searchMessage(k) = -1
    BY <1>1, <1>2, SearchIsExact
  <2>2. QED
    BY <2>1 DEF limitCheck
<1>3. ASSUME NEW d \in Slot, dupplikatListe[d].key = k
      PROVE  limitCheck(k) = "discard"
  <2> DEFINE c == searchMessage(k)
  <2>1. c # -1 /\ c \in Slot /\ dupplikatListe[c].key = k
    BY <1>1, <1>3, SearchIsExact
  <2>2. dupplikatListe[c].key # NullKey
    BY <2>1, FramesAreNotNull
  <2>3. dupplikatListe[c].addcount >= 1 /\ BackupKey(k) \in backup
    BY <2>1, <2>2 DEF DupListInv
  <2>4. dupplikatListe[c].addcount \in Nat
    BY <2>1 DEF DupListInv, TypeOK, Entry
  <2>5. ~ (dupplikatListe[c].addcount < 1)
    BY <2>3, <2>4
  <2>6. QED
    BY <2>1, <2>3, <2>5 DEF limitCheck
<1>4. QED
  BY <1>2, <1>3

(* What a forwarded frame does to the list. *)
LEMMA ForwardStep ==
  ASSUME DupListInv, NEW k \in Key, handleMessage(k), limitCheck(k) = "forward"
  PROVE  /\ \A c \in Slot : dupplikatListe[c].key # k
         /\ dupplikatListe' =
              [dupplikatListe EXCEPT ![dupplikatListenPointer] = [key |-> k, addcount |-> 1]]
         /\ dupplikatListenPointer' =
              IF dupplikatListenPointer + 1 = ListSize THEN 0 ELSE dupplikatListenPointer + 1
         /\ backup' = backup \cup {BackupKey(k)}
         /\ verdict' = [key |-> k, result |-> "forward"]
<1>1. \A c \in Slot : dupplikatListe[c].key # k
  BY LimitCheckIsMembership
<1>2. searchMessage(k) = -1
  BY <1>1, LimitCheckIsMembership
<1>3. QED
  BY <1>1, <1>2 DEF handleMessage, addMessage, backupAddMessage

(* What a discarded frame does: nothing but the verdict. *)
LEMMA DiscardStep ==
  ASSUME DupListInv, NEW k \in Key, handleMessage(k), limitCheck(k) # "forward"
  PROVE  /\ \E c \in Slot : dupplikatListe[c].key = k
         /\ UNCHANGED <<dupplikatListe, dupplikatListenPointer, backup>>
         /\ verdict' = [key |-> k, result |-> "discard"]
  BY LimitCheckIsMembership DEF handleMessage

(* The invariant is inductive. *)
LEMMA InvariantStep ==
  ASSUME DupListInv, [Next]_vars
  PROVE  DupListInv'
<1> USE DEF DupListInv
<1>1. ASSUME NEW k \in Key, handleMessage(k), limitCheck(k) = "forward"
      PROVE  DupListInv'
  <2>1. BackupKey(k) \in Nat \X Nat
    <3>1. k[1] \in Source /\ k[2] \in Nat
      BY DupListAssumption DEF Key
    <3>2. k[2] % SeqModulus \in Nat
      BY <3>1, DupListAssumption
    <3>3. MacToLonglong[k[1]] \in Nat
      BY <3>1, DupListAssumption
    <3>4. QED
      BY <3>2, <3>3 DEF BackupKey
  <2>2. TypeOK'
    <3>1. [key |-> k, addcount |-> 1] \in Entry
      BY DEF Entry
    <3>2. dupplikatListe' \in [Slot -> Entry]
      BY <1>1, <3>1, ForwardStep DEF TypeOK
    <3>3. dupplikatListenPointer' \in Slot
      BY <1>1, ForwardStep, DupListAssumption DEF TypeOK, Slot
    <3>4. backup' \subseteq Nat \X Nat
      BY <1>1, <2>1, ForwardStep DEF TypeOK
    <3>5. verdict' \in [key : Key \cup {NullKey}, result : {"none", "forward", "discard", "error"}]
      BY <1>1, ForwardStep
    <3>6. QED
      BY <3>2, <3>3, <3>4, <3>5 DEF TypeOK, Slot, Entry, Key, NullKey
  <2>3. LimitCheckNeverThrows'
    BY <1>1, ForwardStep DEF LimitCheckNeverThrows
  <2>4. ASSUME NEW c \in Slot, dupplikatListe'[c].key # NullKey
        PROVE  dupplikatListe'[c].addcount >= 1 /\ BackupKey(dupplikatListe'[c].key) \in backup'
    <3>1. CASE c = dupplikatListenPointer
      BY <1>1, <3>1, ForwardStep DEF TypeOK
    <3>2. CASE c # dupplikatListenPointer
      BY <1>1, <2>4, <3>2, ForwardStep DEF TypeOK
    <3>3. QED
      BY <3>1, <3>2
  <2>5. QED
    BY <2>2, <2>3, <2>4 DEF BackupKey, NullKey, Slot
<1>2. ASSUME NEW k \in Key, handleMessage(k), limitCheck(k) # "forward"
      PROVE  DupListInv'
  <2>1. /\ UNCHANGED <<dupplikatListe, dupplikatListenPointer, backup>>
        /\ verdict' = [key |-> k, result |-> "discard"]
    BY <1>2, DiscardStep
  <2>2. verdict' \in [key : Key \cup {NullKey}, result : {"none", "forward", "discard", "error"}]
    BY <2>1
  <2>3. TypeOK'
    BY <2>1, <2>2 DEF TypeOK, Slot, Entry, Key, NullKey
  <2>4. LimitCheckNeverThrows'
    BY <2>1 DEF LimitCheckNeverThrows
  <2>5. QED
    BY <2>1, <2>3, <2>4 DEF Slot, NullKey, BackupKey
<1>3. CASE UNCHANGED vars
  BY <1>3 DEF vars, TypeOK, Entry, Slot, Key, NullKey, BackupKey, LimitCheckNeverThrows
<1>4. QED
  BY <1>1, <1>2, <1>3 DEF Next

LEMMA InvariantInit ==
  ASSUME initialize
  PROVE  DupListInv
  BY DupListAssumption
  DEF initialize, DupListInv, TypeOK, Entry, Slot, LimitCheckNeverThrows

(* The duplicate list keeps its types, and every identity in the array is  *)
(* known to the checking map (ListenErkennung.cc 200-279).                 *)
THEOREM DupListInvariant == Spec => []DupListInv
<1>1. initialize => DupListInv
  BY InvariantInit
<1>2. DupListInv /\ [Next]_vars => DupListInv'
  BY InvariantStep
<1>3. QED
  BY <1>1, <1>2, PTL DEF Spec

(* The two exceptions of ListenErkennung::limitCheck are unreachable.      *)
THEOREM NeverThrows == Spec => []LimitCheckNeverThrows
<1>1. DupListInv => LimitCheckNeverThrows
  BY DEF DupListInv
<1>2. QED
  BY <1>1, DupListInvariant, PTL

(* The circular array keeps its length, the pointer stays within it, and   *)
(* all entries are identities or empty (initialize, addMessage).           *)
THEOREM ArrayIsTyped == Spec => []TypeOK
<1>1. DupListInv => TypeOK
  BY DEF DupListInv
<1>2. QED
  BY <1>1, DupListInvariant, PTL

-----------------------------------------------------------------------------
(* After a forward the slots are looked at in the same order, shifted by   *)
(* one behind the slot just written.                                       *)
LEMMA SearchOrderShifts ==
  ASSUME dupplikatListenPointer \in Slot,
         dupplikatListenPointer' =
           IF dupplikatListenPointer + 1 = ListSize THEN 0 ELSE dupplikatListenPointer + 1
  PROVE  /\ SearchOrder(1)' = dupplikatListenPointer
         /\ \A i \in 2 .. ListSize : /\ SearchOrder(i)' = SearchOrder(i - 1)
                                     /\ SearchOrder(i)' # dupplikatListenPointer
  BY DupListAssumption DEF SearchOrder, Slot

(* A forwarded frame becomes the newest entry, and every other entry is    *)
(* read one place later.                                                   *)
LEMMA ForwardShiftsArray ==
  ASSUME DupListInv, NEW k \in Key, handleMessage(k), limitCheck(k) = "forward",
         NEW i \in 1 .. ListSize
  PROVE  dupplikatListe'[SearchOrder(i)'].key =
           IF i = 1 THEN k ELSE dupplikatListe[SearchOrder(i - 1)].key
<1>1. dupplikatListenPointer \in Slot /\ dupplikatListe \in [Slot -> Entry]
  BY DEF DupListInv, TypeOK
<1>2. CASE i = 1
  BY <1>1, <1>2, ForwardStep, SearchOrderShifts
<1>3. CASE i # 1
  <2>1. i \in 2 .. ListSize /\ i - 1 \in 1 .. ListSize
    BY <1>3, DupListAssumption
  <2>2. SearchOrder(i)' = SearchOrder(i - 1) /\ SearchOrder(i)' # dupplikatListenPointer
    BY <1>1, <2>1, ForwardStep, SearchOrderShifts
  <2>3. SearchOrder(i - 1) \in Slot
    BY <1>1, <2>1, SearchOrderIsABijection
  <2>4. dupplikatListe'[SearchOrder(i - 1)] = dupplikatListe[SearchOrder(i - 1)]
    BY <1>1, <2>2, <2>3, ForwardStep
  <2>5. QED
    BY <1>3, <2>2, <2>4
<1>4. QED
  BY <1>2, <1>3

(* A forwarded frame is a Forward step of the window. *)
LEMMA ForwardRefines ==
  ASSUME DupListInv, NEW k \in Key, handleMessage(k), limitCheck(k) = "forward"
  PROVE  Window!Forward(k)
<1> DEFINE recent == [i \in 1 .. ListSize |-> dupplikatListe[SearchOrder(i)].key]
<1>1. dupplikatListenPointer \in Slot /\ dupplikatListe \in [Slot -> Entry]
  BY DEF DupListInv, TypeOK
<1>2. ~ Window!Remembered(k)
  BY <1>1, ForwardStep, SearchOrderIsABijection DEF Window!Remembered
<1>3. \A i \in 1 .. ListSize :
        dupplikatListe'[SearchOrder(i)'].key = IF i = 1 THEN k ELSE recent[i - 1]
  <2> SUFFICES ASSUME NEW i \in 1 .. ListSize
               PROVE  dupplikatListe'[SearchOrder(i)'].key = IF i = 1 THEN k ELSE recent[i - 1]
    OBVIOUS
  <2>1. i # 1 => i - 1 \in 1 .. ListSize
    BY DupListAssumption
  <2>2. QED
    BY <2>1, ForwardShiftsArray
<1>4. QED
  BY <1>2, <1>3, ForwardStep DEF Window!Forward

(* A discarded frame is a Discard step of the window. *)
LEMMA DiscardRefines ==
  ASSUME DupListInv, NEW k \in Key, handleMessage(k), limitCheck(k) # "forward"
  PROVE  Window!Discard(k)
<1>1. dupplikatListenPointer \in Slot
  BY DEF DupListInv, TypeOK
<1>2. Window!Remembered(k)
  BY <1>1, DiscardStep, SearchOrderIsABijection DEF Window!Remembered
<1>3. QED
  BY <1>2, DiscardStep DEF Window!Discard, SearchOrder

(* The circular array of ListenErkennung implements the window over the    *)
(* last ListSize forwarded identities.                                     *)
THEOREM Refinement == Spec => ImplementsWindow
<1>1. initialize => Window!Init
  BY DupListAssumption, SearchOrderIsABijection DEF initialize, Window!Init, Slot
<1>2. DupListInv /\ [Next]_vars => [Window!Next]_(Window!vars)
  <2> SUFFICES ASSUME DupListInv, [Next]_vars
               PROVE  [Window!Next]_(Window!vars)
    OBVIOUS
  <2>1. ASSUME NEW k \in Key, handleMessage(k)
        PROVE  Window!Next
    BY <2>1, ForwardRefines, DiscardRefines DEF Window!Next
  <2>2. CASE UNCHANGED vars
    BY <2>2 DEF vars, Window!vars, SearchOrder
  <2>3. QED
    BY <2>1, <2>2 DEF Next
<1>3. QED
  BY <1>1, <1>2, DupListInvariant, PTL DEF Spec, ImplementsWindow, Window!Spec

-----------------------------------------------------------------------------
(* The inductive invariant of the list with its history: read from the     *)
(* newest entry to the oldest, the array is the end of the history.        *)
ArrayIsRecentHistory ==
  \A i \in 1 .. ListSize :
    dupplikatListe[SearchOrder(i)].key =
      IF i <= Len(forwarded) THEN forwarded[Len(forwarded) - i + 1] ELSE NullKey

HistoryInv ==
  /\ DupListInv
  /\ forwarded \in Seq(Key)
  /\ ArrayIsRecentHistory
  /\ RepeatsAreFarApart

(* A step with the history is a step of the list. *)
LEMMA HistoryStep ==
  ASSUME DupListInv, NEW k \in Key, handleMessage(k)
  PROVE  DupListInv'
  BY InvariantStep DEF Next

(* A forwarded frame is appended to the history; if it was forwarded       *)
(* before, it has left the array, hence the last ListSize.                 *)
LEMMA ForwardKeepsHistory ==
  ASSUME HistoryInv, NEW k \in Key, handleMessage(k), limitCheck(k) = "forward",
         forwarded' = Append(forwarded, k)
  PROVE  HistoryInv'
<1>1. /\ DupListInv /\ forwarded \in Seq(Key) /\ Len(forwarded) \in Nat
      /\ dupplikatListenPointer \in Slot
  BY DEF HistoryInv, DupListInv, TypeOK
<1>2. /\ forwarded' \in Seq(Key)
      /\ Len(forwarded') = Len(forwarded) + 1
      /\ forwarded'[Len(forwarded) + 1] = k
      /\ \A i \in 1 .. Len(forwarded) : forwarded'[i] = forwarded[i]
  BY <1>1
<1>3. DupListInv'
  BY <1>1, HistoryStep
<1>4. ArrayIsRecentHistory'
  <2>1. ASSUME NEW i \in 1 .. ListSize
        PROVE  dupplikatListe'[SearchOrder(i)'].key =
                 IF i <= Len(forwarded') THEN forwarded'[Len(forwarded') - i + 1] ELSE NullKey
    <3>1. CASE i = 1
      BY <1>1, <1>2, <3>1, ForwardShiftsArray
    <3>2. CASE i # 1
      <4>1. i - 1 \in 1 .. ListSize
        BY <3>2, DupListAssumption
      <4>2. dupplikatListe'[SearchOrder(i)'].key =
              IF i - 1 <= Len(forwarded) THEN forwarded[Len(forwarded) - (i - 1) + 1] ELSE NullKey
        <5>1. dupplikatListe'[SearchOrder(i)'].key = dupplikatListe[SearchOrder(i - 1)].key
          BY <1>1, <3>2, ForwardShiftsArray
        <5>2. QED
          BY <4>1, <5>1 DEF HistoryInv, ArrayIsRecentHistory
      <4>3. CASE i - 1 <= Len(forwarded)
        <5>1. Len(forwarded) - (i - 1) + 1 \in 1 .. Len(forwarded)
          BY <1>1, <3>2, <4>1, <4>3
        <5>2. Len(forwarded') - i + 1 = Len(forwarded) - (i - 1) + 1 /\ i <= Len(forwarded')
          BY <1>1, <1>2, <4>1, <4>3
        <5>3. QED
          BY <1>2, <4>2, <4>3, <5>1, <5>2
      <4>4. CASE ~ (i - 1 <= Len(forwarded))
        <5>1. ~ (i <= Len(forwarded'))
          BY <1>1, <1>2, <4>1, <4>4
        <5>2. QED
          BY <4>2, <4>4, <5>1
      <4>5. QED
        BY <4>3, <4>4
    <3>3. QED
      BY <3>1, <3>2
  <2>2. QED
    BY <2>1 DEF ArrayIsRecentHistory, NullKey
<1>5. \A i \in 1 .. Len(forwarded) : forwarded[i] = k => Len(forwarded) + 1 - i > ListSize
  <2>1. SUFFICES ASSUME NEW i \in 1 .. Len(forwarded), forwarded[i] = k,
                        ~ (Len(forwarded) + 1 - i > ListSize)
                 PROVE  FALSE
    OBVIOUS
  <2>2. Len(forwarded) + 1 - i \in 1 .. ListSize
    BY <1>1, <2>1, DupListAssumption
  <2>3. dupplikatListe[SearchOrder(Len(forwarded) + 1 - i)].key = k
    BY <1>1, <2>1, <2>2 DEF HistoryInv, ArrayIsRecentHistory
  <2>4. SearchOrder(Len(forwarded) + 1 - i) \in Slot
    BY <1>1, <2>2, SearchOrderIsABijection
  <2>5. QED
    BY <1>1, <2>3, <2>4, ForwardStep
<1>6. ASSUME NEW i \in DOMAIN forwarded', NEW j \in DOMAIN forwarded',
             i < j, forwarded'[i] = forwarded'[j]
      PROVE  j - i > ListSize
  <2>1. i \in 1 .. Len(forwarded) /\ j \in 1 .. Len(forwarded) + 1
    BY <1>1, <1>2, <1>6
  <2>2. CASE j = Len(forwarded) + 1
    BY <1>2, <1>5, <1>6, <2>1, <2>2
  <2>3. CASE j # Len(forwarded) + 1
    <3>1. j \in 1 .. Len(forwarded)
      BY <1>1, <2>1, <2>3
    <3>2. i \in DOMAIN forwarded /\ j \in DOMAIN forwarded /\ forwarded[i] = forwarded[j]
      BY <1>1, <1>2, <1>6, <2>1, <3>1
    <3>3. QED
      BY <1>6, <3>2 DEF HistoryInv, RepeatsAreFarApart
  <2>4. QED
    BY <2>2, <2>3
<1>7. verdict'.result # "discard"
  BY <1>1, ForwardStep
<1>8. RepeatsAreFarApart'
  BY <1>6, <1>7 DEF RepeatsAreFarApart
<1>9. QED
  BY <1>2, <1>3, <1>4, <1>8 DEF HistoryInv, Key

(* A discarded frame changes neither the array nor the history, and it is  *)
(* one of the last ListSize forwarded.                                     *)
LEMMA DiscardKeepsHistory ==
  ASSUME HistoryInv, NEW k \in Key, handleMessage(k), limitCheck(k) # "forward",
         forwarded' = forwarded
  PROVE  HistoryInv'
<1>1. /\ DupListInv /\ forwarded \in Seq(Key) /\ Len(forwarded) \in Nat
      /\ dupplikatListenPointer \in Slot
  BY DEF HistoryInv, DupListInv, TypeOK
<1>2. /\ UNCHANGED <<dupplikatListe, dupplikatListenPointer, backup>>
      /\ verdict' = [key |-> k, result |-> "discard"]
      /\ \E c \in Slot : dupplikatListe[c].key = k
  BY <1>1, DiscardStep
<1>3. DupListInv'
  BY <1>1, HistoryStep
<1>4. ArrayIsRecentHistory'
  BY <1>2 DEF HistoryInv, ArrayIsRecentHistory, SearchOrder, NullKey
<1>5. \E i \in DOMAIN forwarded : forwarded[i] = k /\ Len(forwarded) - i < ListSize
  <2>1. PICK i \in 1 .. ListSize : dupplikatListe[SearchOrder(i)].key = k
    BY <1>1, <1>2, SearchOrderIsABijection
  <2>2. i <= Len(forwarded) /\ forwarded[Len(forwarded) - i + 1] = k
    BY <2>1, FramesAreNotNull DEF HistoryInv, ArrayIsRecentHistory
  <2>3. /\ Len(forwarded) - i + 1 \in DOMAIN forwarded
        /\ Len(forwarded) - (Len(forwarded) - i + 1) < ListSize
    BY <1>1, <2>2, DupListAssumption
  <2>4. QED
    BY <2>2, <2>3
<1>6. RepeatsAreFarApart'
  BY <1>2, <1>5 DEF HistoryInv, RepeatsAreFarApart
<1>7. QED
  BY <1>1, <1>3, <1>4, <1>6 DEF HistoryInv, Key

(* The invariant with the history is inductive. *)
LEMMA HistoryInductive ==
  ASSUME HistoryInv, [MCNext]_<<vars, forwarded>>
  PROVE  HistoryInv'
<1>1. ASSUME NEW k \in Key, handleMessage(k),
             forwarded' = IF verdict'.result = "forward" THEN Append(forwarded, k) ELSE forwarded
      PROVE  HistoryInv'
  <2>1. DupListInv
    BY DEF HistoryInv
  <2>2. CASE limitCheck(k) = "forward"
    <3>1. forwarded' = Append(forwarded, k)
      BY <1>1, <2>1, <2>2, ForwardStep
    <3>2. QED
      BY <1>1, <2>2, <3>1, ForwardKeepsHistory
  <2>3. CASE limitCheck(k) # "forward"
    <3>1. forwarded' = forwarded
      BY <1>1, <2>1, <2>3, DiscardStep
    <3>2. QED
      BY <1>1, <2>3, <3>1, DiscardKeepsHistory
  <2>4. QED
    BY <2>2, <2>3
<1>2. CASE UNCHANGED <<vars, forwarded>>
  <2>1. DupListInv'
    BY <1>2, InvariantStep DEF HistoryInv
  <2>2. QED
    BY <1>2, <2>1 DEF HistoryInv, ArrayIsRecentHistory, RepeatsAreFarApart, SearchOrder,
                      NullKey, Key, vars
<1>3. QED
  BY <1>1, <1>2 DEF MCNext

(* No identity is forwarded twice within ListSize forwarded frames, and a  *)
(* frame is discarded only when it is one of the last ListSize forwarded   *)
(* (ListenErkennung::checkFrame, addMessage), for every list size.         *)
THEOREM ForwardedOnceWithinTheList == MCSpec => []RepeatsAreFarApart
<1>1. MCInit => HistoryInv
  <2> SUFFICES ASSUME MCInit
               PROVE  HistoryInv
    OBVIOUS
  <2>1. DupListInv /\ forwarded = <<>>
    BY InvariantInit DEF MCInit
  <2>2. dupplikatListenPointer \in Slot
    BY <2>1 DEF DupListInv, TypeOK
  <2>3. ArrayIsRecentHistory
    BY <2>1, <2>2, SearchOrderIsABijection DEF MCInit, initialize, ArrayIsRecentHistory
  <2>4. RepeatsAreFarApart
    BY <2>1 DEF MCInit, initialize, RepeatsAreFarApart
  <2>5. QED
    BY <2>1, <2>3, <2>4 DEF HistoryInv
<1>2. HistoryInv /\ [MCNext]_<<vars, forwarded>> => HistoryInv'
  BY HistoryInductive
<1>3. HistoryInv => RepeatsAreFarApart
  BY DEF HistoryInv
<1>4. QED
  BY <1>1, <1>2, <1>3, PTL DEF MCSpec
=============================================================================
