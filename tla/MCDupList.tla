------------------------------ MODULE MCDupList ------------------------------
(* A small duplicate list for TLC, with the history of what it forwarded.   *)
EXTENDS DupList, Sequences

(* Two addresses the map cannot tell apart. *)
SameNumber == [s \in Source |-> 7]

CONSTANT MaxForwards  \* bound on the frames forwarded in one behaviour

VARIABLE forwarded    \* the identities forwarded, oldest first

MCInit == initialize /\ forwarded = <<>>

MCNext ==
  \E k \in Key :
    /\ Len(forwarded) < MaxForwards \/ limitCheck(k) # "forward"
    /\ handleMessage(k)
    /\ forwarded' = IF verdict'.result = "forward" THEN Append(forwarded, k) ELSE forwarded

MCSpec == MCInit /\ [][MCNext]_<<vars, forwarded>>

(* A frame is forwarded a second time only after ListSize other frames     *)
(* were forwarded in between, and a discarded frame is among the last      *)
(* ListSize forwarded ones (the purpose of ListenErkennung: no frame       *)
(* leaves a port twice while the list is long enough).                     *)
RepeatsAreFarApart ==
  /\ \A i, j \in DOMAIN forwarded : i < j /\ forwarded[i] = forwarded[j] => j - i > ListSize
  /\ verdict.result = "discard" =>
       \E i \in DOMAIN forwarded : forwarded[i] = verdict.key /\ Len(forwarded) - i < ListSize
=============================================================================
