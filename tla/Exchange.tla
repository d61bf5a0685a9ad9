------------------------------- MODULE Exchange -------------------------------
(***************************************************************************)
(* What stop and wait promises: in each round the message of the round     *)
(* is heard by the other side, then answered to this side, each once, and  *)
(* only then the next round begins; and each round comes to its end.       *)
(***************************************************************************)
EXTENDS Naturals

CONSTANT Rounds  \* bound: the rounds looked at

VARIABLES
  round,  \* the round that runs, 0 before the first
  heard   \* the message of this round was heard

vars == <<round, heard>>

Init == round = 0 /\ heard = FALSE

Begin == round = 0 /\ round' = 1 /\ heard' = FALSE

Hear == round > 0 /\ ~ heard /\ heard' = TRUE /\ UNCHANGED round

Answer == heard /\ round < Rounds /\ round' = round + 1 /\ heard' = FALSE

Next == Begin \/ Hear \/ Answer

Progress == \A r \in 1 .. Rounds - 1 : round = r ~> round = r + 1

Spec == Init /\ [][Next]_vars /\ Progress
=============================================================================
