------------------------------ MODULE MCLimiter ------------------------------
(* A ring port with limited low traffic, with the history of what its time *)
(* earned and what its CPU's low frames spent.                              *)
EXTENDS MCSchedulerPort

VARIABLES
  earned,   \* bytes of credit since the start: floor(time * framebyteLimit / 8)
  sentLow   \* bytes of low CPU frames sent since the start

MCInit == Init /\ earned = 0 /\ sentLow = 0

MCNext ==
  /\ Next
  /\ earned' = IF sched'.credit > sched.credit THEN earned + 1 ELSE earned
  /\ sentLow' = IF Starts /\ Limited(Last(sched'.out)) THEN sentLow + Last(sched'.out).len ELSE sentLow

MCSpec == MCInit /\ [][MCNext]_<<vars, earned, sentLow>> /\ Fairness

(* With a limit of x Byte/s, a node sends no more low frames of its own    *)
(* than tokens were generated (omnetpp.ini 32, 020_Vorgehen_Methoden.lyx   *)
(* 3793-3795): x bytes per second are 8 for every byte of credit, which    *)
(* the code counts at x / 8 per second.  The code adds the credit since    *)
(* the last frame again at every look at the queue.                        *)
OnlyGeneratedTokensAreSpent == sentLow <= 8 * (earned + 1)
=============================================================================
