------------------------------- MODULE MCTicToc -------------------------------
(* The tutorial programs on their networks, but for the two that keep     *)
(* several messages at once, which run on the first three modules.        *)
EXTENDS TicToc

Pair == {{0, 1}}
Line == {{0, 1}, {1, 2}}
Tree == {{0, 1}, {1, 2}, {1, 4}, {3, 4}, {4, 5}}

Run(programs, links) == {[program |-> p, links |-> links] : p \in programs}

MCNetworks ==
  Run({"Txc1", "Txc2", "Txc3", "Txc4", "Txc5", "Txc6", "Txc7", "Txc8", "Txc9"}, Pair)
    \cup Run({"Txc16", "Txc13Terminal"}, Line)
    \cup Run({"Txc10", "Txc11", "Txc12", "Txc13", "Txc14", "Txc15", "Txc10Terminal",
              "Txc11Terminal", "Txc12Terminal", "Txc16Terminal"}, Tree)
=============================================================================
