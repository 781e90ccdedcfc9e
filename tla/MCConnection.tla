---------------------------- MODULE MCConnection ----------------------------
EXTENDS Connection, TLC
CONSTANT d1
MCDoc == {d1}

\* What is left of the bounds: three messages and a failing socket, or one
\* message and two.
MCInit ==
  /\ Fresh /\ timeouts = 0
  /\ \/ sends = 0 /\ faults = 1
     \/ sends = 2 /\ faults = 0

MCSpec == MCInit /\ [][Next]_vars /\ Fairness
=============================================================================
