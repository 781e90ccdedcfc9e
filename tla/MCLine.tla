------------------------------- MODULE MCLine -------------------------------
EXTENDS Line, TLC
CONSTANTS a, b
MCPeer == {a, b}
MCMaxSends == a :> 3 @@ b :> 1

\* What is left of the bounds: three messages of a and a restart, one message of
\* each and a restart, or all the messages and no restart.
MCInit ==
  /\ Fresh
  /\ \/ sends = (a :> 0 @@ b :> 1) /\ restarts = 0
     \/ sends = (a :> 2 @@ b :> 0) /\ restarts = 0
     \/ sends = (a :> 0 @@ b :> 0) /\ restarts = 1

MCSpec == MCInit /\ [][Next]_vars /\ Fairness
=============================================================================
