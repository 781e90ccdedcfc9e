------------------------------- MODULE Stream -------------------------------
(***************************************************************************)
(* What a `Line` promises, with no documents, stores or acknowledgements.  *)
(* Each lineage of an outbox is one stream.  What its author writes to it  *)
(* is given to the other peer in the order written, none of it left out;   *)
(* what was given is given again only to a peer that started anew; and an  *)
(* author that starts anew forgets at most what nobody was given.          *)
(***************************************************************************)
EXTENDS Naturals, Sequences

CONSTANTS Peer, Lineage

VARIABLES
  author,     \* who writes a stream, or "nobody" yet
  log,        \* what was written to it, in order
  high,       \* how much of it the other peer was given
  given,      \* everything a peer was given, in order
  anew        \* the peers that started anew

vars == <<author, log, high, given, anew>>

Init ==
  /\ author = [l \in Lineage |-> "nobody"]
  /\ log = [l \in Lineage |-> <<>>]
  /\ high = [l \in Lineage |-> 0]
  /\ given = [p \in Peer |-> <<>>]
  /\ anew = {}

\* A stream has one author, who alone writes it, at its end.
Writes(p) ==
  \A l \in Lineage :
    /\ author'[l] = author[l] \/ (author[l] = "nobody" /\ author'[l] = p)
    /\ log'[l] = log[l] \/ (author'[l] = p /\ Len(log'[l]) > Len(log[l]))
    /\ SubSeq(log'[l], 1, Len(log[l])) = log[l]

\* Messages j+1 .. k of another's stream.
Gives(p, l, j, k) ==
  /\ author[l] \notin {"nobody", p}
  /\ j <= high[l] /\ (j < high[l] => p \in anew)
  /\ given' = [given EXCEPT ![p] = @ \o SubSeq(log[l], j + 1, k)]
  /\ high' = [high EXCEPT ![l] = IF k > @ THEN k ELSE @]

\* One step of a peer writes, is given messages, or both.
Acts(p) ==
  /\ Writes(p)
  /\ \/ UNCHANGED <<given, high>>
     \/ \E l \in Lineage : \E k \in 1 .. Len(log[l]) : \E j \in 0 .. k - 1 : Gives(p, l, j, k)
  /\ UNCHANGED anew

StartsAnew(p) ==
  /\ anew' = anew \cup {p}
  /\ \A l \in Lineage :
       \/ log'[l] = log[l]
       \/ author[l] = p /\ \E k \in high[l] .. Len(log[l]) : log'[l] = SubSeq(log[l], 1, k)
  /\ UNCHANGED <<author, high, given>>

Next == \E p \in Peer : Acts(p) \/ StartsAnew(p)

Spec == Init /\ [][Next]_vars
=============================================================================
