-------------------------- MODULE SessionProgram --------------------------
(***************************************************************************)
(* The session program: which channels an Exchange has, which peers they   *)
(* lead to, and when a peer is connected, disconnected or departed.  Pure: *)
(* each operator takes the session and returns the next one, with the      *)
(* peer's transition and the messages and timers it asks for.              *)
(*                                                                         *)
(* A channel is "none" (no entry), "added", "sent" (our establish went     *)
(* out), or "established" (theirs came in too).  The code keeps a flag and *)
(* an identity; the identity is never set without the flag.                *)
(***************************************************************************)
EXTENDS Naturals, FiniteSets

CONSTANTS
  Peer,   \* the seats
  Conn,   \* the channels that will ever be opened
  Grace   \* is departureTimeout more than 0?

ASSUME GraceAssumption == Grace \in BOOLEAN

ChannelState == {"none", "added", "sent", "established"}
Transition   == {"none", "established", "reconnected", "disconnected", "departed"}

Session == [channels : [Conn -> ChannelState], peers : SUBSET Peer,
            links : [Peer -> SUBSET Conn], departing : SUBSET Peer]

initSession == [channels |-> [c \in Conn |-> "none"], peers |-> {},
                links |-> [q \in Peer |-> {}], departing |-> {}]

\* A peer in the map has a channel or waits for one; out of it, it has departed.
Status(s, q) ==
  IF q \notin s.peers THEN "absent"
  ELSE IF s.links[q] = {} THEN "disconnected" ELSE "connected"

\* `change`: the peer's transition, told to the sync program and the feed, and to the
\* departure timer, which "disconnected" arms and "reconnected" cancels.
\* `says`: an establish is sent on the channel.
Step(s, change) == [session |-> s, change |-> change, says |-> FALSE]
Quiet(s) == Step(s, "none")
Says(step) == [step EXCEPT !.says = TRUE]

Without(s, q) == [s EXCEPT !.peers = @ \ {q}, !.links[q] = {}, !.departing = @ \ {q}]

CompleteEstablish(s, c, q) ==
  LET linked == [s EXCEPT !.links[q] = @ \cup {c}, !.peers = @ \cup {q}]
  IN CASE q \notin s.peers -> Step(linked, "established")
       [] q \in s.peers /\ s.links[q] = {} ->
            Step([linked EXCEPT !.departing = @ \ {q}], "reconnected")
       [] q \in s.peers /\ s.links[q] # {} -> Quiet(linked)

OnChannelAdded(s, c) == Quiet([s EXCEPT !.channels[c] = "added"])

OnChannelEstablish(s, c) ==
  IF s.channels[c] = "added"
  THEN Says(Quiet([s EXCEPT !.channels[c] = "sent"]))
  ELSE Quiet(s)

OnChannelRemoved(s, c, q) ==
  LET gone == [s EXCEPT !.channels[c] = "none", !.links[q] = @ \ {c}]
  IN CASE s.channels[c] # "established" \/ q \notin s.peers ->
            Quiet([s EXCEPT !.channels[c] = "none"])
       [] s.channels[c] = "established" /\ q \in s.peers /\ gone.links[q] # {} -> Quiet(gone)
       [] s.channels[c] = "established" /\ q \in s.peers /\ gone.links[q] = {} ->
            IF q \in s.departing \/ ~Grace
            THEN Step(Without(gone, q), "departed")
            ELSE Step(gone, "disconnected")

\* Faulty variant: an establish is not answered.
OnEstablishUnanswered(s, c, q, refused) ==
  CASE s.channels[c] = "none" -> Quiet(s)
    [] s.channels[c] # "none" /\ refused -> OnChannelRemoved(s, c, q)
    [] s.channels[c] = "established" /\ ~refused -> Quiet(s)
    [] s.channels[c] \in {"added", "sent"} /\ ~refused ->
         CompleteEstablish([s EXCEPT !.channels[c] = "established"], c, q)

\* A refused peer is not answered: its channel is removed, without our identity.
OnEstablishReceived(s, c, q, refused) ==
  CASE s.channels[c] = "none" -> Quiet(s)
    [] s.channels[c] # "none" /\ refused -> OnChannelRemoved(s, c, q)
    [] s.channels[c] = "established" /\ ~refused -> Quiet(s)
    [] s.channels[c] \in {"added", "sent"} /\ ~refused ->
         Says(CompleteEstablish([s EXCEPT !.channels[c] = "established"], c, q))

OnDepartReceived(s, c, q) ==
  CASE s.channels[c] # "established" \/ q \notin s.peers -> Quiet(s)
    [] s.channels[c] = "established" /\ q \in s.peers /\ s.links[q] = {} ->
         Step(Without(s, q), "departed")
    [] s.channels[c] = "established" /\ q \in s.peers /\ s.links[q] # {} ->
         Quiet([s EXCEPT !.departing = @ \cup {q}])

OnDepartureTimerExpired(s, q) ==
  IF q \in s.peers /\ s.links[q] = {}
  THEN Step(Without(s, q), "departed")
  ELSE Quiet(s)
=============================================================================
