--------------------------- MODULE MCScenariosSession ---------------------------
(***************************************************************************)
(* Session in two settings, one of which a behaviour keeps: progress, with *)
(* a fair schedule and connections that do not overlap, and overlap, where *)
(* a peer may reconnect before the other notices its old channel closed    *)
(* and canConnect may refuse.                                              *)
(***************************************************************************)
EXTENDS MCSession

VARIABLE setting

Overlapping == INSTANCE Session WITH Overlaps <- TRUE, Fickle <- TRUE

SettingsInit == setting \in {"progress", "overlap"} /\ Init

SettingsNext ==
  /\ UNCHANGED setting
  /\ \/ setting = "progress" /\ Next
     \/ setting = "overlap" /\ Overlapping!Next

\* Session's fairness, in the setting about progress.
Progressing(A) == setting = "progress" /\ A

SettingsFairness ==
  /\ \A p \in Peer : WF_vars(Progressing(\E c \in Conn : Served(p, c)))
  /\ \A p \in Peer : WF_vars(Progressing(\E q \in Peer : DepartureTimerExpired(p, q)))
  /\ \A p \in Peer : WF_vars(Progressing(Teardown(p) \/ Stop(p)))

SettingsSpec == SettingsInit /\ [][SettingsNext]_<<setting, vars>> /\ SettingsFairness

\* As long as connections do not overlap, what a peer believes of a live one
\* dates from that peer's present run: the sync program of what it holds, and
\* the session of its departure.
FreshUnlessOverlapping == setting = "progress" => FreshPeer /\ DepartingIsCurrent

\* Handshakes end: a channel open at both ends is established at both or one
\* end closes; and a peer that went down for good is forgotten.
AgreesInTheEnd == setting = "progress" => OpenEstablishes /\ GoneIsForgotten
=============================================================================
