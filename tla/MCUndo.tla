------------------------------- MODULE MCUndo -------------------------------
(***************************************************************************)
(* Undo in four settings, one of which a behaviour keeps: crash, with the  *)
(* bounds of the cfg; leave, where documents are unloaded or destroyed;    *)
(* both, around a single request; and gestures, where nothing fails and    *)
(* three steps meet in the lists.                                          *)
(***************************************************************************)
EXTENDS Undo, TLC
CONSTANTS d1, d2

VARIABLE setting

MCDoc == {d1, d2}
Swap == Permutations(MCDoc)

Leaving == INSTANCE Undo WITH MaxWrites <- 2, MaxRequests <- 2, MaxCrashes <- 0, MaxLeaves <- 1, MaxFaults <- 1
Both == INSTANCE Undo WITH MaxWrites <- 2, MaxRequests <- 1, MaxCrashes <- 1, MaxLeaves <- 1, MaxFaults <- 1
Gestures == INSTANCE Undo WITH MaxWrites <- 3, MaxRequests <- 2, MaxCrashes <- 0, MaxLeaves <- 0, MaxFaults <- 0

SettingsInit == setting \in {"crash", "leave", "both", "gestures"} /\ Init

SettingsNext ==
  /\ UNCHANGED setting
  /\ \/ setting = "crash" /\ Next
     \/ setting = "leave" /\ Leaving!Next
     \/ setting = "both" /\ Both!Next
     \/ setting = "gestures" /\ Gestures!Next

SettingsSpec == SettingsInit /\ [][SettingsNext]_<<setting, vars>>
=============================================================================
