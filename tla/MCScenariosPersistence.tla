------------------------- MODULE MCScenariosPersistence -------------------------
(***************************************************************************)
(* Persistence in five settings, one of which a behaviour keeps: crash,    *)
(* with the bounds of the cfg, where runs of the process die, their writes *)
(* stay under way and another process takes the seat; demand, where the    *)
(* document is destroyed or reset and registered again; retry, where       *)
(* demands meet failing writes; compaction, among the appends and          *)
(* compactions of other seats; and progress, with a fair schedule.         *)
(***************************************************************************)
EXTENDS Persistence

VARIABLE setting

\* "No version" for TLC: a set it can compare with versions, and none of them.
MCNothing == {[by |-> "nobody", pos |-> 0, run |-> 0]}

Demanding == INSTANCE Persistence WITH MaxOwn <- 1, MaxOther <- 0, MaxRuns <- 1,
    MaxFaults <- 0, MaxGens <- 2, MaxDemands <- 1, MaxMarks <- 4, Strays <- FALSE, Rivals <- TRUE

Retrying == INSTANCE Persistence WITH MaxOwn <- 1, MaxOther <- 0, MaxRuns <- 1,
    MaxFaults <- 1, MaxGens <- 1, MaxDemands <- 1, MaxMarks <- 4, Strays <- FALSE, Rivals <- FALSE

Compacting == INSTANCE Persistence WITH MaxOwn <- 1, MaxOther <- 1, MaxRuns <- 0,
    MaxFaults <- 0, MaxGens <- 1, MaxDemands <- 1, MaxMarks <- 4, Strays <- TRUE, Rivals <- FALSE

Progress == INSTANCE Persistence WITH MaxOwn <- 2, MaxOther <- 0, MaxRuns <- 0,
    MaxFaults <- 2, MaxGens <- 1, MaxDemands <- 0, MaxMarks <- 4, Strays <- FALSE, Rivals <- FALSE

SettingsInit == setting \in {"crash", "demand", "retry", "compaction", "progress"} /\ Init

SettingsNext ==
  /\ UNCHANGED setting
  /\ \/ setting = "crash" /\ Next
     \/ setting = "demand" /\ Demanding!Next
     \/ setting = "retry" /\ Retrying!Next
     \/ setting = "compaction" /\ Compacting!Next
     \/ setting = "progress" /\ Progress!Next

\* Persistence's fairness, in the setting about progress.
Progressing(A) == setting = "progress" /\ A

SettingsFairness ==
  /\ WF_vars(Progressing(Progress!Drain)) /\ WF_vars(Progressing(Progress!QuietPoint))
  /\ WF_vars(Progressing(Progress!RetryFires)) /\ WF_vars(Progressing(Progress!StoreCalls))

SettingsSpec == SettingsInit /\ [][SettingsNext]_<<setting, vars>> /\ SettingsFairness

\* With a store that fails finitely often, a document held back for the store
\* is let go in the end, and an unload ends.
SettlesInTheEnd == setting = "progress" => GateReopens /\ UnloadEnds
=============================================================================
