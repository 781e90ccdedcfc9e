----------------------------- MODULE MCScenarios -----------------------------
(***************************************************************************)
(* Sync in four settings, one of which a behaviour keeps: leaving, where a *)
(* vetoes b's operations and serves what is not loaded; policy, where b    *)
(* keeps the document from a; relay, three in a line; and progress, with a *)
(* fair schedule, where b defers or rejects the document at first.         *)
(***************************************************************************)
EXTENDS Naturals
CONSTANTS a, b, c, None

VARIABLES setting, model, doc, stored, end, wire, began, faults

vars == <<setting, model, doc, stored, end, wire, began, faults>>

Two == {a, b}
Three == {a, b, c}
Pair == {Two}
ShareAll(P) == [p \in P |-> P]
Creates(P) == [p \in P |-> {"create"}]
Faults(drop, crash, leave, depart) ==
    [drop |-> drop, crash |-> crash, leave |-> leave, depart |-> depart]

Leaving == INSTANCE MCSync WITH Peer <- Two, Links <- Pair,
    Shares <- ShareAll(Two), Accepts <- [p \in Two |-> IF p = a THEN {a} ELSE Two],
    Serves <- {a}, Resolve <- Creates(Two),
    MaxWrites <- [p \in Two |-> 1], MaxFaults <- Faults(0, 0, 1, 0)

Policy == INSTANCE MCSync WITH Peer <- Two, Links <- Pair,
    Shares <- [p \in Two |-> IF p = b THEN {b} ELSE Two], Accepts <- ShareAll(Two),
    Serves <- {a}, Resolve <- Creates(Two),
    MaxWrites <- [p \in Two |-> 1], MaxFaults <- Faults(1, 1, 1, 1)

Relay == INSTANCE MCSync WITH Peer <- Three, Links <- {{a, b}, {b, c}},
    Shares <- ShareAll(Three), Accepts <- ShareAll(Three),
    Serves <- {}, Resolve <- Creates(Three),
    MaxWrites <- [p \in Three |-> IF p = b THEN 0 ELSE 1],
    MaxFaults <- Faults(1, 0, 0, 0)

Progress == INSTANCE MCSync WITH Peer <- Two, Links <- Pair,
    Shares <- ShareAll(Two), Accepts <- ShareAll(Two), Serves <- {},
    Resolve <- [p \in Two |-> IF p = b THEN {"defer", "reject"} ELSE {"create"}],
    MaxWrites <- [p \in Two |-> IF p = a THEN 1 ELSE 0],
    MaxFaults <- Faults(1, 1, 0, 0)

Init ==
    \/ setting = "leaving" /\ Leaving!QuietInit
    \/ setting = "policy" /\ Policy!Init
    \/ setting = "relay" /\ Relay!QuietInit
    \/ setting = "progress" /\ Progress!Init

Next ==
    /\ UNCHANGED setting
    /\ \/ setting = "leaving" /\ Leaving!Next
       \/ setting = "policy" /\ Policy!Next
       \/ setting = "relay" /\ Relay!Next
       \/ setting = "progress" /\ Progress!Next

\* Sync's fairness, in the setting about progress.
Progressing(A) == setting = "progress" /\ A

Fairness ==
    /\ \A p \in Two : /\ WF_Progress!vars(Progressing(Progress!Stored(p)))
                     /\ WF_Progress!vars(Progressing(Progress!Unloaded(p) \/ Progress!UnloadCancelled(p)))
    /\ \A p, q \in Two : /\ WF_Progress!vars(Progressing(p # q /\ Progress!Connect(p, q)))
                        /\ WF_Progress!vars(Progressing(p # q /\ Progress!Noticed(p, q)))
                        /\ WF_Progress!vars(Progressing(p # q /\ Progress!Receives(p, q)))

Spec == Init /\ [][Next]_vars /\ Fairness

\* What the module Sync says of baselines, relays, refusals, interest and
\* convergence, each in the settings made to break it.

\* A push leaves no hole and no advance is forgotten, when documents leave and
\* when they are relayed: what a peer is recorded as going to hold it holds or
\* an offer under way brings it, and what is relayed is sent, owed or on its way.
PushesArrive ==
    /\ setting = "leaving" => Leaving!BaselineArrives
    /\ setting = "relay" => Relay!BaselineArrives /\ Relay!OwedOrCurrent

\* A peer that refused our operations is sent no offer.
RefusedIsSentNothing == [][setting = "leaving" => Leaving!SendsNothingRefused]_vars

\* A peer that canShare keeps from the document hears nothing of it.
OnlySharersHear == setting = "policy" => Policy!OnlySharersHear

\* Peers that keep the document converge over their links, and once nothing
\* new is written they fall silent.
ConvergesInSilence == setting = "progress" => Progress!Converges /\ Progress!FallsSilent
=============================================================================
