------------------------------- MODULE MCSync -------------------------------
EXTENDS Sync
CONSTANTS a, b, c

EachOne == [p \in Peer |-> 1]
ShareAll == [p \in Peer |-> Peer]
Nobody == {}
Pair == {{a, b}}
Creates == [p \in Peer |-> {"create"}]

\* A quiet state: every document is loaded, every link is up, and all has
\* been said.
Linked(p) == {q \in Peer \ {p} : {p, q} \in Links}
Synced(Q) == [q \in Peer |-> IF q \notin Q THEN Unknown
    ELSE [Unknown EXCEPT !.status = "synced", !.held = Empty, !.will = Empty,
                         !.cursor = Empty]]
Quiet ==
    /\ model = [p \in Peer |-> [entry |-> Held(Empty), tracked |-> Linked(p),
                  docs |-> Synced(Linked(p)), reconciled |-> Linked(p)]]
    /\ doc = [p \in Peer |-> Empty]
    /\ stored = [p \in Peer |-> Empty]
    /\ end = [p \in Peer |-> [q \in Peer |->
                 IF q \in Linked(p) THEN "on" ELSE "off"]]
    /\ wire = [p \in Peer |-> [q \in Peer |-> <<>>]]
    /\ began = [p \in Peer |-> [q \in Peer |-> Empty]]

QuietInit == Quiet /\ faults = [f \in DOMAIN MaxFaults |-> 0]

\* One of each fault, of which some are left to happen: peers that find each
\* other while ends drop, peers crash and depart, or linked ones of which
\* one lets the document go.
OneOfEach == [f \in {"drop", "crash", "leave", "depart"} |-> 1]
Left(F) == faults = [f \in DOMAIN OneOfEach |-> IF f \in F THEN 0 ELSE 1]

FlakyInit ==
    \/ Started /\ Left({"drop", "crash"})
    \/ Started /\ Left({"depart", "drop"})
    \/ Started /\ Left({"depart", "crash"})
    \/ Quiet /\ Left({"leave"})

FlakySpec == FlakyInit /\ [][Next]_vars
=============================================================================
