---------------------------- MODULE SyncProgram ----------------------------
(***************************************************************************)
(* The sync program: what one peer knows of one document, of what every    *)
(* other peer holds of it, and what each input makes it say.  Pure, as the *)
(* program is: a handler takes the model and returns a reply, the model it *)
(* moves to, the offers the shell is asked to export and the messages it   *)
(* is asked to send.                                                       *)
(*                                                                         *)
(* The document has concurrent writers (Yjs, Loro), one per peer, and its  *)
(* history is kept: a version counts, for each writer, the operations      *)
(* held.  Serialized documents, lineages and trimmed history, and with     *)
(* them resets, are not modelled.  Metadata always matches.                *)
(***************************************************************************)
EXTENDS Naturals, Sequences

CONSTANTS
    Peer,      \* the peers, each a writer of the document
    None,      \* no version
    Shares,    \* Shares[p]: the peers p's canShare lets have the document
    Accepts,   \* Accepts[p]: the peers p's canAccept takes operations from
    Serves     \* the peers that load an unloaded document when asked for it

ASSUME PolicyAssumption ==
    /\ Shares \in [Peer -> SUBSET Peer]
    /\ Accepts \in [Peer -> SUBSET Peer]
    /\ Serves \subseteq Peer

-----------------------------------------------------------------------------
(* Versions.                                                               *)

Version == [Peer -> Nat]
ASSUME NoneAssumption == None \notin Version

Empty == [w \in Peer |-> 0]
Reaches(a, b) == \A w \in Peer : b[w] <= a[w]
Join(a, b) == [w \in Peer |-> IF a[w] < b[w] THEN b[w] ELSE a[w]]

-----------------------------------------------------------------------------
(* The model.                                                              *)

\* What is recorded of one peer and the document: whether we have anything
\* left to receive from it (status), which of our versions it holds, and will
\* hold once what was sent has arrived, which of its versions we hold, and
\* the offer it is owed.
PeerDoc == [status : {"none", "pending", "synced", "vacant"},
            held : Version \cup {None}, will : Version \cup {None},
            cursor : Version \cup {None}, owed : Version \cup {None},
            refuses : BOOLEAN]
Unknown == [status |-> "none", held |-> None, will |-> None, cursor |-> None,
            owed |-> None, refuses |-> FALSE]

Absent == [mode |-> "absent", leaving |-> FALSE, suspended |-> FALSE,
           reloading |-> FALSE, version |-> None]
Entry == [mode : {"absent", "deferred", "unloaded", "held"},
          leaving : BOOLEAN, suspended : BOOLEAN, reloading : BOOLEAN,
          version : Version \cup {None}]
Held(v) == [Absent EXCEPT !.mode = "held", !.version = v]

SyncModel == [entry : Entry, tracked : SUBSET Peer, docs : [Peer -> PeerDoc],
              reconciled : SUBSET Peer]
initSync == [entry |-> Absent, tracked |-> {},
             docs |-> [q \in Peer |-> Unknown], reconciled |-> {}]

TakesIn(m) == m.entry.mode = "held" /\ ~m.entry.leaving

\* The one place a peer's record changes: for a tracked peer that has a
\* status.  Reaching `synced` or `vacant` sets the readiness latch for good.
SetPeerDoc(m, q, r) ==
    IF q \notin m.tracked \/ r.status = "none" THEN m
    ELSE [m EXCEPT !.docs[q] = r,
                   !.reconciled = IF r.status = "pending" THEN @ ELSE @ \cup {q}]

-----------------------------------------------------------------------------
(* Replies.                                                                *)

NoOffers == [q \in Peer |-> None]
Silent == [q \in Peer |-> <<>>]
To(Q, messages) == [q \in Peer |-> IF q \in Q THEN messages ELSE <<>>]
Only(m) == [model |-> m, offers |-> NoOffers, says |-> Silent]
Saying(m, says) == [model |-> m, offers |-> NoOffers, says |-> says]
Offering(m, offers) == [model |-> m, offers |-> offers, says |-> Silent]

Present == [type |-> "present"]
Dismiss == [type |-> "dismiss"]
Vacant == [type |-> "vacant"]
Refuse == [type |-> "refuse"]
Accept(v) == [type |-> "accept", version |-> v]
Offer(from, v) == [type |-> "offer", from |-> from, version |-> v]
InterestTo(m, q, reciprocate) ==
    [type |-> "interest", version |-> m.entry.version,
     since |-> m.docs[q].cursor, reciprocate |-> reciprocate]

\* The tracked peers p lets have the document, and those of them content may
\* go to.
Sharers(p, m) == m.tracked \cap Shares[p]
ContentRecipients(p, m) == {q \in Sharers(p, m) : ~m.docs[q].refuses}

\* Ask every peer the document is shared with, each from its own cursor.
AskAll(p, m, before) ==
    [q \in Peer |-> IF q \in Sharers(p, m)
                    THEN before \o <<InterestTo(m, q, TRUE)>> ELSE <<>>]

\* Faulty variant: a push withheld at the export is owed to nobody.
PushForgets(p, m, except) ==
    Offering(m, [q \in Peer |-> IF q \in ContentRecipients(p, m) \ except
                                THEN m.docs[q].will ELSE None])

\* Push to every peer whose baseline is known, except the one the change came
\* from, and owe each an offer; one owed already keeps its earlier start.
Push(p, m, except) ==
    LET to == {q \in ContentRecipients(p, m) \ except :
                  m.docs[q].status \in {"pending", "synced"}
                  /\ m.docs[q].will # None}
    IN Offering([m EXCEPT !.docs = [q \in Peer |->
                    IF q \in to /\ @[q].owed = None
                    THEN [@[q] EXCEPT !.owed = m.docs[q].will] ELSE @[q]]],
                [q \in Peer |-> IF q \in to THEN m.docs[q].will ELSE None])

-----------------------------------------------------------------------------
(* Peers come and go.  Losing the last channel to a peer changes nothing;   *)
(* when it comes back, what it holds of ours is unknown again.             *)

\* Faulty variants: what it holds is remembered; it is told of our document
\* only the first time.
OnPeerAvailableRemembers(p, m, q) ==
    Saying([m EXCEPT !.tracked = @ \cup {q}],
           To(IF m.entry.mode \in {"held", "deferred"}
              THEN {q} \cap Shares[p] ELSE {}, <<Present>>))
OnPeerAvailableOnce(p, m, q) ==
    Saying([m EXCEPT !.tracked = @ \cup {q}],
           To(IF m.entry.mode \in {"held", "deferred"} /\ q \notin m.tracked
              THEN {q} \cap Shares[p] ELSE {}, <<Present>>))

OnPeerAvailable(p, m, q) ==
    LET forgotten == [Unknown EXCEPT !.status = m.docs[q].status,
                                     !.cursor = m.docs[q].cursor]
    IN Saying([m EXCEPT !.tracked = @ \cup {q}, !.docs[q] = forgotten],
              To(IF m.entry.mode \in {"held", "deferred"}
                 THEN {q} \cap Shares[p] ELSE {}, <<Present>>))

OnPeerDeparted(m, q) ==
    Only([m EXCEPT !.tracked = @ \ {q}, !.docs[q] = Unknown])

-----------------------------------------------------------------------------
(* The document joins, advances and leaves.                                *)

OnDocEnsure(p, m, v, suspended) ==
    IF suspended THEN Only([m EXCEPT !.entry = Absent])
    ELSE IF m.entry.mode = "held" THEN Only(m)
    ELSE LET next == [m EXCEPT !.entry = Held(v)]
         IN Saying(next, AskAll(p, next, <<Present>>))

OnDocDefer(p, m) ==
    IF m.entry.mode # "absent" THEN Only(m)
    ELSE Saying([m EXCEPT !.entry = [Absent EXCEPT !.mode = "deferred"]],
                To(Sharers(p, m), <<Present>>))

OnDocAdvanced(p, m, v) ==
    IF m.entry.mode = "absent" THEN Only(m)
    ELSE Push(p, [m EXCEPT !.entry.version = v], {})

\* Faulty variant: a cancelled unload asks nobody for what it passed over.
OnDocUnloadingSilent(p, m, leaving) ==
    IF m.entry.mode # "held" THEN Only(m)
    ELSE Only([m EXCEPT !.entry.leaving = leaving])
OnDocUnloading(p, m, leaving) ==
    LET next == [m EXCEPT !.entry.leaving = leaving]
    IN IF m.entry.mode # "held" \/ m.entry.leaving = leaving THEN Only(m)
       ELSE IF leaving THEN Only(next)
       ELSE Saying(next, AskAll(p, next, <<>>))

ForgetPeerStates(m) == [m EXCEPT !.docs = [q \in Peer |-> Unknown]]

\* `as` is suspend, unload or destroy.  Every record of a peer goes; peers
\* that may have heard of the document from us are told.
OnDocLeave(p, m, as) ==
    LET unloaded == [Absent EXCEPT
            !.mode = "unloaded",
            !.suspended = m.entry.mode = "absent" \/ m.entry.suspended]
        next == [ForgetPeerStates(m) EXCEPT
            !.entry = IF as = "unload" THEN unloaded ELSE Absent,
            !.reconciled = IF as = "suspend" THEN @ ELSE {}]
    IN Saying(next, To(IF m.entry.mode \in {"absent", "unloaded"} THEN {}
                       ELSE Sharers(p, m), <<Dismiss>>))

\* The shell sent these peers an offer that carried version v.
OnOffersSent(m, to, v) ==
    [m EXCEPT !.docs = [q \in Peer |->
        IF q \in to \cap m.tracked /\ @[q].status # "none"
        THEN [@[q] EXCEPT !.will = v, !.owed = None] ELSE @[q]]]

\* Faulty variant: an offer owed to a peer that is not yet synced waits.
OnDocPublishableSynced(p, m) ==
    Offering(m, [q \in Peer |-> IF q \in ContentRecipients(p, m)
                                   /\ m.docs[q].status = "synced"
                                THEN m.docs[q].owed ELSE None])
OnDocPublishable(p, m) ==
    IF m.entry.mode = "absent" THEN Only(m)
    ELSE Offering(m, [q \in Peer |-> IF q \in ContentRecipients(p, m)
                                     THEN m.docs[q].owed ELSE None])

\* q holds nothing we lack: it stated version v, which we hold.
OnPeerSynced(m, q, v) ==
    IF m.entry.mode \in {"absent", "unloaded"} THEN m
    ELSE SetPeerDoc(m, q, [m.docs[q] EXCEPT !.status = "synced", !.cursor = v])

\* An offer of version `offered` from q left the document at v.  It is
\* relayed if it moved us; the sender holds what it offered; and unless we
\* now hold that too, we ask for the rest.
OnDocImported(p, m, q, v, changed, offered, senderWillHold) ==
    LET bumped == [m EXCEPT !.entry.version = v]
        relay == IF changed THEN Push(p, bumped, {q}) ELSE Only(bumped)
        r == relay.model.docs[q]
        synced == SetPeerDoc(relay.model, q, [r EXCEPT
            !.status = "synced", !.cursor = offered, !.will = senderWillHold])
        pending == SetPeerDoc(relay.model, q, [r EXCEPT
            !.status = "pending", !.will = senderWillHold])
    IN IF m.entry.mode = "absent" THEN Only(m)
       ELSE IF Reaches(v, offered) THEN Offering(synced, relay.offers)
       ELSE [model |-> pending, offers |-> relay.offers,
             says |-> To({q}, <<InterestTo(pending, q, FALSE)>>)]

-----------------------------------------------------------------------------
(* Messages.                                                               *)

\* A peer asked for a document we have unloaded: where this peer serves it,
\* the first request has it loaded.
ReloadOnDemand(p, m) ==
    IF m.entry.reloading \/ m.entry.suspended \/ p \notin Serves THEN m
    ELSE [m EXCEPT !.entry.reloading = TRUE]

\* A present of a document we have no entry for asks the shell to create it,
\* which the shell decides (see Sync).
OnPresent(p, m, q) ==
    IF q \notin Sharers(p, m) \/ m.entry.mode \in {"absent", "deferred"}
       \/ m.entry.leaving THEN Only(m)
    ELSE IF m.entry.mode = "unloaded" THEN Only(ReloadOnDemand(p, m))
    ELSE Saying(m, To({q}, <<InterestTo(m, q, TRUE)>>))

\* The version of ours an interest says its sender holds: the cursor it
\* quotes, else its own version.
TheyHold(i) == IF i.since # None THEN i.since ELSE i.version

\* Faulty variants: the version a peer states is taken to be held; a peer that
\* asks for no interest in return is taken to have nothing for us; a refusing
\* peer that asks is answered, and so is one the document is not shared with.
OnInterestCursor(p, m, q, i) ==
    IF q \notin Sharers(p, m) \/ m.entry.mode # "held" THEN Only(m)
    ELSE [model |-> SetPeerDoc(m, q, [m.docs[q] EXCEPT !.status = "pending",
                        !.will = None, !.owed = TheyHold(i), !.cursor = i.version]),
          offers |-> [NoOffers EXCEPT ![q] = TheyHold(i)],
          says |-> To(IF i.reciprocate THEN {q} ELSE {}, <<InterestTo(m, q, FALSE)>>)]
OnInterestSynced(p, m, q, i) ==
    IF q \notin Sharers(p, m) \/ m.entry.mode # "held" THEN Only(m)
    ELSE [model |-> SetPeerDoc(m, q, [m.docs[q] EXCEPT
                        !.status = IF i.reciprocate THEN "pending" ELSE "synced",
                        !.will = None, !.owed = TheyHold(i)]),
          offers |-> [NoOffers EXCEPT ![q] = TheyHold(i)],
          says |-> To(IF i.reciprocate THEN {q} ELSE {}, <<InterestTo(m, q, FALSE)>>)]
OnInterestRefused(p, m, q, i) ==
    IF q \notin Sharers(p, m) \/ m.entry.mode # "held" THEN Only(m)
    ELSE [model |-> SetPeerDoc(m, q, [m.docs[q] EXCEPT !.status = "pending",
                        !.will = None, !.owed = TheyHold(i)]),
          offers |-> [NoOffers EXCEPT ![q] = TheyHold(i)],
          says |-> To(IF i.reciprocate THEN {q} ELSE {}, <<InterestTo(m, q, FALSE)>>)]
OnInterestUngated(p, m, q, i) ==
    IF m.entry.mode # "held" THEN Only(m)
    ELSE [model |-> SetPeerDoc(m, q, [m.docs[q] EXCEPT !.status = "pending",
                        !.will = None, !.owed = TheyHold(i)]),
          offers |-> [NoOffers EXCEPT ![q] = TheyHold(i)],
          says |-> Silent]

\* The answer is owed from what the peer says it holds, and nothing is pushed
\* to it before that answer: its baseline is cleared.
OnInterest(p, m, q, i) ==
    LET answered == q \in ContentRecipients(p, m)
        r == [m.docs[q] EXCEPT !.status = "pending", !.held = TheyHold(i),
                  !.will = None, !.owed = IF answered THEN TheyHold(i) ELSE @]
    IN IF q \notin m.tracked THEN Only(m)
       ELSE IF q \notin Shares[p] THEN Saying(m, To({q}, <<Vacant>>))
       ELSE IF m.entry.mode \in {"absent", "deferred"} THEN Only(m)
       ELSE IF m.entry.mode = "unloaded" THEN Only(ReloadOnDemand(p, m))
       ELSE [model |-> SetPeerDoc(m, q, r),
             offers |-> [NoOffers EXCEPT ![q] =
                            IF answered THEN TheyHold(i) ELSE None],
             says |-> To(IF i.reciprocate /\ ~m.entry.leaving THEN {q} ELSE {},
                         <<InterestTo(m, q, FALSE)>>)]

OnOfferVetoed(p, m, q) ==
    IF q \in m.tracked /\ TakesIn(m)
    THEN Saying(m, To({q} \cap Shares[p], <<Refuse>>)) ELSE Only(m)

OnAccept(m, q, v) == Only(SetPeerDoc(m, q, [m.docs[q] EXCEPT !.held = v]))

OnRefuse(m, q) == Only(SetPeerDoc(m, q, [m.docs[q] EXCEPT !.refuses = TRUE]))

OnDismiss(m, q) ==
    Only(IF q \in m.tracked THEN [m EXCEPT !.docs[q] = Unknown] ELSE m)

OnVacant(m, q) ==
    Only(IF m.entry.mode \in {"absent", "unloaded"} THEN m
         ELSE SetPeerDoc(m, q, [m.docs[q] EXCEPT !.status = "vacant"]))

OnDeclareVacant(m, q) ==
    Saying(m, To({q} \cap m.tracked, <<Vacant>>))
=============================================================================
