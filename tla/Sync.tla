-------------------------------- MODULE Sync --------------------------------
(***************************************************************************)
(* One document on several peers: the shell that runs every peer's sync    *)
(* program (synchronizer.ts), the links between them, and the stores.      *)
(*                                                                         *)
(* A step is one input, what the program answers, and everything the shell *)
(* does for it up to the next quiet point, as the dispatcher runs it.  A   *)
(* link is what the session program makes of a connection (Session): it    *)
(* carries messages in order while it lives, loses those under way when it *)
(* drops, and each end notices in its own time.  A reconnection waits for  *)
(* both ends to have noticed.                                              *)
(*                                                                         *)
(* A crash loses the document, which restarts from the store.  Each peer's *)
(* store confirms its writes some time after they happen (Persistence);    *)
(* until then the document may not leave the process.                      *)
(***************************************************************************)
EXTENDS SyncProgram, FiniteSets

CONSTANTS
    Links,       \* the pairs of peers that may connect
    Resolve,     \* Resolve[p]: what p may do about a document a peer announces:
                 \* "create" it, "defer" it or "reject" it
    MaxWrites,   \* MaxWrites[p]: writes by p
    MaxFaults    \* bounds on [drop, crash, leave, depart]

ASSUME SyncAssumption ==
    /\ Links \subseteq {{p, q} : p \in Peer, q \in Peer}
    /\ \A l \in Links : Cardinality(l) = 2
    /\ Resolve \in [Peer -> SUBSET {"create", "defer", "reject"}]
    /\ MaxWrites \in [Peer -> Nat]
    /\ MaxFaults \in [{"drop", "crash", "leave", "depart"} -> Nat]

VARIABLES
    model,    \* model[p]: p's sync program
    doc,      \* doc[p]: the version of the document p has in memory, or None
    stored,   \* stored[p]: the version p's store holds, or None: destroyed
    end,      \* end[p][q]: p's end of its link to q
    wire,     \* wire[p][q]: what is under way from p to q
    began,    \* began[p][q]: what p had when its link to q came up (ghost)
    faults    \* how many of each fault have happened

vars == <<model, doc, stored, end, wire, began, faults>>

\* off: no channel.  opening: a channel, not yet established.  on:
\* established.  broken: established, and dead without our knowing.
End == {"off", "opening", "on", "broken"}

Establish == [type |-> "establish"]

Message ==
    [type : {"establish", "present", "dismiss", "vacant", "refuse"}]
    \cup [type : {"accept"}, version : Version]
    \cup [type : {"offer"}, from : Version, version : Version]
    \cup [type : {"interest"}, version : Version,
          since : Version \cup {None}, reciprocate : BOOLEAN]

TypeOK ==
    /\ model \in [Peer -> SyncModel]
    /\ doc \in [Peer -> Version \cup {None}]
    /\ stored \in [Peer -> Version \cup {None}]
    /\ end \in [Peer -> [Peer -> End]]
    /\ wire \in [Peer -> [Peer -> Seq(Message)]]
    /\ began \in [Peer -> [Peer -> Version]]
    /\ faults \in [{"drop", "crash", "leave", "depart"} -> Nat]

\* The peers before anything happens.
Started ==
    /\ model = [p \in Peer |-> initSync]
    /\ doc = [p \in Peer |-> None]
    /\ stored = [p \in Peer |-> Empty]
    /\ end = [p \in Peer |-> [q \in Peer |-> "off"]]
    /\ wire = [p \in Peer |-> [q \in Peer |-> <<>>]]
    /\ began = [p \in Peer |-> [q \in Peer |-> Empty]]

Init == Started /\ faults = [f \in {"drop", "crash", "leave", "depart"} |-> 0]

-----------------------------------------------------------------------------
(* The shell.                                                              *)

\* Faulty variant: the document leaves the process whatever the store holds.
GateOpenUnstored(p, d, s) == d # None

\* The document may leave the process: the store holds our own writes.
GateOpen(p, d, s) == d # None /\ s # None /\ d[p] <= s[p]

\* Offers go to peers with a channel, dead or alive, if the gate is open; the
\* program is told which were sent, and a peer without a channel is not.
OffersSent(p, offers, d, s) ==
    IF GateOpen(p, d, s)
    THEN {q \in Peer : offers[q] # None /\ end'[p][q] \in {"on", "broken"}}
    ELSE {}

\* Run what the program replied, the document being at d and the store at s.
\* `first` is what the shell itself says first; w is the wires before.
Run(p, reply, d, s, first, w) ==
    LET sent == OffersSent(p, reply.offers, d, s)
        offer(q) == IF q \in sent THEN <<Offer(reply.offers[q], d)>> ELSE <<>>
    IN /\ model' = [model EXCEPT ![p] = OnOffersSent(reply.model, sent, d)]
       /\ wire' = [w EXCEPT ![p] = [q \in Peer |->
              IF end'[p][q] = "on"
              THEN @[q] \o first[q] \o offer(q) \o reply.says[q] ELSE @[q]]]

\* An input that moves nothing but the program, the wires and the document.
Input(p, reply) ==
    /\ UNCHANGED <<stored, end, began>>
    /\ Run(p, reply, doc'[p], stored[p], Silent, wire)

Spend(f) ==
    /\ faults[f] < MaxFaults[f]
    /\ faults' = [faults EXCEPT ![f] = @ + 1]

-----------------------------------------------------------------------------
(* The document on one peer: loaded, written, stored, suspended, unloaded, *)
(* destroyed.                                                              *)

InMemory(p) == doc[p] # None

Ensure(p) ==
    /\ ~InMemory(p) /\ stored[p] # None
    /\ doc' = [doc EXCEPT ![p] = stored[p]]
    /\ Input(p, OnDocEnsure(p, model[p], stored[p], model[p].entry.suspended))
    /\ UNCHANGED faults

\* A local write, drained: the gate shuts, and a push is owed.  An unloading
\* document takes no writes.
LocalWrite(p) ==
    /\ InMemory(p) /\ ~model[p].entry.leaving /\ doc[p][p] < MaxWrites[p]
    /\ doc' = [doc EXCEPT ![p][p] = @ + 1]
    /\ Input(p, OnDocAdvanced(p, model[p], doc'[p]))
    /\ UNCHANGED faults

\* The store confirms all that is in memory.  If that opens the gate, offers
\* withheld may go.
Stored(p) ==
    /\ InMemory(p) /\ stored[p] # doc[p]
    /\ stored' = [stored EXCEPT ![p] = doc[p]]
    /\ UNCHANGED <<doc, end, began, faults>>
    /\ Run(p, IF GateOpen(p, doc[p], stored[p]) THEN Only(model[p])
              ELSE OnDocPublishable(p, model[p]),
           doc[p], doc[p], Silent, wire)

Unloading(p) ==
    /\ InMemory(p) /\ model[p].entry.mode = "held" /\ ~model[p].entry.leaving
    /\ Spend("leave")
    /\ UNCHANGED doc
    /\ Input(p, OnDocUnloading(p, model[p], TRUE))

UnloadCancelled(p) ==
    /\ model[p].entry.leaving
    /\ UNCHANGED <<doc, faults>>
    /\ Input(p, OnDocUnloading(p, model[p], FALSE))

\* The store holds the whole document, which may then leave; a suspended one
\* is out of the sync graph and leaves at once.
Unloaded(p) ==
    /\ InMemory(p) /\ stored[p] = doc[p]
    /\ model[p].entry.leaving \/ model[p].entry.mode = "absent"
    /\ IF model[p].entry.leaving THEN UNCHANGED faults ELSE Spend("leave")
    /\ doc' = [doc EXCEPT ![p] = None]
    /\ Input(p, OnDocLeave(p, model[p], "unload"))

Suspend(p) ==
    /\ InMemory(p) /\ model[p].entry.mode = "held" /\ ~model[p].entry.leaving
    /\ Spend("leave")
    /\ UNCHANGED doc
    /\ Input(p, OnDocLeave(p, model[p], "suspend"))

Resume(p) ==
    /\ InMemory(p) /\ model[p].entry.mode = "absent"
    /\ UNCHANGED <<doc, faults>>
    /\ Input(p, OnDocEnsure(p, model[p], doc[p], FALSE))

\* A destroyed document's id is not used again.
Destroy(p) ==
    /\ stored[p] # None
    /\ Spend("leave")
    /\ doc' = [doc EXCEPT ![p] = None]
    /\ stored' = [stored EXCEPT ![p] = None]
    /\ UNCHANGED <<end, began>>
    /\ Run(p, OnDocLeave(p, model[p], "destroy"), None, None, Silent, wire)

-----------------------------------------------------------------------------
(* Links.                                                                  *)

Live(p, q) == {end[p][q], end[q][p]} \subseteq {"opening", "on"}

\* Both channels send `establish`; nothing precedes it on the wire.
Connect(p, q) ==
    /\ {p, q} \in Links /\ end[p][q] = "off" /\ end[q][p] = "off"
    /\ end' = [end EXCEPT ![p][q] = "opening", ![q][p] = "opening"]
    /\ wire' = [wire EXCEPT ![p][q] = <<Establish>>, ![q][p] = <<Establish>>]
    /\ UNCHANGED <<model, doc, stored, began, faults>>

\* What is left of an end whose link went dead: an established channel lives
\* on until it is noticed closed.
Dead(e) == IF e = "on" THEN "broken" ELSE IF e = "opening" THEN "off" ELSE e

Drop(p, q) ==
    /\ Live(p, q)
    /\ Spend("drop")
    /\ end' = [end EXCEPT ![p][q] = Dead(@), ![q][p] = Dead(@)]
    /\ wire' = [wire EXCEPT ![p][q] = <<>>, ![q][p] = <<>>]
    /\ UNCHANGED <<model, doc, stored, began>>

\* The last channel to q is removed.  The program keeps what it knows.
Noticed(p, q) ==
    /\ end[p][q] = "broken"
    /\ end' = [end EXCEPT ![p][q] = "off"]
    /\ UNCHANGED <<model, doc, stored, wire, began, faults>>

\* The departure timer fired, or q had said that it departs.
Departed(p, q) ==
    /\ end[p][q] = "off" /\ q \in model[p].tracked
    /\ Spend("depart")
    /\ UNCHANGED doc
    /\ Input(p, OnPeerDeparted(model[p], q))

\* Memory is gone, and every channel with it.
Crash(p) ==
    /\ Spend("crash")
    /\ model' = [model EXCEPT ![p] = initSync]
    /\ doc' = [doc EXCEPT ![p] = None]
    /\ end' = [a \in Peer |-> [b \in Peer |->
                  IF a = p THEN "off"
                  ELSE IF b = p THEN Dead(end[a][b]) ELSE end[a][b]]]
    /\ wire' = [a \in Peer |-> [b \in Peer |->
                  IF p \in {a, b} THEN <<>> ELSE wire[a][b]]]
    /\ UNCHANGED <<stored, began>>

-----------------------------------------------------------------------------
(* Messages.                                                               *)

\* p takes the next message, of type t, that q sent it.
Arrives(p, q, t) == wire[q][p] # <<>> /\ Head(wire[q][p]).type = t
Taken(p, q) == [wire EXCEPT ![q][p] = Tail(@)]

\* The document is not moved.
Receive(p, q, t, reply) ==
    /\ Arrives(p, q, t)
    /\ UNCHANGED <<doc, stored, end, began, faults>>
    /\ Run(p, reply, doc[p], stored[p], Silent, Taken(p, q))

ReceiveEstablish(p, q) ==
    /\ Arrives(p, q, "establish")
    /\ end' = [end EXCEPT ![p][q] = "on"]
    /\ began' = [began EXCEPT ![p][q] = IF InMemory(p) THEN doc[p] ELSE Empty]
    /\ UNCHANGED <<doc, stored, faults>>
    /\ Run(p, OnPeerAvailable(p, model[p], q), doc[p], stored[p], Silent,
           Taken(p, q))

\* A document never heard of here is created later (Ensure), deferred or
\* declined, as the application resolves it.
Resolved(p, q, answer) ==
    IF q \notin Sharers(p, model[p]) \/ model[p].entry.mode # "absent"
       \/ InMemory(p) \/ answer = "create" \/ stored[p] = None
    THEN OnPresent(p, model[p], q)
    ELSE IF answer = "defer" THEN OnDocDefer(p, model[p])
    ELSE OnDeclareVacant(model[p], q)

ReceivePresent(p, q) ==
    \E answer \in Resolve[p] : Receive(p, q, "present", Resolved(p, q, answer))

\* An interest also states a version: if we hold it, q has nothing for us.
ReceiveInterest(p, q) ==
    /\ Arrives(p, q, "interest")
    /\ LET i == Head(wire[q][p])
           reply == OnInterest(p, model[p], q, i)
           classified == q \in Sharers(p, model[p])
                         /\ model[p].entry.mode = "held"
                         /\ Reaches(doc[p], i.version)
       IN Receive(p, q, "interest",
                  IF classified
                  THEN [reply EXCEPT !.model = OnPeerSynced(@, q, i.version)]
                  ELSE reply)

\* What the backend may make of a payload that starts at `from`: all of it
\* when that connects to what is held, else as much of it as connects.
Merged(d, from, v) ==
    LET connects(w) == from[w] <= d[w] /\ d[w] < v[w]
    IN IF Reaches(d, [w \in Peer |-> IF from[w] < v[w] THEN from[w] ELSE 0])
       THEN {Join(d, v)}
       ELSE {[w \in Peer |-> IF w \in W THEN v[w] ELSE d[w]] :
                 W \in SUBSET {w \in Peer : connects(w)}}

\* An offer is merged, or answered with `refuse` if vetoed; one that is held
\* once it is taken in is answered with `accept`.
ReceiveOffer(p, q) ==
    /\ Arrives(p, q, "offer")
    /\ UNCHANGED <<stored, end, began, faults>>
    /\ LET o == Head(wire[q][p])
           m == model[p]
           vetoed == q \notin Accepts[p]
           ours == q \in Shares[p] /\ ~vetoed
           accept == To(IF ours THEN {q} ELSE {}, <<Accept(o.version)>>)
           baseline == m.docs[q].will
           senderWillHold == IF baseline = None THEN o.version
                             ELSE Join(baseline, o.version)
       IN \/ /\ q \notin m.tracked \/ ~TakesIn(m)
             /\ UNCHANGED doc
             /\ Run(p, Only(m), doc[p], stored[p], Silent, Taken(p, q))
          \/ /\ q \in m.tracked /\ TakesIn(m) /\ Reaches(doc[p], o.version)
             /\ UNCHANGED doc
             /\ Run(p, Only(OnPeerSynced(m, q, o.version)), doc[p], stored[p],
                    accept, Taken(p, q))
          \/ /\ q \in m.tracked /\ TakesIn(m) /\ ~Reaches(doc[p], o.version)
             /\ vetoed
             /\ UNCHANGED doc
             /\ Run(p, OnOfferVetoed(p, m, q), doc[p], stored[p], Silent,
                    Taken(p, q))
          \/ /\ q \in m.tracked /\ TakesIn(m) /\ ~Reaches(doc[p], o.version)
             /\ ~vetoed
             /\ \E d \in Merged(doc[p], o.from, o.version) :
                  /\ doc' = [doc EXCEPT ![p] = d]
                  /\ Run(p, OnDocImported(p, m, q, d, d # doc[p], o.version,
                                          senderWillHold),
                         d, stored[p],
                         IF Reaches(d, o.version) THEN accept ELSE Silent,
                         Taken(p, q))

ReceiveAccept(p, q) ==
    Receive(p, q, "accept", OnAccept(model[p], q, Head(wire[q][p]).version))
ReceiveRefuse(p, q) == Receive(p, q, "refuse", OnRefuse(model[p], q))
ReceiveDismiss(p, q) == Receive(p, q, "dismiss", OnDismiss(model[p], q))
ReceiveVacant(p, q) == Receive(p, q, "vacant", OnVacant(model[p], q))

Receives(p, q) ==
    \/ ReceiveEstablish(p, q) \/ ReceivePresent(p, q) \/ ReceiveInterest(p, q)
    \/ ReceiveOffer(p, q) \/ ReceiveAccept(p, q) \/ ReceiveRefuse(p, q)
    \/ ReceiveDismiss(p, q) \/ ReceiveVacant(p, q)

-----------------------------------------------------------------------------
Document(p) ==
    \/ Ensure(p) \/ LocalWrite(p) \/ Stored(p)
    \/ Unloading(p) \/ UnloadCancelled(p) \/ Unloaded(p)
    \/ Suspend(p) \/ Resume(p) \/ Destroy(p)

Network(p, q) ==
    \/ Connect(p, q) \/ Drop(p, q) \/ Noticed(p, q) \/ Departed(p, q)
    \/ Receives(p, q)

Next ==
    \/ \E p \in Peer : Document(p) \/ Crash(p)
    \/ \E p, q \in Peer : p # q /\ Network(p, q)

Spec == Init /\ [][Next]_vars

-----------------------------------------------------------------------------
(* Properties.                                                             *)

Messages(p, q) == {wire[p][q][i] : i \in DOMAIN wire[p][q]}
Of(t, p, q) == {msg \in Messages(p, q) : msg.type = t}
Here(p) == InMemory(p) /\ model[p].entry.mode = "held"
At(p, q) == model[p].docs[q]

\* The cursor quoted back to a peer never claims what we do not hold: the
\* peer answers from past it, and what it wrongly claims is never sent.
CursorHeld ==
    \A p, q \in Peer :
        At(p, q).cursor # None => InMemory(p) /\ Reaches(doc[p], At(p, q).cursor)

\* What a peer on a live link is recorded to hold of ours, which compaction
\* trims up to, it does hold, unless its dismiss is under way.
HeldIsHeld ==
    \A p, q \in Peer :
        /\ At(p, q).held # None
        /\ end[p][q] = "on" /\ end[q][p] \in {"on", "opening"}
        /\ Of("dismiss", q, p) = {}
        => InMemory(q) /\ Reaches(doc[q], At(p, q).held)

\* Nothing a peer has, or claims to have, of another's operations is
\* anything that one's crash could take back: its store holds them.
KnownIsStored ==
    \A p, q \in Peer :
        q # p /\ stored[p] # None =>
            /\ InMemory(q) => doc[q][p] <= stored[p][p]
            /\ stored[q] # None => stored[q][p] <= stored[p][p]
            /\ \A r \in Peer : \A o \in Of("offer", p, r) :
                   o.version[p] <= stored[p][p]

\* A peer we push to has been sent, on this link, all we hold that it does
\* not, or an offer is recorded as owed to it, or its interest, which is
\* answered with everything, is on its way: an advance is never forgotten.
OwedOrCurrent ==
    \A p, q \in Peer :
        /\ Here(p) /\ end[p][q] = "on" /\ end[q][p] = "on"
        /\ At(p, q).status \in {"pending", "synced"} /\ ~At(p, q).refuses
        /\ q \in Shares[p] /\ p \in Shares[q]
        /\ Here(q) /\ TakesIn(model[q])
        => \/ Of("interest", q, p) # {} \/ Of("present", p, q) # {}
           \/ At(p, q).owed # None
           \/ At(p, q).will # None /\ Reaches(At(p, q).will, doc[p])

\* What a peer records of another is true: of the right types, it quotes as
\* cursor only what it took in, and takes for held only what the other holds.
RecordsAreTrue == TypeOK /\ CursorHeld /\ HeldIsHeld

\* An offer stays owed on a live link only while the gate is shut: once the
\* store has confirmed our writes nothing is held back.
OwedOnlyWhileHeld ==
    \A p, q \in Peer :
        /\ At(p, q).owed # None /\ ~At(p, q).refuses /\ q \in Shares[p]
        /\ end[p][q] \in {"on", "broken"} /\ InMemory(p)
        => ~GateOpen(p, doc[p], stored[p])

\* What a peer is recorded as going to hold of ours, from where the next push
\* to it starts, it holds already or an offer under way brings it: a push
\* leaves no hole.  With OwedOrCurrent: when nothing is under way or owed,
\* the peer has what we have.
BaselineArrives ==
    \A p, q \in Peer :
        /\ At(p, q).will # None /\ end[p][q] = "on" /\ end[q][p] = "on"
        /\ p \in Accepts[q] /\ InMemory(q) /\ TakesIn(model[q])
        /\ Of("dismiss", q, p) = {} /\ Of("interest", q, p) = {}
        => \A w \in Peer :
              \/ At(p, q).will[w] <= doc[q][w]
              \/ \E o \in Of("offer", p, q) : At(p, q).will[w] <= o.version[w]

\* A peer is told of a document only if it is shared with it; another is told
\* at most that it is not served, whether or not we hold the document.
OnlySharersHear ==
    \A p, q \in Peer :
        q \notin Shares[p] =>
            \A msg \in Messages(p, q) : msg.type \in {"establish", "vacant"}

\* A peer that refuses our operations is sent no content until it
\* reconnects, by any of the paths content takes.
SendsNothingRefused ==
    \A p, q \in Peer :
        model[p].docs[q].refuses =>
            Cardinality({i \in DOMAIN wire'[p][q] : wire'[p][q][i].type = "offer"})
            <= Cardinality({i \in DOMAIN wire[p][q] : wire[p][q][i].type = "offer"})

\* A peer becomes `synced`, which settles whoever waits for the document, only
\* when all it had when its link came up has arrived.
SyncedHasArrived ==
    [][\A p, q \in Peer :
         model'[p].docs[q].status = "synced" /\ model[p].docs[q].status # "synced"
         => doc'[p] # None /\ Reaches(doc'[p], began[q][p])]_vars

-----------------------------------------------------------------------------
(* Fairness: transports deliver and report closures, links are retried,    *)
(* the store answers, and a started unload ends.                           *)

Fairness ==
    /\ \A p \in Peer : WF_vars(Stored(p)) /\ WF_vars(Unloaded(p) \/ UnloadCancelled(p))
    /\ \A p, q \in Peer : WF_vars(p # q /\ Connect(p, q))
                        /\ WF_vars(p # q /\ Noticed(p, q))
                        /\ WF_vars(p # q /\ Receives(p, q))

LiveSpec == Spec /\ Fairness

\* Peers that keep the document converge over their links, whatever dropped,
\* crashed, left and came back before.
Agree(p, q) ==
    (Here(p) /\ Here(q) /\ {p, q} \in Links
     /\ p \in Shares[q] /\ q \in Shares[p]) =>
        /\ p \in Accepts[q] => Reaches(doc[q], doc[p])
        /\ q \in Accepts[p] => Reaches(doc[p], doc[q])
Converges == <>[](\A p, q \in Peer : Agree(p, q))

\* Once nothing new is written, the peers fall silent: no relay goes round.
FallsSilent == <>[](\A p, q \in Peer : wire[p][q] = <<>>)
=============================================================================
