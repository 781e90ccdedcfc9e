----------------------------- MODULE SyncProofs -----------------------------
(***************************************************************************)
(* What the sync programs record of each other is true, what is known of a *)
(* peer's writes its store holds, only those a document is shared with     *)
(* hear of it, and a refusal is heeded: for every number of peers, writes  *)
(* and faults, and every policy.                                           *)
(*                                                                         *)
(* First what is said and stored, whatever is recorded (Inv): records and  *)
(* messages are of their types, only those a document is shared with are   *)
(* told of it, a peer is offered nothing before it asked.  A lemma per     *)
(* handler says what it may answer, one per action that it keeps Inv.      *)
(* Then what a program records against its own document (Knows), against   *)
(* what its peers hold and what is under way from them (Wire, Link,        *)
(* Records), and the theorems.                                             *)
(***************************************************************************)
EXTENDS Sync, SequenceTheorems, FiniteSetTheorems, TLAPS

-----------------------------------------------------------------------------
(* What a handler of the sync program may answer.                          *)

MaybeVersion == Version \cup {None}

\* A held document has a version, which interests state.
Model == {m \in SyncModel : m.entry.mode = "held" => m.entry.version \in Version}

Reply == [model : Model, offers : [Peer -> MaybeVersion], says : [Peer -> Seq(Message)]]

\* What the program of p has messages say to q.
Said(p, q) == {msg \in Message : msg.type \notin {"establish", "offer"} /\ (q \notin Shares[p] => msg.type = "vacant")}

\* Nothing of q's is recorded that an offer to it could start from.
Unasked(m, q) == m.docs[q].will = None /\ m.docs[q].owed = None

\* A reply of p to an input from the peers Q: only sharers hear more than "vacant", and a peer not in Q that never asked
\* is offered nothing.
Answers(p, m, reply, Q) ==
  /\ reply \in Reply
  /\ \A q \in Peer : reply.says[q] \in Seq(Said(p, q))
  /\ \A q \in Peer : q \notin Shares[p] => reply.offers[q] = None
  /\ \A q \in Peer \ Q : Unasked(m, q) => Unasked(reply.model, q) /\ reply.offers[q] = None

\* The offers of a reply are fit to send.
OffersFit(p, m, offers, Q) ==
  /\ offers \in [Peer -> MaybeVersion]
  /\ \A q \in Peer : q \notin Shares[p] => offers[q] = None
  /\ \A q \in Peer \ Q : Unasked(m, q) => offers[q] = None

-----------------------------------------------------------------------------
(* Versions and records.                                                   *)

LEMMA VersionFacts ==
  /\ Empty \in Version
  /\ \A u, v \in Version : Join(u, v) \in Version
  /\ None \in MaybeVersion /\ \A v \in MaybeVersion : v # None => v \in Version
BY DEF Empty, Version, Join, MaybeVersion

LEMMA RecordFacts ==
  /\ Unknown \in PeerDoc /\ Unknown.status = "none" /\ Unknown.will = None /\ Unknown.owed = None
  /\ Absent \in Entry /\ Absent.mode = "absent"
  /\ \A v \in MaybeVersion : Held(v) \in Entry /\ Held(v).mode = "held" /\ Held(v).version = v
BY DEF Unknown, PeerDoc, Absent, Entry, Held, MaybeVersion

LEMMA ModelFacts ==
  ASSUME NEW m \in Model, NEW q \in Peer
  PROVE  /\ m.docs[q] \in PeerDoc /\ m.docs \in [Peer -> PeerDoc] /\ m.entry \in Entry
         /\ m.tracked \subseteq Peer /\ m.reconciled \subseteq Peer
         /\ m.docs[q].will \in MaybeVersion /\ m.docs[q].owed \in MaybeVersion
         /\ m.docs[q].cursor \in MaybeVersion /\ m.docs[q].held \in MaybeVersion
         /\ m.entry.mode = "held" => m.entry.version \in Version
BY DEF Model, SyncModel, PeerDoc, MaybeVersion

\* Changing the entry, or the records, of a model.
LEMMA EntrySet ==
  ASSUME NEW m \in Model, NEW e \in Entry, e.mode = "held" => e.version \in Version
  PROVE  LET n == [m EXCEPT !.entry = e] IN
           n \in Model /\ n.docs = m.docs /\ n.tracked = m.tracked /\ n.entry = e
BY DEF Model, SyncModel

LEMMA DocsSet ==
  ASSUME NEW m \in Model, NEW d \in [Peer -> PeerDoc]
  PROVE  LET n == [m EXCEPT !.docs = d] IN
           n \in Model /\ n.docs = d /\ n.tracked = m.tracked /\ n.entry = m.entry
BY DEF Model, SyncModel

LEMMA SetPeerDocKeeps ==
  ASSUME NEW m \in Model, NEW q \in Peer, NEW r \in PeerDoc
  PROVE  LET n == SetPeerDoc(m, q, r) IN
           /\ n \in Model /\ n.tracked = m.tracked /\ n.entry = m.entry
           /\ \A x \in Peer \ {q} : n.docs[x] = m.docs[x]
           /\ n.docs[q] \in {r, m.docs[q]}
BY DEF Model, SyncModel, SetPeerDoc

-----------------------------------------------------------------------------
(* Messages.                                                               *)

LEMMA SimpleMessages ==
  ASSUME NEW p \in Peer, NEW q \in Peer
  PROVE  /\ Vacant \in Said(p, q)
         /\ q \in Shares[p] => {Present, Dismiss, Refuse} \subseteq Said(p, q)
         /\ \A v \in Version : q \in Shares[p] => Accept(v) \in Said(p, q)
BY DEF Said, Message, Vacant, Present, Dismiss, Refuse, Accept

LEMMA InterestMessage ==
  ASSUME NEW p \in Peer, NEW q \in Peer, q \in Shares[p], NEW m \in Model, m.entry.version \in Version,
         NEW r \in BOOLEAN
  PROVE  InterestTo(m, q, r) \in Said(p, q)
<1>1. m.docs[q].cursor \in Version \cup {None}
  BY ModelFacts DEF MaybeVersion
<1>2. InterestTo(m, q, r) \in [type : {"interest"}, version : Version, since : Version \cup {None}, reciprocate : BOOLEAN]
  BY <1>1 DEF InterestTo
<1>3. InterestTo(m, q, r).type = "interest"
  BY DEF InterestTo
<1> QED BY <1>2, <1>3 DEF Said, Message

LEMMA SaidIsMessage == ASSUME NEW p, NEW q, NEW s \in Seq(Said(p, q)) PROVE s \in Seq(Message)
BY SeqMonotonic DEF Said

\* The forms a reply's messages take.
LEMMA SilentSaid == Silent \in [Peer -> Seq(Message)] /\ \A p, q \in Peer : Silent[q] \in Seq(Said(p, q))
BY EmptySeq DEF Silent

LEMMA ToSaid ==
  ASSUME NEW p \in Peer, NEW Q, NEW s, \A q \in Q \cap Peer : s \in Seq(Said(p, q))
  PROVE  To(Q, s) \in [Peer -> Seq(Message)] /\ \A q \in Peer : To(Q, s)[q] \in Seq(Said(p, q))
<1>1. ASSUME NEW q \in Peer PROVE To(Q, s)[q] \in Seq(Said(p, q))
  BY <1>1, EmptySeq DEF To
<1>2. ASSUME NEW q \in Peer PROVE To(Q, s)[q] \in Seq(Message)
  BY <1>1, <1>2, SaidIsMessage
<1>3. To(Q, s) = [q \in Peer |-> To(Q, s)[q]]
  BY DEF To
<1> QED BY <1>1, <1>2, <1>3

LEMMA OneSaid == ASSUME NEW p, NEW q, NEW msg \in Said(p, q) PROVE <<msg>> \in Seq(Said(p, q))
OBVIOUS

\* Announcing, dismissing or declining to some of those the document is shared with.
LEMMA ToldSharers ==
  ASSUME NEW p \in Peer, NEW Q, NEW msg, msg \in {Present, Dismiss, Refuse}, Q \cap Peer \subseteq Shares[p]
  PROVE  To(Q, <<msg>>) \in [Peer -> Seq(Message)] /\ \A q \in Peer : To(Q, <<msg>>)[q] \in Seq(Said(p, q))
<1>1. \A q \in Q \cap Peer : <<msg>> \in Seq(Said(p, q))
  BY SimpleMessages, OneSaid
<1> QED BY <1>1, ToSaid

LEMMA ToldVacant ==
  ASSUME NEW p \in Peer, NEW Q
  PROVE  To(Q, <<Vacant>>) \in [Peer -> Seq(Message)] /\ \A q \in Peer : To(Q, <<Vacant>>)[q] \in Seq(Said(p, q))
<1>1. \A q \in Q \cap Peer : <<Vacant>> \in Seq(Said(p, q))
  BY SimpleMessages, OneSaid
<1> QED BY <1>1, ToSaid

LEMMA ToldInterest ==
  ASSUME NEW p \in Peer, NEW q \in Shares[p], q \in Peer, NEW Q, Q \subseteq {q}, NEW m \in Model,
         m.entry.version \in Version, NEW r \in BOOLEAN
  PROVE  LET s == To(Q, <<InterestTo(m, q, r)>>)
         IN  s \in [Peer -> Seq(Message)] /\ \A x \in Peer : s[x] \in Seq(Said(p, x))
<1>1. \A x \in Q \cap Peer : <<InterestTo(m, q, r)>> \in Seq(Said(p, x))
  BY InterestMessage, OneSaid
<1> QED BY <1>1, ToSaid

LEMMA AskAllSaid ==
  ASSUME NEW p \in Peer, NEW m \in Model, m.entry.version \in Version, NEW before, before \in {<<>>, <<Present>>}
  PROVE  AskAll(p, m, before) \in [Peer -> Seq(Message)] /\ \A q \in Peer : AskAll(p, m, before)[q] \in Seq(Said(p, q))
<1>1. ASSUME NEW q \in Peer PROVE AskAll(p, m, before)[q] \in Seq(Said(p, q))
  <2>1. CASE q \in Sharers(p, m)
    <3>1. q \in Shares[p]
      BY <2>1 DEF Sharers
    <3>2. <<InterestTo(m, q, TRUE)>> \in Seq(Said(p, q))
      BY <3>1, InterestMessage, OneSaid
    <3>3. before \in Seq(Said(p, q))
      BY <3>1, SimpleMessages, OneSaid, EmptySeq
    <3>4. before \o <<InterestTo(m, q, TRUE)>> \in Seq(Said(p, q))
      BY <3>2, <3>3, ConcatProperties
    <3> QED BY <2>1, <3>4 DEF AskAll
  <2>2. CASE q \notin Sharers(p, m)
    BY <2>2, EmptySeq DEF AskAll
  <2> QED BY <2>1, <2>2
<1>2. ASSUME NEW q \in Peer PROVE AskAll(p, m, before)[q] \in Seq(Message)
  BY <1>1, <1>2, SaidIsMessage
<1>3. AskAll(p, m, before) = [q \in Peer |-> AskAll(p, m, before)[q]]
  BY DEF AskAll
<1> QED BY <1>1, <1>2, <1>3

-----------------------------------------------------------------------------
(* Forms of replies.                                                       *)

\* Nothing of a peer outside Q that an offer could start from is recorded anew.
Records(m, n, Q) == \A q \in Peer \ Q : Unasked(m, q) => Unasked(n, q)

LEMMA NoOffersFit == ASSUME NEW p, NEW m, NEW Q PROVE OffersFit(p, m, NoOffers, Q)
BY VersionFacts DEF NoOffers, OffersFit

LEMMA ReplyAnswers ==
  ASSUME NEW p \in Peer, NEW m, NEW Q, NEW n \in Model, NEW o, NEW s,
         OffersFit(p, m, o, Q), Records(m, n, Q),
         s \in [Peer -> Seq(Message)], \A q \in Peer : s[q] \in Seq(Said(p, q))
  PROVE  Answers(p, m, [model |-> n, offers |-> o, says |-> s], Q)
BY DEF Answers, OffersFit, Records, Reply

LEMMA OnlyAnswers ==
  ASSUME NEW p \in Peer, NEW m, NEW Q, NEW n \in Model, Records(m, n, Q)
  PROVE  Answers(p, m, Only(n), Q)
BY NoOffersFit, SilentSaid, ReplyAnswers DEF Only

LEMMA SayingAnswers ==
  ASSUME NEW p \in Peer, NEW m, NEW Q, NEW n \in Model, Records(m, n, Q), NEW s,
         s \in [Peer -> Seq(Message)], \A q \in Peer : s[q] \in Seq(Said(p, q))
  PROVE  Answers(p, m, Saying(n, s), Q)
BY NoOffersFit, ReplyAnswers DEF Saying

LEMMA OfferingAnswers ==
  ASSUME NEW p \in Peer, NEW m, NEW Q, NEW n \in Model, Records(m, n, Q), NEW o, OffersFit(p, m, o, Q)
  PROVE  Answers(p, m, Offering(n, o), Q)
BY SilentSaid, ReplyAnswers DEF Offering

\* An unchanged model, and one whose entry alone changed.
LEMMA SameRecords ==
  ASSUME NEW m, NEW n, n.docs = m.docs PROVE \A Q : Records(m, n, Q)
BY DEF Records, Unasked

LEMMA PushAnswers ==
  ASSUME NEW p \in Peer, NEW m \in Model, NEW Q, NEW except
  PROVE  /\ Answers(p, m, Push(p, m, except), Q)
         /\ Push(p, m, except).model.entry = m.entry /\ Push(p, m, except).model.tracked = m.tracked
         /\ Push(p, m, except).says = Silent
         /\ OffersFit(p, m, Push(p, m, except).offers, Q)
<1> DEFINE to == {q \in ContentRecipients(p, m) \ except :
                    m.docs[q].status \in {"pending", "synced"} /\ m.docs[q].will # None}
           docs == [q \in Peer |-> IF q \in to /\ m.docs[q].owed = None
                                   THEN [m.docs[q] EXCEPT !.owed = m.docs[q].will] ELSE m.docs[q]]
           n == [m EXCEPT !.docs = docs]
           o == [q \in Peer |-> IF q \in to THEN m.docs[q].will ELSE None]
<1>1. docs \in [Peer -> PeerDoc]
  <2>1. ASSUME NEW q \in Peer PROVE docs[q] \in PeerDoc
    BY ModelFacts DEF PeerDoc, MaybeVersion
  <2> QED BY <2>1
<1>2. n \in Model /\ n.docs = docs /\ n.entry = m.entry /\ n.tracked = m.tracked
  BY <1>1, DocsSet
<1>3. \A q \in to : q \in Shares[p] /\ m.docs[q].will # None
  BY DEF ContentRecipients, Sharers
<1>4. OffersFit(p, m, o, Q)
  <2>1. \A q \in Peer : o[q] \in MaybeVersion
    BY ModelFacts, VersionFacts
  <2> QED BY <1>3, <2>1 DEF OffersFit, Unasked
<1>5. Records(m, n, Q)
  BY <1>2, <1>3 DEF Records, Unasked
<1>6. Push(p, m, except) = Offering(n, o)
  BY ModelFacts DEF Push, Model, SyncModel
<1>7. Offering(n, o).model = n /\ Offering(n, o).offers = o /\ Offering(n, o).says = Silent
  BY DEF Offering
<1> HIDE DEF n, o
<1> QED BY <1>2, <1>4, <1>5, <1>6, <1>7, OfferingAnswers

-----------------------------------------------------------------------------
(* One lemma per handler.                                                  *)

LEMMA OnOffersSentKeeps ==
  ASSUME NEW m \in Model, NEW sent, NEW v, sent # {} => v \in Version
  PROVE  LET n == OnOffersSent(m, sent, v) IN
           n \in Model /\ n.entry = m.entry /\ \A q \in Peer \ sent : n.docs[q] = m.docs[q]
<1> DEFINE docs == [q \in Peer |-> IF q \in sent \cap m.tracked /\ m.docs[q].status # "none"
                                   THEN [m.docs[q] EXCEPT !.will = v, !.owed = None] ELSE m.docs[q]]
<1>1. docs \in [Peer -> PeerDoc]
  <2>1. ASSUME NEW q \in Peer PROVE docs[q] \in PeerDoc
    <3>1. m.docs[q] \in PeerDoc
      BY ModelFacts
    <3>2. v \in Version => [m.docs[q] EXCEPT !.will = v, !.owed = None] \in PeerDoc
      BY <3>1 DEF PeerDoc
    <3>3. q \in sent \cap m.tracked => v \in Version
      OBVIOUS
    <3> QED BY <3>1, <3>2, <3>3
  <2> QED BY <2>1
<1>2. OnOffersSent(m, sent, v) = [m EXCEPT !.docs = docs]
  BY ModelFacts DEF OnOffersSent, Model, SyncModel
<1>3. \A q \in Peer \ sent : docs[q] = m.docs[q]
  OBVIOUS
<1> HIDE DEF docs
<1> QED BY <1>1, <1>2, <1>3, DocsSet

LEMMA OnPeerAvailableAnswers ==
  ASSUME NEW p \in Peer, NEW m \in Model, NEW q \in Peer
  PROVE  Answers(p, m, OnPeerAvailable(p, m, q), {})
<1> DEFINE forgotten == [Unknown EXCEPT !.status = m.docs[q].status, !.cursor = m.docs[q].cursor]
           n == [m EXCEPT !.tracked = @ \cup {q}, !.docs[q] = forgotten]
           Q == IF m.entry.mode \in {"held", "deferred"} THEN {q} \cap Shares[p] ELSE {}
<1>1. forgotten \in PeerDoc /\ forgotten.will = None /\ forgotten.owed = None
  BY ModelFacts DEF Unknown, PeerDoc
<1>2. n \in Model /\ \A x \in Peer : n.docs[x] = IF x = q THEN forgotten ELSE m.docs[x]
  BY <1>1 DEF Model, SyncModel
<1>3. Records(m, n, {})
  BY <1>1, <1>2 DEF Records, Unasked
<1>4. OnPeerAvailable(p, m, q) = Saying(n, To(Q, <<Present>>))
  BY DEF OnPeerAvailable
<1>5. Q \cap Peer \subseteq Shares[p]
  OBVIOUS
<1> HIDE DEF n, Q
<1> QED BY <1>2, <1>3, <1>4, <1>5, ToldSharers, SayingAnswers

LEMMA OnPeerDepartedAnswers ==
  ASSUME NEW p \in Peer, NEW m \in Model, NEW q \in Peer
  PROVE  Answers(p, m, OnPeerDeparted(m, q), {})
<1> DEFINE n == [m EXCEPT !.tracked = @ \ {q}, !.docs[q] = Unknown]
<1>1. n \in Model /\ \A x \in Peer : n.docs[x] = IF x = q THEN Unknown ELSE m.docs[x]
  BY RecordFacts DEF Model, SyncModel
<1>2. Records(m, n, {})
  BY <1>1, RecordFacts DEF Records, Unasked
<1> HIDE DEF n
<1> QED BY <1>1, <1>2, OnlyAnswers DEF OnPeerDeparted, n

LEMMA OnDocEnsureAnswers ==
  ASSUME NEW p \in Peer, NEW m \in Model, NEW v \in Version, NEW suspended
  PROVE  Answers(p, m, OnDocEnsure(p, m, v, suspended), {})
<1>1. CASE suspended
  <2>1. LET n == [m EXCEPT !.entry = Absent] IN n \in Model /\ n.docs = m.docs
    BY EntrySet, RecordFacts
  <2> QED BY <1>1, <2>1, SameRecords, OnlyAnswers DEF OnDocEnsure
<1>2. CASE ~suspended /\ m.entry.mode = "held"
  BY <1>2, SameRecords, OnlyAnswers DEF OnDocEnsure
<1>3. CASE ~suspended /\ m.entry.mode # "held"
  <2> DEFINE n == [m EXCEPT !.entry = Held(v)]
  <2>1. n \in Model /\ n.docs = m.docs /\ n.entry.version \in Version
    BY EntrySet, RecordFacts DEF MaybeVersion
  <2>2. OnDocEnsure(p, m, v, suspended) = Saying(n, AskAll(p, n, <<Present>>))
    BY <1>3 DEF OnDocEnsure
  <2> HIDE DEF n
  <2> QED BY <2>1, <2>2, SameRecords, AskAllSaid, SayingAnswers
<1> QED BY <1>1, <1>2, <1>3

LEMMA OnDocDeferAnswers ==
  ASSUME NEW p \in Peer, NEW m \in Model PROVE Answers(p, m, OnDocDefer(p, m), {})
<1> DEFINE e == [Absent EXCEPT !.mode = "deferred"]
           n == [m EXCEPT !.entry = e]
<1>1. e \in Entry /\ e.mode # "held"
  BY DEF Absent, Entry
<1>2. n \in Model /\ n.docs = m.docs
  BY <1>1, EntrySet
<1>3. OnDocDefer(p, m) = IF m.entry.mode # "absent" THEN Only(m) ELSE Saying(n, To(Sharers(p, m), <<Present>>))
  BY DEF OnDocDefer
<1>4. Sharers(p, m) \cap Peer \subseteq Shares[p]
  BY DEF Sharers
<1> HIDE DEF n, e
<1> QED BY <1>2, <1>3, <1>4, SameRecords, OnlyAnswers, ToldSharers, SayingAnswers

LEMMA OnDocAdvancedAnswers ==
  ASSUME NEW p \in Peer, NEW m \in Model, NEW v \in Version PROVE Answers(p, m, OnDocAdvanced(p, m, v), {})
<1> DEFINE n == [m EXCEPT !.entry.version = v]
<1>1. n \in Model /\ n.docs = m.docs
  BY DEF Model, SyncModel, Entry
<1>2. Answers(p, n, Push(p, n, {}), {})
  BY <1>1, PushAnswers
<1>3. Answers(p, m, Push(p, n, {}), {})
  BY <1>1, <1>2 DEF Answers, Unasked
<1>4. OnDocAdvanced(p, m, v) = IF m.entry.mode = "absent" THEN Only(m) ELSE Push(p, n, {})
  BY DEF OnDocAdvanced
<1> HIDE DEF n
<1> QED BY <1>3, <1>4, SameRecords, OnlyAnswers

LEMMA OnDocUnloadingAnswers ==
  ASSUME NEW p \in Peer, NEW m \in Model, NEW leaving \in BOOLEAN
  PROVE  Answers(p, m, OnDocUnloading(p, m, leaving), {})
<1> DEFINE n == [m EXCEPT !.entry.leaving = leaving]
<1>1. n \in Model /\ n.docs = m.docs /\ n.entry.version = m.entry.version
  BY DEF Model, SyncModel, Entry
<1>2. m.entry.mode = "held" => m.entry.version \in Version
  BY ModelFacts
<1>3. OnDocUnloading(p, m, leaving) =
        IF m.entry.mode # "held" \/ m.entry.leaving = leaving THEN Only(m)
        ELSE IF leaving THEN Only(n) ELSE Saying(n, AskAll(p, n, <<>>))
  BY DEF OnDocUnloading
<1> HIDE DEF n
<1>4. Answers(p, m, Only(m), {}) /\ Answers(p, m, Only(n), {})
  BY <1>1, SameRecords, OnlyAnswers
<1>5. m.entry.mode = "held" => Answers(p, m, Saying(n, AskAll(p, n, <<>>)), {})
  BY <1>1, <1>2, SameRecords, AskAllSaid, SayingAnswers
<1> QED BY <1>3, <1>4, <1>5

LEMMA OnDocLeaveAnswers ==
  ASSUME NEW p \in Peer, NEW m \in Model, NEW as PROVE Answers(p, m, OnDocLeave(p, m, as), {})
<1> DEFINE unloaded == [Absent EXCEPT !.mode = "unloaded", !.suspended = m.entry.mode = "absent" \/ m.entry.suspended]
           e == IF as = "unload" THEN unloaded ELSE Absent
           n == [ForgetPeerStates(m) EXCEPT !.entry = e, !.reconciled = IF as = "suspend" THEN @ ELSE {}]
           Q == IF m.entry.mode \in {"absent", "unloaded"} THEN {} ELSE Sharers(p, m)
<1>1. e \in Entry /\ e.mode # "held"
  BY ModelFacts DEF Absent, Entry
<1>2. n \in Model /\ \A q \in Peer : n.docs[q] = Unknown
  BY <1>1, RecordFacts DEF Model, SyncModel, ForgetPeerStates
<1>3. Records(m, n, {})
  BY <1>2, RecordFacts DEF Records, Unasked
<1>4. OnDocLeave(p, m, as) = Saying(n, To(Q, <<Dismiss>>))
  BY DEF OnDocLeave
<1>5. Q \cap Peer \subseteq Shares[p]
  BY DEF Sharers
<1> HIDE DEF n, Q, e
<1> QED BY <1>2, <1>3, <1>4, <1>5, ToldSharers, SayingAnswers

LEMMA OnDocPublishableAnswers ==
  ASSUME NEW p \in Peer, NEW m \in Model PROVE Answers(p, m, OnDocPublishable(p, m), {})
<1> DEFINE o == [q \in Peer |-> IF q \in ContentRecipients(p, m) THEN m.docs[q].owed ELSE None]
<1>1. OffersFit(p, m, o, {})
  <2>1. \A q \in Peer : o[q] \in MaybeVersion
    BY ModelFacts, VersionFacts
  <2> QED BY <2>1 DEF OffersFit, Unasked, ContentRecipients, Sharers
<1>2. OnDocPublishable(p, m) = IF m.entry.mode = "absent" THEN Only(m) ELSE Offering(m, o)
  BY DEF OnDocPublishable
<1> HIDE DEF o
<1> QED BY <1>1, <1>2, SameRecords, OnlyAnswers, OfferingAnswers

LEMMA OnPeerSyncedKeeps ==
  ASSUME NEW m \in Model, NEW q \in Peer, NEW v \in Version
  PROVE  OnPeerSynced(m, q, v) \in Model /\ Records(m, OnPeerSynced(m, q, v), {})
<1> DEFINE r == [m.docs[q] EXCEPT !.status = "synced", !.cursor = v]
<1>1. r \in PeerDoc /\ r.will = m.docs[q].will /\ r.owed = m.docs[q].owed
  <2>1. m.docs[q] \in PeerDoc /\ v \in MaybeVersion
    BY ModelFacts DEF MaybeVersion
  <2> QED BY <2>1 DEF PeerDoc
<1>2. OnPeerSynced(m, q, v) \in {m, SetPeerDoc(m, q, r)}
  BY DEF OnPeerSynced
<1> HIDE DEF r
<1> QED BY <1>1, <1>2, SetPeerDocKeeps DEF Records, Unasked

LEMMA OnDocImportedAnswers ==
  ASSUME NEW p \in Peer, NEW m \in Model, NEW q \in Shares[p], q \in Peer, NEW v \in Version, NEW changed,
         NEW offered \in Version, NEW will \in Version
  PROVE  Answers(p, m, OnDocImported(p, m, q, v, changed, offered, will), {q})
<1> DEFINE bumped == [m EXCEPT !.entry.version = v]
           relay == IF changed THEN Push(p, bumped, {q}) ELSE Only(bumped)
           r == relay.model.docs[q]
           synced == SetPeerDoc(relay.model, q, [r EXCEPT !.status = "synced", !.cursor = offered, !.will = will])
           pending == SetPeerDoc(relay.model, q, [r EXCEPT !.status = "pending", !.will = will])
<1>1. bumped \in Model /\ bumped.docs = m.docs /\ bumped.entry.version = v
  BY DEF Model, SyncModel, Entry
<1> HIDE DEF bumped
<1>2. /\ Answers(p, bumped, relay, {q}) /\ OffersFit(p, bumped, relay.offers, {q})
      /\ relay.model.entry = bumped.entry
  <2>1. Answers(p, bumped, Only(bumped), {q}) /\ OffersFit(p, bumped, NoOffers, {q})
    BY <1>1, OnlyAnswers, SameRecords, NoOffersFit
  <2>2. Only(bumped).model = bumped /\ Only(bumped).offers = NoOffers
    BY DEF Only
  <2> QED BY <1>1, <2>1, <2>2, PushAnswers
<1>3. /\ OffersFit(p, m, relay.offers, {q}) /\ Records(m, relay.model, {q}) /\ relay.model \in Model
      /\ relay.model.entry.version = v
  BY <1>1, <1>2 DEF Answers, OffersFit, Records, Unasked, Reply
<1> HIDE DEF relay
<1>4. synced \in Model /\ pending \in Model /\ pending.entry.version \in Version
      /\ Records(m, synced, {q}) /\ Records(m, pending, {q})
  <2>1. r \in PeerDoc
    BY <1>3, ModelFacts
  <2> DEFINE rs == [r EXCEPT !.status = "synced", !.cursor = offered, !.will = will]
             rp == [r EXCEPT !.status = "pending", !.will = will]
  <2>2. rs \in PeerDoc /\ rp \in PeerDoc
    BY <2>1 DEF PeerDoc
  <2> DEFINE mm == relay.model
  <2>m. mm \in Model /\ q \in Peer
    BY <1>3
  <2>s. synced = SetPeerDoc(relay.model, q, rs) /\ pending = SetPeerDoc(relay.model, q, rp)
    OBVIOUS
  <2> HIDE DEF rs, rp, r, synced, pending
  <2>3. ASSUME NEW x \in Peer \ {q}
        PROVE  synced.docs[x] = relay.model.docs[x] /\ pending.docs[x] = relay.model.docs[x]
    <3> HIDE DEF mm
    <3>1. SetPeerDoc(mm, q, rs).docs[x] = mm.docs[x]
      BY <2>m, <2>2, SetPeerDocKeeps
    <3>2. SetPeerDoc(mm, q, rp).docs[x] = mm.docs[x]
      BY <2>m, <2>2, SetPeerDocKeeps
    <3> QED BY <2>s, <3>1, <3>2 DEF mm
  <2>4. synced \in Model /\ pending \in Model /\ pending.entry.version \in Version
    BY <1>3, <2>2, <2>s, SetPeerDocKeeps
  <2>5. Records(m, synced, {q}) /\ Records(m, pending, {q})
    BY <1>3, <2>3 DEF Records, Unasked
  <2> QED BY <2>4, <2>5
<1>5. OnDocImported(p, m, q, v, changed, offered, will) =
        IF m.entry.mode = "absent" THEN Only(m)
        ELSE IF Reaches(v, offered) THEN Offering(synced, relay.offers)
        ELSE [model |-> pending, offers |-> relay.offers, says |-> To({q}, <<InterestTo(pending, q, FALSE)>>)]
  BY DEF OnDocImported, relay, bumped
<1> HIDE DEF synced, pending
<1>6. Answers(p, m, Only(m), {q}) /\ Answers(p, m, Offering(synced, relay.offers), {q})
  BY <1>3, <1>4, SameRecords, OnlyAnswers, OfferingAnswers
<1>7. Answers(p, m, [model |-> pending, offers |-> relay.offers, says |-> To({q}, <<InterestTo(pending, q, FALSE)>>)], {q})
  BY <1>3, <1>4, ToldInterest, ReplyAnswers
<1> QED BY <1>5, <1>6, <1>7

LEMMA ReloadKeeps ==
  ASSUME NEW p, NEW m \in Model
  PROVE  ReloadOnDemand(p, m) \in Model /\ ReloadOnDemand(p, m).docs = m.docs
BY DEF ReloadOnDemand, Model, SyncModel, Entry

LEMMA OnPresentAnswers ==
  ASSUME NEW p \in Peer, NEW m \in Model, NEW q \in Peer PROVE Answers(p, m, OnPresent(p, m, q), {})
<1>1. Answers(p, m, Only(m), {}) /\ Answers(p, m, Only(ReloadOnDemand(p, m)), {})
  BY ReloadKeeps, SameRecords, OnlyAnswers
<1>2. q \in Sharers(p, m) /\ m.entry.mode = "held" => Answers(p, m, Saying(m, To({q}, <<InterestTo(m, q, TRUE)>>)), {})
  BY ModelFacts, ToldInterest, SameRecords, SayingAnswers DEF Sharers
<1>3. m.entry.mode \in {"absent", "deferred", "unloaded", "held"}
  BY ModelFacts DEF Entry
<1> QED BY <1>1, <1>2, <1>3 DEF OnPresent

Interest == [type : {"interest"}, version : Version, since : Version \cup {None}, reciprocate : BOOLEAN]

LEMMA OnInterestAnswers ==
  ASSUME NEW p \in Peer, NEW m \in Model, NEW q \in Peer, NEW i \in Interest
  PROVE  Answers(p, m, OnInterest(p, m, q, i), {q})
<1> DEFINE answered == q \in ContentRecipients(p, m)
           r == [m.docs[q] EXCEPT !.status = "pending", !.held = TheyHold(i),
                     !.will = None, !.owed = IF answered THEN TheyHold(i) ELSE @]
           n == SetPeerDoc(m, q, r)
           o == [NoOffers EXCEPT ![q] = IF answered THEN TheyHold(i) ELSE None]
           Q == IF i.reciprocate /\ ~m.entry.leaving THEN {q} ELSE {}
           full == [model |-> n, offers |-> o, says |-> To(Q, <<InterestTo(m, q, FALSE)>>)]
<1>1. TheyHold(i) \in Version
  BY DEF TheyHold, Interest
<1>2. r \in PeerDoc
  <2>1. (IF answered THEN TheyHold(i) ELSE m.docs[q].owed) \in Version \cup {None}
    BY <1>1, ModelFacts DEF MaybeVersion
  <2>2. m.docs[q] \in PeerDoc
    BY ModelFacts
  <2> HIDE DEF answered
  <2> QED BY <1>1, <2>1, <2>2 DEF PeerDoc
<1>3. n \in Model /\ Records(m, n, {q})
  BY <1>2, SetPeerDocKeeps DEF Records, Unasked
<1>4. OffersFit(p, m, o, {q})
  BY <1>1 DEF OffersFit, NoOffers, MaybeVersion, ContentRecipients, Sharers
<1>5. OnInterest(p, m, q, i) =
        IF q \notin m.tracked THEN Only(m)
        ELSE IF q \notin Shares[p] THEN Saying(m, To({q}, <<Vacant>>))
        ELSE IF m.entry.mode \in {"absent", "deferred"} THEN Only(m)
        ELSE IF m.entry.mode = "unloaded" THEN Only(ReloadOnDemand(p, m))
        ELSE full
  BY DEF OnInterest
<1> HIDE DEF n, o, Q
<1>6. q \in Shares[p] /\ m.entry.mode = "held" => Answers(p, m, full, {q})
  <2>1. Q \subseteq {q}
    BY DEF Q
  <2> QED BY <1>3, <1>4, <2>1, ModelFacts, ToldInterest, ReplyAnswers
<1>7. Answers(p, m, Only(m), {q}) /\ Answers(p, m, Only(ReloadOnDemand(p, m)), {q})
      /\ Answers(p, m, Saying(m, To({q}, <<Vacant>>)), {q})
  BY ReloadKeeps, SameRecords, OnlyAnswers, ToldVacant, SayingAnswers
<1>8. m.entry.mode \in {"absent", "deferred", "unloaded", "held"}
  BY ModelFacts DEF Entry
<1> HIDE DEF full
<1> QED BY <1>5, <1>6, <1>7, <1>8

LEMMA OnOfferVetoedAnswers ==
  ASSUME NEW p \in Peer, NEW m \in Model, NEW q \in Peer PROVE Answers(p, m, OnOfferVetoed(p, m, q), {})
<1>1. Answers(p, m, Only(m), {}) /\ Answers(p, m, Saying(m, To({q} \cap Shares[p], <<Refuse>>)), {})
  BY SameRecords, OnlyAnswers, ToldSharers, SayingAnswers
<1> QED BY <1>1 DEF OnOfferVetoed

\* Handlers that only change what is recorded of the sender, and not what an offer could start from.
LEMMA RecordAnswers ==
  ASSUME NEW p \in Peer, NEW m \in Model, NEW q \in Peer, NEW r \in PeerDoc,
         r.will = m.docs[q].will, r.owed = m.docs[q].owed
  PROVE  Answers(p, m, Only(SetPeerDoc(m, q, r)), {})
<1>1. SetPeerDoc(m, q, r) \in Model /\ Records(m, SetPeerDoc(m, q, r), {})
  BY SetPeerDocKeeps DEF Records, Unasked
<1> QED BY <1>1, OnlyAnswers

LEMMA OnAcceptAnswers ==
  ASSUME NEW p \in Peer, NEW m \in Model, NEW q \in Peer, NEW v \in Version PROVE Answers(p, m, OnAccept(m, q, v), {})
<1> DEFINE r == [m.docs[q] EXCEPT !.held = v]
<1>1. r \in PeerDoc /\ r.will = m.docs[q].will /\ r.owed = m.docs[q].owed
  BY ModelFacts DEF PeerDoc
<1> HIDE DEF r
<1> QED BY <1>1, RecordAnswers DEF OnAccept, r

LEMMA OnRefuseAnswers ==
  ASSUME NEW p \in Peer, NEW m \in Model, NEW q \in Peer PROVE Answers(p, m, OnRefuse(m, q), {})
<1> DEFINE r == [m.docs[q] EXCEPT !.refuses = TRUE]
<1>1. r \in PeerDoc /\ r.will = m.docs[q].will /\ r.owed = m.docs[q].owed
  <2>1. m.docs[q] \in PeerDoc
    BY ModelFacts
  <2> QED BY <2>1 DEF PeerDoc
<1> HIDE DEF r
<1> QED BY <1>1, RecordAnswers DEF OnRefuse, r

LEMMA OnDismissAnswers ==
  ASSUME NEW p \in Peer, NEW m \in Model, NEW q \in Peer PROVE Answers(p, m, OnDismiss(m, q), {})
<1> DEFINE n == IF q \in m.tracked THEN [m EXCEPT !.docs[q] = Unknown] ELSE m
<1>1. n \in Model /\ \A x \in Peer : n.docs[x] \in {Unknown, m.docs[x]}
  BY RecordFacts DEF Model, SyncModel
<1>2. Records(m, n, {})
  BY <1>1, RecordFacts DEF Records, Unasked
<1>3. OnDismiss(m, q) = Only(n)
  BY DEF OnDismiss
<1> HIDE DEF n
<1> QED BY <1>1, <1>2, <1>3, OnlyAnswers

LEMMA OnVacantAnswers ==
  ASSUME NEW p \in Peer, NEW m \in Model, NEW q \in Peer PROVE Answers(p, m, OnVacant(m, q), {})
<1> DEFINE r == [m.docs[q] EXCEPT !.status = "vacant"]
<1>1. r \in PeerDoc /\ r.will = m.docs[q].will /\ r.owed = m.docs[q].owed
  BY ModelFacts DEF PeerDoc
<1>2. Answers(p, m, Only(m), {})
  BY SameRecords, OnlyAnswers
<1>3. OnVacant(m, q) \in {Only(m), Only(SetPeerDoc(m, q, r))}
  BY DEF OnVacant
<1> HIDE DEF r
<1> QED BY <1>1, <1>2, <1>3, RecordAnswers

LEMMA OnDeclareVacantAnswers ==
  ASSUME NEW p \in Peer, NEW m \in Model, NEW q \in Peer PROVE Answers(p, m, OnDeclareVacant(m, q), {})
BY SameRecords, ToldVacant, SayingAnswers DEF OnDeclareVacant

LEMMA SyncedAnswers ==
  ASSUME NEW p \in Peer, NEW m \in Model, NEW Q, NEW reply, Answers(p, m, reply, Q), NEW q \in Peer, NEW v \in Version
  PROVE  Answers(p, m, [reply EXCEPT !.model = OnPeerSynced(@, q, v)], Q)
<1> DEFINE n == OnPeerSynced(reply.model, q, v)
<1>1. reply.model \in Model /\ reply \in Reply
  BY DEF Answers, Reply
<1>2. n \in Model /\ Records(reply.model, n, {})
  BY <1>1, OnPeerSyncedKeeps
<1>3. [reply EXCEPT !.model = OnPeerSynced(@, q, v)] = [model |-> n, offers |-> reply.offers, says |-> reply.says]
  BY <1>1 DEF Reply
<1> HIDE DEF n
<1>4. Records(m, n, Q) /\ OffersFit(p, m, reply.offers, Q)
  BY <1>1, <1>2 DEF Answers, Records, OffersFit, Reply
<1>5. reply.says \in [Peer -> Seq(Message)] /\ \A x \in Peer : reply.says[x] \in Seq(Said(p, x))
  BY <1>1 DEF Answers, Reply
<1> QED BY <1>2, <1>3, <1>4, <1>5, ReplyAnswers

-----------------------------------------------------------------------------
(* The invariant.                                                          *)

\* A version no peer's crash could take anything back of, s being the stores.
Safe(v, s) == \A w \in Peer : s[w] # None => v[w] <= s[w][w]

\* What p may have under way to q: more than `vacant` only to a sharer, and offers, of what is stored, only to one that
\* shares the document with p, since it asked for it.
Fit(p, q, s) ==
  {msg \in Message : /\ q \notin Shares[p] => msg.type \in {"establish", "vacant"}
                     /\ p \notin Shares[q] => msg.type # "offer"
                     /\ msg.type = "offer" => Safe(msg.version, s)}

Types ==
  /\ model \in [Peer -> Model]
  /\ doc \in [Peer -> MaybeVersion] /\ stored \in [Peer -> MaybeVersion]
  /\ end \in [Peer -> [Peer -> End]]
  /\ began \in [Peer -> [Peer -> Version]]
  /\ faults \in [{"drop", "crash", "leave", "depart"} -> Nat]
  /\ wire \in [Peer -> [Peer -> Seq(Message)]]

WiresFit == \A p, q \in Peer : wire[p][q] \in Seq(Fit(p, q, stored))

AskedFirst == \A p, q \in Peer : p \notin Shares[q] => Unasked(model[p], q)

\* What is in memory has a store behind it, which holds no more.
Backed == \A p \in Peer : InMemory(p) => stored[p] # None /\ Reaches(doc[p], stored[p])

\* The part of KnownIsStored about what others have.
HeldIsSafe ==
  \A p, q \in Peer : q # p /\ stored[p] # None =>
    /\ doc[q] # None => doc[q][p] <= stored[p][p]
    /\ stored[q] # None => stored[q][p] <= stored[p][p]

Inv == Types /\ WiresFit /\ AskedFirst /\ Backed /\ HeldIsSafe

-----------------------------------------------------------------------------
(* Growing stores.                                                         *)

\* No store loses anything but a whole document.
StoresGrow(s, t) == \A w \in Peer : t[w] # None => s[w] # None /\ s[w][w] <= t[w][w]

LEMMA FitGrows ==
  ASSUME NEW s \in [Peer -> MaybeVersion], NEW t \in [Peer -> MaybeVersion], StoresGrow(s, t), NEW p \in Peer, NEW q \in Peer
  PROVE  Fit(p, q, s) \subseteq Fit(p, q, t)
<1> SUFFICES ASSUME NEW msg \in Fit(p, q, s), msg.type = "offer" PROVE Safe(msg.version, t)
  BY DEF Fit
<1>1. msg \in Message /\ Safe(msg.version, s)
  BY DEF Fit
<1>2. msg.version \in Version
  BY <1>1 DEF Message
<1>3. ASSUME NEW w \in Peer, t[w] # None PROVE msg.version[w] <= t[w][w]
  <2>1. s[w] \in Version /\ t[w] \in Version
    BY <1>3 DEF StoresGrow, MaybeVersion
  <2>2. msg.version[w] <= s[w][w] /\ s[w][w] <= t[w][w]
    BY <1>1, <1>3 DEF Safe, StoresGrow
  <2> QED BY <1>2, <2>1, <2>2 DEF Version
<1> QED BY <1>3 DEF Safe

LEMMA WiresFitGrow ==
  ASSUME Types, WiresFit, NEW t \in [Peer -> MaybeVersion], StoresGrow(stored, t)
  PROVE  \A p, q \in Peer : wire[p][q] \in Seq(Fit(p, q, t))
BY FitGrows, SeqMonotonic DEF Types, WiresFit

LEMMA SameStores ==
  ASSUME Types PROVE StoresGrow(stored, stored)
BY DEF StoresGrow, Types, MaybeVersion, Version

-----------------------------------------------------------------------------
(* Running a reply.                                                        *)

LEMMA SaidFits ==
  ASSUME NEW p \in Peer, NEW q \in Peer, NEW s PROVE Said(p, q) \subseteq Fit(p, q, s)
BY DEF Said, Fit

LEMMA OfferFits ==
  ASSUME NEW p \in Peer, NEW q \in Peer, q \in Shares[p], p \in Shares[q], NEW s,
         NEW v \in Version, NEW from \in Version, Safe(v, s)
  PROVE  Offer(from, v) \in Fit(p, q, s)
BY DEF Offer, Fit, Message

LEMMA FitIsMessage == ASSUME NEW p, NEW q, NEW s, NEW ms \in Seq(Fit(p, q, s)) PROVE ms \in Seq(Message)
BY SeqMonotonic DEF Fit

LEMMA RunKeeps ==
  ASSUME Types, AskedFirst, NEW p \in Peer, NEW Q, \A q \in Q \cap Peer : p \in Shares[q],
         NEW reply, Answers(p, model[p], reply, Q),
         NEW d \in MaybeVersion, NEW s \in MaybeVersion, NEW t,
         s = t[p], GateOpen(p, d, s) => Safe(d, t),
         NEW first, \A q \in Peer : first[q] \in Seq(Said(p, q)),
         NEW w \in [Peer -> [Peer -> Seq(Message)]], \A a, b \in Peer : w[a][b] \in Seq(Fit(a, b, t)),
         Run(p, reply, d, s, first, w)
  PROVE  /\ model' \in [Peer -> Model] /\ AskedFirst'
         /\ wire' \in [Peer -> [Peer -> Seq(Message)]]
         /\ \A a, b \in Peer : wire'[a][b] \in Seq(Fit(a, b, t))
<1> DEFINE sent == OffersSent(p, reply.offers, d, s)
           offer(q) == IF q \in sent THEN <<Offer(reply.offers[q], d)>> ELSE <<>>
           out(q) == IF end'[p][q] = "on" THEN w[p][q] \o first[q] \o offer(q) \o reply.says[q] ELSE w[p][q]
           n == OnOffersSent(reply.model, sent, d)
<1>1. model' = [model EXCEPT ![p] = n] /\ wire' = [w EXCEPT ![p] = [q \in Peer |-> out(q)]]
  BY DEF Run
<1>2. /\ reply.model \in Model /\ \A q \in Peer : reply.offers[q] \in MaybeVersion
      /\ \A q \in Peer : reply.says[q] \in Seq(Said(p, q))
  BY DEF Answers, Reply
<1>3. sent # {} => GateOpen(p, d, s) /\ d \in Version
  BY DEF OffersSent, GateOpen, MaybeVersion
<1>4. n \in Model /\ \A q \in Peer \ sent : n.docs[q] = reply.model.docs[q]
  BY <1>2, <1>3, OnOffersSentKeeps
<1>5. \A q \in sent : q \in Peer /\ reply.offers[q] # None /\ q \in Shares[p] /\ p \in Shares[q]
  <2>1. \A q \in sent : q \in Peer /\ reply.offers[q] # None
    BY DEF OffersSent
  <2> QED BY <2>1 DEF Answers, AskedFirst
<1> HIDE DEF sent, n
<1>6. ASSUME NEW q \in Peer PROVE out(q) \in Seq(Fit(p, q, t))
  <2>1. offer(q) \in Seq(Fit(p, q, t))
    <3>1. CASE q \in sent
      <4>1. Offer(reply.offers[q], d) \in Fit(p, q, t)
        BY <1>2, <1>3, <1>5, <3>1, OfferFits DEF MaybeVersion
      <4> QED BY <3>1, <4>1
    <3>2. CASE q \notin sent
      BY <3>2, EmptySeq
    <3> QED BY <3>1, <3>2
  <2>2. first[q] \in Seq(Fit(p, q, t)) /\ reply.says[q] \in Seq(Fit(p, q, t))
    BY <1>2, SaidFits, SeqMonotonic
  <2>3. w[p][q] \in Seq(Fit(p, q, t))
    OBVIOUS
  <2> HIDE DEF offer
  <2> QED BY <2>1, <2>2, <2>3, ConcatProperties
<1>7. \A q \in Peer : out(q) \in Seq(Message)
  BY <1>6, FitIsMessage
<1> HIDE DEF out
<1>8. AskedFirst'
  <2> SUFFICES ASSUME NEW a \in Peer, NEW b \in Peer, a \notin Shares[b] PROVE Unasked(model'[a], b)
    BY DEF AskedFirst
  <2>1. CASE a = p
    <3>1. b \notin Q /\ b \notin sent /\ Unasked(model[p], b)
      BY <1>5, <2>1 DEF AskedFirst
    <3>2. Unasked(reply.model, b)
      BY <3>1 DEF Answers
    <3>3. model'[p] = n
      BY <1>1 DEF Types
    <3> QED BY <1>4, <2>1, <3>1, <3>2, <3>3 DEF Unasked
  <2>2. CASE a # p
    <3>1. model'[a] = model[a]
      BY <1>1, <2>2 DEF Types
    <3> QED BY <3>1 DEF AskedFirst
  <2> QED BY <2>1, <2>2
<1>9. /\ wire' \in [Peer -> [Peer -> Seq(Message)]]
      /\ \A a, b \in Peer : wire'[a][b] \in Seq(Fit(a, b, t))
  <2>1. \A a, b \in Peer : wire'[a][b] = IF a = p THEN out(b) ELSE w[a][b]
    BY <1>1
  <2>2. wire' \in [Peer -> [Peer -> Seq(Message)]]
    BY <1>1, <1>7
  <2> QED BY <1>6, <2>1, <2>2
<1>10. model' \in [Peer -> Model]
  BY <1>1, <1>4 DEF Types
<1> QED BY <1>8, <1>9, <1>10

\* An offer leaves only when all that is in it is stored by its writers.
LEMMA GateIsSafe ==
  ASSUME Types, HeldIsSafe, NEW p \in Peer, GateOpen(p, doc[p], stored[p])
  PROVE  Safe(doc[p], stored)
BY DEF Safe, HeldIsSafe, GateOpen

\* What a step leaves in memory may be there.
DocsFit == doc' \in [Peer -> MaybeVersion] /\ Backed' /\ HeldIsSafe'

LEMMA SameDocsFit == ASSUME Inv, UNCHANGED <<doc, stored>> PROVE DocsFit
BY DEF Inv, Types, DocsFit, Backed, HeldIsSafe, InMemory

LEMMA SpendKeeps ==
  ASSUME Types, NEW f \in {"drop", "crash", "leave", "depart"}, Spend(f)
  PROVE  faults' \in [{"drop", "crash", "leave", "depart"} -> Nat]
BY DEF Types, Spend

\* The wires a message is taken from.
LEMMA TakenFits ==
  ASSUME Types, WiresFit, NEW p \in Peer, NEW q \in Peer, wire[q][p] # <<>>
  PROVE  /\ Taken(p, q) \in [Peer -> [Peer -> Seq(Message)]]
         /\ \A a, b \in Peer : Taken(p, q)[a][b] \in Seq(Fit(a, b, stored))
         /\ Head(wire[q][p]) \in Fit(q, p, stored)
<1>1. wire[q][p] \in Seq(Fit(q, p, stored)) /\ wire[q][p] \in Seq(Message)
  BY DEF Types, WiresFit
<1>2. /\ Tail(wire[q][p]) \in Seq(Fit(q, p, stored)) /\ Tail(wire[q][p]) \in Seq(Message)
      /\ Head(wire[q][p]) \in Fit(q, p, stored)
  BY <1>1, HeadTailProperties
<1>3. \A a, b \in Peer : Taken(p, q)[a][b] = IF a = q /\ b = p THEN Tail(wire[q][p]) ELSE wire[a][b]
  BY DEF Taken, Types
<1>4. Taken(p, q) \in [Peer -> [Peer -> Seq(Message)]]
  BY <1>2 DEF Taken, Types
<1> QED BY <1>2, <1>3, <1>4 DEF WiresFit

\* A step that moves one program, the wires and what is in memory.
LEMMA MovesKeep ==
  ASSUME Inv, DocsFit, NEW p \in Peer, NEW Q, \A q \in Q \cap Peer : p \in Shares[q],
         NEW reply, Answers(p, model[p], reply, Q),
         NEW first, \A q \in Peer : first[q] \in Seq(Said(p, q)),
         NEW w \in [Peer -> [Peer -> Seq(Message)]], \A a, b \in Peer : w[a][b] \in Seq(Fit(a, b, stored)),
         Run(p, reply, doc'[p], stored[p], first, w),
         UNCHANGED stored, end' \in [Peer -> [Peer -> End]], began' \in [Peer -> [Peer -> Version]],
         faults' \in [{"drop", "crash", "leave", "depart"} -> Nat]
  PROVE  Inv'
<1>1. Types /\ AskedFirst /\ doc'[p] \in MaybeVersion /\ stored[p] \in MaybeVersion
  BY DEF Inv, Types, DocsFit
<1>2. GateOpen(p, doc'[p], stored[p]) => Safe(doc'[p], stored)
  BY DEF DocsFit, HeldIsSafe, Safe, GateOpen
<1>3. /\ model' \in [Peer -> Model] /\ AskedFirst'
      /\ wire' \in [Peer -> [Peer -> Seq(Message)]]
      /\ \A a, b \in Peer : wire'[a][b] \in Seq(Fit(a, b, stored))
  BY <1>1, <1>2, RunKeeps
<1>4. WiresFit'
  BY <1>3 DEF WiresFit
<1>5. Types'
  BY <1>1, <1>3 DEF Types, DocsFit
<1> QED BY <1>3, <1>4, <1>5 DEF Inv, DocsFit

LEMMA InputKeeps ==
  ASSUME Inv, DocsFit, NEW p \in Peer, NEW reply, Answers(p, model[p], reply, {}), Input(p, reply),
         faults' \in [{"drop", "crash", "leave", "depart"} -> Nat]
  PROVE  Inv'
<1>1. /\ wire \in [Peer -> [Peer -> Seq(Message)]] /\ \A a, b \in Peer : wire[a][b] \in Seq(Fit(a, b, stored))
      /\ end' \in [Peer -> [Peer -> End]] /\ began' \in [Peer -> [Peer -> Version]]
      /\ UNCHANGED stored /\ Run(p, reply, doc'[p], stored[p], Silent, wire)
  BY DEF Inv, Types, WiresFit, Input
<1>2. \A q \in Peer : Silent[q] \in Seq(Said(p, q))
  BY SilentSaid
<1> QED BY <1>1, <1>2, MovesKeep

\* A message taken, the document unmoved.
LEMMA ReceiveKeeps ==
  ASSUME Inv, NEW p \in Peer, NEW q \in Peer, NEW t, NEW Q, \A x \in Q \cap Peer : p \in Shares[x],
         NEW reply, Answers(p, model[p], reply, Q), Receive(p, q, t, reply)
  PROVE  Inv'
<1>1. /\ wire[q][p] # <<>> /\ UNCHANGED <<doc, stored, end, began, faults>>
      /\ Run(p, reply, doc'[p], stored[p], Silent, Taken(p, q))
  BY DEF Receive, Arrives
<1>2. DocsFit
  BY <1>1, SameDocsFit
<1>3. /\ Taken(p, q) \in [Peer -> [Peer -> Seq(Message)]]
      /\ \A a, b \in Peer : Taken(p, q)[a][b] \in Seq(Fit(a, b, stored))
  BY <1>1, TakenFits DEF Inv
<1>4. /\ end' \in [Peer -> [Peer -> End]] /\ began' \in [Peer -> [Peer -> Version]]
      /\ faults' \in [{"drop", "crash", "leave", "depart"} -> Nat]
  BY <1>1 DEF Inv, Types
<1>5. \A x \in Peer : Silent[x] \in Seq(Said(p, x))
  BY SilentSaid
<1> QED BY <1>1, <1>2, <1>3, <1>4, <1>5, MovesKeep

-----------------------------------------------------------------------------
(* One lemma per action: the document.                                     *)

LEMMA ModelOf == ASSUME Inv, NEW p \in Peer PROVE model[p] \in Model /\ doc[p] \in MaybeVersion /\ stored[p] \in MaybeVersion
BY DEF Inv, Types

\* Memory changes at p only, to nothing or to a version that others' stores allow.
LEMMA DocMoves ==
  ASSUME Inv, NEW p \in Peer, NEW d \in MaybeVersion, doc' = [doc EXCEPT ![p] = d], UNCHANGED stored,
         d # None => /\ stored[p] # None /\ Reaches(d, stored[p])
                     /\ \A w \in Peer \ {p} : stored[w] # None => d[w] <= stored[w][w]
  PROVE  DocsFit
<1>1. \A q \in Peer : doc'[q] = IF q = p THEN d ELSE doc[q]
  BY DEF Inv, Types
<1>2. doc' \in [Peer -> MaybeVersion]
  BY DEF Inv, Types
<1>3. Backed'
  BY <1>1 DEF Inv, Backed, InMemory
<1>4. HeldIsSafe'
  BY <1>1 DEF Inv, HeldIsSafe
<1> QED BY <1>2, <1>3, <1>4 DEF DocsFit

LEMMA EnsureKeeps == ASSUME Inv, NEW p \in Peer, Ensure(p) PROVE Inv'
<1>1. stored[p] \in Version /\ doc' = [doc EXCEPT ![p] = stored[p]] /\ UNCHANGED <<stored, faults>>
  BY ModelOf DEF Ensure, Input, MaybeVersion
<1>2. DocsFit
  <2>1. Reaches(stored[p], stored[p])
    BY <1>1 DEF Reaches, Version
  <2>2. \A w \in Peer \ {p} : stored[w] # None => stored[p][w] <= stored[w][w]
    BY <1>1, NoneAssumption DEF Inv, HeldIsSafe
  <2> QED BY <1>1, <2>1, <2>2, DocMoves, NoneAssumption DEF MaybeVersion
<1>3. Answers(p, model[p], OnDocEnsure(p, model[p], stored[p], model[p].entry.suspended), {})
  BY <1>1, ModelOf, OnDocEnsureAnswers
<1>4. faults' \in [{"drop", "crash", "leave", "depart"} -> Nat]
  BY <1>1 DEF Inv, Types
<1> QED BY <1>2, <1>3, <1>4, InputKeeps DEF Ensure

LEMMA LocalWriteKeeps == ASSUME Inv, NEW p \in Peer, LocalWrite(p) PROVE Inv'
<1> DEFINE d == [doc[p] EXCEPT ![p] = @ + 1]
<1>1. doc[p] \in Version /\ doc' = [doc EXCEPT ![p] = d] /\ UNCHANGED <<stored, faults>>
  BY ModelOf DEF LocalWrite, Input, InMemory, MaybeVersion
<1>2. d \in Version /\ doc'[p] = d
  BY <1>1 DEF Version, Inv, Types
<1>3. DocsFit
  <2>1. stored[p] # None /\ Reaches(doc[p], stored[p]) /\ stored[p] \in Version
    BY <1>1, ModelOf, NoneAssumption DEF Inv, Backed, InMemory, MaybeVersion
  <2>2. Reaches(d, stored[p])
    BY <1>1, <2>1 DEF Reaches, Version
  <2>3. \A w \in Peer \ {p} : stored[w] # None => d[w] <= stored[w][w]
    BY <1>1, NoneAssumption DEF Inv, HeldIsSafe, Version
  <2> HIDE DEF d
  <2> QED BY <1>1, <1>2, <2>1, <2>2, <2>3, DocMoves DEF MaybeVersion
<1>4. Answers(p, model[p], OnDocAdvanced(p, model[p], doc'[p]), {})
  BY <1>2, ModelOf, OnDocAdvancedAnswers
<1>5. faults' \in [{"drop", "crash", "leave", "depart"} -> Nat]
  BY <1>1 DEF Inv, Types
<1> QED BY <1>3, <1>4, <1>5, InputKeeps DEF LocalWrite

LEMMA StoredKeeps == ASSUME Inv, NEW p \in Peer, Stored(p) PROVE Inv'
<1> DEFINE reply == IF GateOpen(p, doc[p], stored[p]) THEN Only(model[p]) ELSE OnDocPublishable(p, model[p])
<1>1. /\ doc[p] \in Version /\ stored[p] \in Version /\ Reaches(doc[p], stored[p])
      /\ stored' = [stored EXCEPT ![p] = doc[p]] /\ UNCHANGED <<doc, end, began, faults>>
      /\ Run(p, reply, doc[p], doc[p], Silent, wire)
  BY ModelOf DEF Stored, InMemory, Inv, Backed, MaybeVersion
<1> HIDE DEF reply
<1>2. \A q \in Peer : stored'[q] = IF q = p THEN doc[p] ELSE stored[q]
  BY <1>1 DEF Inv, Types
<1>3. stored' \in [Peer -> MaybeVersion]
  BY <1>1 DEF Inv, Types, MaybeVersion
<1>4. StoresGrow(stored, stored')
  <2>1. doc[p] # None /\ stored[p] # None /\ stored[p][p] <= doc[p][p]
    BY <1>1, NoneAssumption DEF Reaches
  <2>2. ASSUME NEW w \in Peer, stored[w] # None PROVE stored[w][w] <= stored[w][w]
    BY <2>2, ModelOf DEF MaybeVersion, Version
  <2> QED BY <1>2, <2>1, <2>2 DEF StoresGrow
<1>5. HeldIsSafe'
  <2> SUFFICES ASSUME NEW a \in Peer, NEW b \in Peer, a # b, stored'[a] # None
               PROVE  /\ doc[b] # None => doc[b][a] <= stored'[a][a]
                      /\ stored'[b] # None => stored'[b][a] <= stored'[a][a]
    BY <1>1 DEF HeldIsSafe
  <2>1. stored[a] # None /\ stored[a][a] <= stored'[a][a] /\ stored[a] \in Version /\ stored'[a] \in Version
    BY <1>3, <1>4, ModelOf DEF StoresGrow, MaybeVersion
  <2>2. /\ doc[b] # None => doc[b] \in Version /\ doc[b][a] <= stored[a][a]
        /\ stored[b] # None => stored[b] \in Version /\ stored[b][a] <= stored[a][a]
    BY <2>1, ModelOf DEF Inv, HeldIsSafe, MaybeVersion
  <2>3. stored'[b] \in {stored[b], doc[b]}
    BY <1>2
  <2> QED BY <2>1, <2>2, <2>3 DEF Version
<1>6. Backed'
  <2>1. Reaches(doc[p], doc[p]) /\ doc[p] # None
    BY <1>1, NoneAssumption DEF Reaches, Version
  <2> QED BY <1>1, <1>2, <2>1 DEF Inv, Backed, InMemory
<1>7. Answers(p, model[p], reply, {})
  BY ModelOf, SameRecords, OnlyAnswers, OnDocPublishableAnswers DEF reply
<1>8. Safe(doc[p], stored')
  BY <1>1, <1>2, <1>5, NoneAssumption DEF Safe, HeldIsSafe, Version
<1>9. \A a, b \in Peer : wire[a][b] \in Seq(Fit(a, b, stored'))
  BY <1>3, <1>4, WiresFitGrow DEF Inv
<1>10. /\ model' \in [Peer -> Model] /\ AskedFirst'
       /\ wire' \in [Peer -> [Peer -> Seq(Message)]]
       /\ \A a, b \in Peer : wire'[a][b] \in Seq(Fit(a, b, stored'))
  <2>1. doc[p] \in MaybeVersion /\ doc[p] = stored'[p] /\ Types /\ AskedFirst /\ wire \in [Peer -> [Peer -> Seq(Message)]]
    BY <1>1, <1>2 DEF Inv, Types, MaybeVersion
  <2>2. \A q \in Peer : Silent[q] \in Seq(Said(p, q))
    BY SilentSaid
  <2> QED BY <1>1, <1>7, <1>8, <1>9, <2>1, <2>2, RunKeeps
<1> QED BY <1>1, <1>3, <1>5, <1>6, <1>10 DEF Inv, Types, WiresFit

LEMMA UnloadingKeeps == ASSUME Inv, NEW p \in Peer, Unloading(p) PROVE Inv'
<1>1. UNCHANGED <<doc, stored>> /\ faults' \in [{"drop", "crash", "leave", "depart"} -> Nat]
  BY SpendKeeps DEF Unloading, Input, Inv
<1>2. DocsFit
  BY <1>1, SameDocsFit
<1>3. Answers(p, model[p], OnDocUnloading(p, model[p], TRUE), {})
  BY ModelOf, OnDocUnloadingAnswers
<1> QED BY <1>1, <1>2, <1>3, InputKeeps DEF Unloading

LEMMA UnloadCancelledKeeps == ASSUME Inv, NEW p \in Peer, UnloadCancelled(p) PROVE Inv'
<1>1. UNCHANGED <<doc, stored>> /\ faults' \in [{"drop", "crash", "leave", "depart"} -> Nat]
  BY DEF UnloadCancelled, Input, Inv, Types
<1>2. DocsFit
  BY <1>1, SameDocsFit
<1>3. Answers(p, model[p], OnDocUnloading(p, model[p], FALSE), {})
  BY ModelOf, OnDocUnloadingAnswers
<1> QED BY <1>1, <1>2, <1>3, InputKeeps DEF UnloadCancelled

LEMMA UnloadedKeeps == ASSUME Inv, NEW p \in Peer, Unloaded(p) PROVE Inv'
<1>1. doc' = [doc EXCEPT ![p] = None] /\ UNCHANGED stored
  BY DEF Unloaded, Input
<1>2. faults' \in [{"drop", "crash", "leave", "depart"} -> Nat]
  BY SpendKeeps DEF Unloaded, Inv, Types
<1>3. DocsFit
  BY <1>1, DocMoves, VersionFacts
<1>4. Answers(p, model[p], OnDocLeave(p, model[p], "unload"), {})
  BY ModelOf, OnDocLeaveAnswers
<1> QED BY <1>2, <1>3, <1>4, InputKeeps DEF Unloaded

LEMMA SuspendKeeps == ASSUME Inv, NEW p \in Peer, Suspend(p) PROVE Inv'
<1>1. UNCHANGED <<doc, stored>> /\ faults' \in [{"drop", "crash", "leave", "depart"} -> Nat]
  BY SpendKeeps DEF Suspend, Input, Inv
<1>2. DocsFit
  BY <1>1, SameDocsFit
<1>3. Answers(p, model[p], OnDocLeave(p, model[p], "suspend"), {})
  BY ModelOf, OnDocLeaveAnswers
<1> QED BY <1>1, <1>2, <1>3, InputKeeps DEF Suspend

LEMMA ResumeKeeps == ASSUME Inv, NEW p \in Peer, Resume(p) PROVE Inv'
<1>1. UNCHANGED <<doc, stored, faults>> /\ doc[p] \in Version
  BY ModelOf DEF Resume, Input, InMemory, MaybeVersion
<1>2. DocsFit
  BY <1>1, SameDocsFit
<1>3. Answers(p, model[p], OnDocEnsure(p, model[p], doc[p], FALSE), {})
  BY <1>1, ModelOf, OnDocEnsureAnswers
<1>4. faults' \in [{"drop", "crash", "leave", "depart"} -> Nat]
  BY <1>1 DEF Inv, Types
<1> QED BY <1>2, <1>3, <1>4, InputKeeps DEF Resume

\* Nobody's store is compared with that of a peer that destroyed the document.
LEMMA DestroyKeeps == ASSUME Inv, NEW p \in Peer, Destroy(p) PROVE Inv'
<1> DEFINE reply == OnDocLeave(p, model[p], "destroy")
<1>1. /\ doc' = [doc EXCEPT ![p] = None] /\ stored' = [stored EXCEPT ![p] = None]
      /\ UNCHANGED <<end, began>> /\ Run(p, reply, None, None, Silent, wire)
  BY DEF Destroy
<1>2. \A q \in Peer : /\ doc'[q] = IF q = p THEN None ELSE doc[q]
                      /\ stored'[q] = IF q = p THEN None ELSE stored[q]
  BY <1>1 DEF Inv, Types
<1>3. doc' \in [Peer -> MaybeVersion] /\ stored' \in [Peer -> MaybeVersion]
  BY <1>1, VersionFacts DEF Inv, Types
<1>4. StoresGrow(stored, stored')
  BY <1>2, SameStores DEF StoresGrow, Inv
<1>5. Backed' /\ HeldIsSafe'
  BY <1>2 DEF Inv, Backed, HeldIsSafe, InMemory
<1>6. Answers(p, model[p], reply, {})
  BY ModelOf, OnDocLeaveAnswers
<1> HIDE DEF reply
<1>7. \A a, b \in Peer : wire[a][b] \in Seq(Fit(a, b, stored'))
  BY <1>3, <1>4, WiresFitGrow DEF Inv
<1>8. /\ model' \in [Peer -> Model] /\ AskedFirst'
      /\ wire' \in [Peer -> [Peer -> Seq(Message)]]
      /\ \A a, b \in Peer : wire'[a][b] \in Seq(Fit(a, b, stored'))
  <2>1. None \in MaybeVersion /\ None = stored'[p] /\ Types /\ AskedFirst /\ wire \in [Peer -> [Peer -> Seq(Message)]]
    BY <1>2, VersionFacts DEF Inv, Types
  <2>2. \A q \in Peer : Silent[q] \in Seq(Said(p, q))
    BY SilentSaid
  <2>3. ~GateOpen(p, None, None)
    BY DEF GateOpen
  <2> QED BY <1>1, <1>6, <1>7, <2>1, <2>2, <2>3, RunKeeps
<1>9. faults' \in [{"drop", "crash", "leave", "depart"} -> Nat]
  BY SpendKeeps DEF Destroy, Inv
<1> QED BY <1>1, <1>3, <1>5, <1>8, <1>9 DEF Inv, Types, WiresFit

-----------------------------------------------------------------------------
(* One lemma per action: the links.                                        *)

\* A step that leaves the programs, memory and stores alone, and puts nothing new on a wire but `establish`.
LEMMA LinkKeeps ==
  ASSUME Inv, UNCHANGED <<model, doc, stored, began>>,
         end' \in [Peer -> [Peer -> End]], faults' \in [{"drop", "crash", "leave", "depart"} -> Nat],
         wire' \in [Peer -> [Peer -> Seq(Message)]],
         \A a, b \in Peer : wire'[a][b] \in {wire[a][b], <<>>, <<Establish>>}
  PROVE  Inv'
<1>1. WiresFit'
  <2> SUFFICES ASSUME NEW a \in Peer, NEW b \in Peer PROVE wire'[a][b] \in Seq(Fit(a, b, stored))
    BY DEF WiresFit
  <2>1. Establish \in Fit(a, b, stored)
    BY DEF Fit, Message, Establish
  <2>2. <<Establish>> \in Seq(Fit(a, b, stored)) /\ <<>> \in Seq(Fit(a, b, stored))
    BY <2>1, EmptySeq
  <2>3. wire[a][b] \in Seq(Fit(a, b, stored))
    BY DEF Inv, WiresFit
  <2>4. wire'[a][b] \in {wire[a][b], <<>>, <<Establish>>}
    OBVIOUS
  <2> QED BY <2>2, <2>3, <2>4
<1> QED BY <1>1 DEF Inv, Types, AskedFirst, Unasked, Backed, HeldIsSafe, InMemory

LEMMA EstablishSeq == <<Establish>> \in Seq(Message) /\ <<>> \in Seq(Message)
BY EmptySeq DEF Establish, Message

LEMMA ConnectKeeps == ASSUME Inv, NEW p \in Peer, NEW q \in Peer, Connect(p, q) PROVE Inv'
<1>1. /\ end' = [end EXCEPT ![p][q] = "opening", ![q][p] = "opening"]
      /\ wire' = [wire EXCEPT ![p][q] = <<Establish>>, ![q][p] = <<Establish>>]
      /\ UNCHANGED <<model, doc, stored, began, faults>>
  BY DEF Connect
<1>2. end' \in [Peer -> [Peer -> End]] /\ faults' \in [{"drop", "crash", "leave", "depart"} -> Nat]
  BY <1>1 DEF Inv, Types, End
<1>3. wire' \in [Peer -> [Peer -> Seq(Message)]]
  BY <1>1, EstablishSeq DEF Inv, Types
<1>4. \A a, b \in Peer : wire'[a][b] \in {wire[a][b], <<>>, <<Establish>>}
  BY <1>1 DEF Inv, Types
<1> QED BY <1>1, <1>2, <1>3, <1>4, LinkKeeps

LEMMA DropKeeps == ASSUME Inv, NEW p \in Peer, NEW q \in Peer, Drop(p, q) PROVE Inv'
<1>1. /\ end' = [end EXCEPT ![p][q] = Dead(@), ![q][p] = Dead(@)]
      /\ wire' = [wire EXCEPT ![p][q] = <<>>, ![q][p] = <<>>]
      /\ UNCHANGED <<model, doc, stored, began>>
  BY DEF Drop
<1>2. end' \in [Peer -> [Peer -> End]]
  <2>1. \A e \in End : Dead(e) \in End
    BY DEF End, Dead
  <2> QED BY <1>1, <2>1 DEF Inv, Types
<1>3. faults' \in [{"drop", "crash", "leave", "depart"} -> Nat]
  BY SpendKeeps DEF Drop, Inv
<1>4. wire' \in [Peer -> [Peer -> Seq(Message)]]
  BY <1>1, EstablishSeq DEF Inv, Types
<1>5. \A a, b \in Peer : wire'[a][b] \in {wire[a][b], <<>>, <<Establish>>}
  BY <1>1 DEF Inv, Types
<1> QED BY <1>1, <1>2, <1>3, <1>4, <1>5, LinkKeeps

LEMMA NoticedKeeps == ASSUME Inv, NEW p \in Peer, NEW q \in Peer, Noticed(p, q) PROVE Inv'
<1>1. end' = [end EXCEPT ![p][q] = "off"] /\ UNCHANGED <<model, doc, stored, wire, began, faults>>
  BY DEF Noticed
<1>2. end' \in [Peer -> [Peer -> End]] /\ faults' \in [{"drop", "crash", "leave", "depart"} -> Nat]
      /\ wire' \in [Peer -> [Peer -> Seq(Message)]]
  BY <1>1 DEF Inv, Types, End
<1> QED BY <1>1, <1>2, LinkKeeps

LEMMA DepartedKeeps == ASSUME Inv, NEW p \in Peer, NEW q \in Peer, Departed(p, q) PROVE Inv'
<1>1. UNCHANGED <<doc, stored>> /\ faults' \in [{"drop", "crash", "leave", "depart"} -> Nat]
  BY SpendKeeps DEF Departed, Input, Inv
<1>2. DocsFit
  BY <1>1, SameDocsFit
<1>3. Answers(p, model[p], OnPeerDeparted(model[p], q), {})
  BY ModelOf, OnPeerDepartedAnswers
<1> QED BY <1>1, <1>2, <1>3, InputKeeps DEF Departed

LEMMA InitSyncFacts == initSync \in Model /\ \A q \in Peer : Unasked(initSync, q)
BY RecordFacts DEF initSync, Model, SyncModel, Unasked

LEMMA CrashKeeps == ASSUME Inv, NEW p \in Peer, Crash(p) PROVE Inv'
<1>1. /\ model' = [model EXCEPT ![p] = initSync] /\ doc' = [doc EXCEPT ![p] = None]
      /\ end' = [a \in Peer |-> [b \in Peer |->
                    IF a = p THEN "off" ELSE IF b = p THEN Dead(end[a][b]) ELSE end[a][b]]]
      /\ wire' = [a \in Peer |-> [b \in Peer |-> IF p \in {a, b} THEN <<>> ELSE wire[a][b]]]
      /\ UNCHANGED <<stored, began>>
  BY DEF Crash
<1>2. DocsFit
  BY <1>1, DocMoves, VersionFacts
<1>3. model' \in [Peer -> Model] /\ AskedFirst'
  BY <1>1, InitSyncFacts DEF Inv, Types, AskedFirst, Unasked
<1>4. end' \in [Peer -> [Peer -> End]]
  <2>1. \A e \in End : Dead(e) \in End
    BY DEF End, Dead
  <2>2. "off" \in End /\ \A a, b \in Peer : end[a][b] \in End
    BY DEF End, Inv, Types
  <2> QED BY <1>1, <2>1, <2>2
<1>5. wire' \in [Peer -> [Peer -> Seq(Message)]] /\ WiresFit'
  BY <1>1, EmptySeq DEF Inv, Types, WiresFit
<1>6. faults' \in [{"drop", "crash", "leave", "depart"} -> Nat]
  BY SpendKeeps DEF Crash, Inv
<1> QED BY <1>1, <1>2, <1>3, <1>4, <1>5, <1>6 DEF Inv, Types, DocsFit

-----------------------------------------------------------------------------
(* One lemma per action: the messages.                                     *)

\* What may be under way from q, and so what p may read.
LEMMA HeadFits ==
  ASSUME Inv, NEW p \in Peer, NEW q \in Peer, NEW t, Arrives(p, q, t)
  PROVE  /\ Head(wire[q][p]) \in Message /\ Head(wire[q][p]).type = t
         /\ t \notin {"establish", "vacant"} => p \in Shares[q]
         /\ t = "offer" => q \in Shares[p] /\ Safe(Head(wire[q][p]).version, stored)
BY TakenFits DEF Inv, Arrives, Fit

LEMMA ReceiveEstablishKeeps ==
  ASSUME Inv, NEW p \in Peer, NEW q \in Peer, ReceiveEstablish(p, q) PROVE Inv'
<1>1. /\ Arrives(p, q, "establish") /\ end' = [end EXCEPT ![p][q] = "on"]
      /\ began' = [began EXCEPT ![p][q] = IF InMemory(p) THEN doc[p] ELSE Empty]
      /\ UNCHANGED <<doc, stored, faults>>
      /\ Run(p, OnPeerAvailable(p, model[p], q), doc'[p], stored[p], Silent, Taken(p, q))
  BY DEF ReceiveEstablish
<1>2. DocsFit
  BY <1>1, SameDocsFit
<1>3. Answers(p, model[p], OnPeerAvailable(p, model[p], q), {})
  BY ModelOf, OnPeerAvailableAnswers
<1>4. /\ Taken(p, q) \in [Peer -> [Peer -> Seq(Message)]]
      /\ \A a, b \in Peer : Taken(p, q)[a][b] \in Seq(Fit(a, b, stored))
  BY <1>1, TakenFits DEF Inv, Arrives
<1>5. (IF InMemory(p) THEN doc[p] ELSE Empty) \in Version
  BY ModelOf, VersionFacts DEF InMemory
<1>6. /\ end' \in [Peer -> [Peer -> End]] /\ began' \in [Peer -> [Peer -> Version]]
      /\ faults' \in [{"drop", "crash", "leave", "depart"} -> Nat]
  BY <1>1, <1>5 DEF Inv, Types, End
<1>7. \A x \in Peer : Silent[x] \in Seq(Said(p, x))
  BY SilentSaid
<1> QED BY <1>1, <1>2, <1>3, <1>4, <1>6, <1>7, MovesKeep

LEMMA ReceivePresentKeeps ==
  ASSUME Inv, NEW p \in Peer, NEW q \in Peer, ReceivePresent(p, q) PROVE Inv'
<1>1. PICK answer \in Resolve[p] : Receive(p, q, "present", Resolved(p, q, answer))
  BY DEF ReceivePresent
<1>2. Answers(p, model[p], Resolved(p, q, answer), {})
  BY ModelOf, OnPresentAnswers, OnDocDeferAnswers, OnDeclareVacantAnswers DEF Resolved
<1> QED BY <1>1, <1>2, ReceiveKeeps

LEMMA ReceiveInterestKeeps ==
  ASSUME Inv, NEW p \in Peer, NEW q \in Peer, ReceiveInterest(p, q) PROVE Inv'
<1> DEFINE i == Head(wire[q][p])
           reply == OnInterest(p, model[p], q, i)
           synced == [reply EXCEPT !.model = OnPeerSynced(@, q, i.version)]
<1>1. Arrives(p, q, "interest")
  BY DEF ReceiveInterest
<1>2. i \in Interest /\ p \in Shares[q]
  BY <1>1, HeadFits DEF Message, Interest
<1>3. i.version \in Version
  BY <1>2 DEF Interest
<1>4. Answers(p, model[p], reply, {q})
  BY <1>2, ModelOf, OnInterestAnswers
<1>5. Receive(p, q, "interest", reply) \/ Receive(p, q, "interest", synced)
  BY DEF ReceiveInterest
<1> HIDE DEF reply, i
<1>6. Answers(p, model[p], synced, {q})
  BY <1>3, <1>4, ModelOf, SyncedAnswers
<1> HIDE DEF synced
<1>7. \A x \in {q} \cap Peer : p \in Shares[x]
  BY <1>2
<1> QED BY <1>4, <1>5, <1>6, <1>7, ReceiveKeeps

\* What a payload may make of a document is between the two, operation by operation.
LEMMA MergedFacts ==
  ASSUME NEW d \in Version, NEW from \in Version, NEW v \in Version, NEW e \in Merged(d, from, v)
  PROVE  e \in Version /\ Reaches(e, d) /\ \A w \in Peer : e[w] \in {d[w], v[w]}
<1>1. CASE e = Join(d, v)
  BY <1>1 DEF Join, Version, Reaches
<1>2. CASE e # Join(d, v)
  <2>1. PICK W \in SUBSET {w \in Peer : from[w] <= d[w] /\ d[w] < v[w]} : e = [w \in Peer |-> IF w \in W THEN v[w] ELSE d[w]]
    BY <1>2 DEF Merged
  <2>2. \A w \in W : w \in Peer /\ d[w] < v[w]
    BY <2>1
  <2>3. \A w \in Peer : d[w] \in Nat /\ v[w] \in Nat /\ e[w] = IF w \in W THEN v[w] ELSE d[w]
    BY <2>1 DEF Version
  <2>4. ASSUME NEW w \in Peer PROVE d[w] <= e[w] /\ e[w] \in Nat
    <3>1. d[w] \in Nat /\ v[w] \in Nat /\ (w \in W => d[w] < v[w])
      BY <2>2, <2>3
    <3>2. CASE w \in W
      BY <2>3, <3>1, <3>2
    <3>3. CASE w \notin W
      BY <2>3, <3>1, <3>3
    <3> QED BY <3>2, <3>3
  <2> QED BY <2>1, <2>3, <2>4 DEF Version, Reaches
<1> QED BY <1>1, <1>2

LEMMA ReachesTransitive ==
  ASSUME NEW u \in Version, NEW v \in Version, NEW w \in Version, Reaches(u, v), Reaches(v, w)
  PROVE  Reaches(u, w)
<1>1. ASSUME NEW x \in Peer PROVE w[x] <= u[x]
  <2>1. w[x] \in Nat /\ v[x] \in Nat /\ u[x] \in Nat
    BY DEF Version
  <2>2. w[x] <= v[x] /\ v[x] <= u[x]
    BY DEF Reaches
  <2> QED BY <2>1, <2>2
<1> QED BY <1>1 DEF Reaches

\* A merged document holds of each writer what some store or offer held: all stored.
LEMMA MergedFits ==
  ASSUME Inv, NEW p \in Peer, InMemory(p), NEW o, o.version \in Version, o.from \in Version, Safe(o.version, stored),
         NEW d \in Merged(doc[p], o.from, o.version), doc' = [doc EXCEPT ![p] = d], UNCHANGED stored
  PROVE  DocsFit /\ d \in Version /\ doc'[p] = d
<1>1. doc[p] \in Version /\ stored[p] # None /\ stored[p] \in Version /\ Reaches(doc[p], stored[p])
  BY ModelOf DEF Inv, Backed, InMemory, MaybeVersion
<1>2. d \in Version /\ Reaches(d, doc[p]) /\ \A w \in Peer : d[w] \in {doc[p][w], o.version[w]}
  BY <1>1, MergedFacts
<1>3. Reaches(d, stored[p])
  BY <1>1, <1>2, ReachesTransitive
<1>4. \A w \in Peer \ {p} : stored[w] # None => d[w] <= stored[w][w]
  BY <1>1, <1>2, NoneAssumption DEF Inv, HeldIsSafe, Safe
<1>5. DocsFit
  BY <1>1, <1>2, <1>3, <1>4, DocMoves DEF MaybeVersion
<1> QED BY <1>2, <1>5 DEF Inv, Types

LEMMA ReceiveOfferKeeps ==
  ASSUME Inv, NEW p \in Peer, NEW q \in Peer, ReceiveOffer(p, q),
         TakesIn(model[p]) => InMemory(p)
  PROVE  Inv'
<1> DEFINE o == Head(wire[q][p])
           m == model[p]
           vetoed == q \notin Accepts[p]
           accept == To(IF q \in Shares[p] /\ ~vetoed THEN {q} ELSE {}, <<Accept(o.version)>>)
           baseline == m.docs[q].will
           will == IF baseline = None THEN o.version ELSE Join(baseline, o.version)
<1>1. Arrives(p, q, "offer") /\ UNCHANGED <<stored, end, began, faults>>
  BY DEF ReceiveOffer
<1>2. o.version \in Version /\ o.from \in Version /\ Safe(o.version, stored) /\ p \in Shares[q] /\ q \in Shares[p]
  BY <1>1, HeadFits DEF Message
<1>3. m \in Model
  BY ModelOf
<1>4. will \in Version
  BY <1>2, <1>3, ModelFacts, VersionFacts
<1>5. /\ Taken(p, q) \in [Peer -> [Peer -> Seq(Message)]]
      /\ \A a, b \in Peer : Taken(p, q)[a][b] \in Seq(Fit(a, b, stored))
  BY <1>1, TakenFits DEF Inv, Arrives
<1>6. /\ end' \in [Peer -> [Peer -> End]] /\ began' \in [Peer -> [Peer -> Version]]
      /\ faults' \in [{"drop", "crash", "leave", "depart"} -> Nat]
  BY <1>1 DEF Inv, Types
<1>7. \A x \in Peer : accept[x] \in Seq(Said(p, x)) /\ Silent[x] \in Seq(Said(p, x))
  <2>1. \A x \in {q} : <<Accept(o.version)>> \in Seq(Said(p, x))
    BY <1>2, SimpleMessages, OneSaid
  <2> HIDE DEF o
  <2> QED BY <2>1, ToSaid, SilentSaid
<1>8. \/ UNCHANGED doc /\ Run(p, Only(m), doc[p], stored[p], Silent, Taken(p, q))
      \/ UNCHANGED doc /\ Run(p, Only(OnPeerSynced(m, q, o.version)), doc[p], stored[p], accept, Taken(p, q))
      \/ UNCHANGED doc /\ Run(p, OnOfferVetoed(p, m, q), doc[p], stored[p], Silent, Taken(p, q))
      \/ /\ TakesIn(m)
         /\ \E d \in Merged(doc[p], o.from, o.version) :
              /\ doc' = [doc EXCEPT ![p] = d]
              /\ Run(p, OnDocImported(p, m, q, d, d # doc[p], o.version, will), d, stored[p],
                     IF Reaches(d, o.version) THEN accept ELSE Silent, Taken(p, q))
  BY DEF ReceiveOffer
<1> HIDE DEF o, accept, will, vetoed
<1>9. ASSUME UNCHANGED doc, NEW reply, Answers(p, m, reply, {}), NEW first \in {Silent, accept},
             Run(p, reply, doc[p], stored[p], first, Taken(p, q))
      PROVE  Inv'
  <2>1. DocsFit
    BY <1>1, <1>9, SameDocsFit
  <2>2. Run(p, reply, doc'[p], stored[p], first, Taken(p, q)) /\ \A x \in Peer : first[x] \in Seq(Said(p, x))
    BY <1>7, <1>9
  <2> QED BY <1>1, <1>5, <1>6, <1>9, <2>1, <2>2, MovesKeep
<1>10. Answers(p, m, Only(m), {}) /\ Answers(p, m, Only(OnPeerSynced(m, q, o.version)), {})
       /\ Answers(p, m, OnOfferVetoed(p, m, q), {})
  BY <1>2, <1>3, SameRecords, OnlyAnswers, OnPeerSyncedKeeps, OnOfferVetoedAnswers
<1>11. ASSUME TakesIn(m), NEW d \in Merged(doc[p], o.from, o.version), doc' = [doc EXCEPT ![p] = d],
              Run(p, OnDocImported(p, m, q, d, d # doc[p], o.version, will), d, stored[p],
                  IF Reaches(d, o.version) THEN accept ELSE Silent, Taken(p, q))
       PROVE  Inv'
  <2> DEFINE reply == OnDocImported(p, m, q, d, d # doc[p], o.version, will)
             first == IF Reaches(d, o.version) THEN accept ELSE Silent
  <2>1. DocsFit /\ d \in Version /\ doc'[p] = d
    BY <1>1, <1>2, <1>11, MergedFits
  <2>2. Answers(p, m, reply, {q})
    BY <1>2, <1>3, <1>4, <2>1, OnDocImportedAnswers
  <2>3. \A x \in Peer : first[x] \in Seq(Said(p, x))
    BY <1>7
  <2>4. Run(p, reply, doc'[p], stored[p], first, Taken(p, q))
    BY <1>11, <2>1
  <2>5. \A x \in {q} \cap Peer : p \in Shares[x]
    BY <1>2
  <2> HIDE DEF reply, first, m
  <2> QED BY <1>1, <1>5, <1>6, <2>1, <2>2, <2>3, <2>4, <2>5, MovesKeep DEF m
<1> QED BY <1>8, <1>9, <1>10, <1>11

LEMMA ReceiveRecordKeeps ==
  ASSUME Inv, NEW p \in Peer, NEW q \in Peer,
         \/ ReceiveAccept(p, q) \/ ReceiveRefuse(p, q) \/ ReceiveDismiss(p, q) \/ ReceiveVacant(p, q)
  PROVE  Inv'
<1>1. model[p] \in Model
  BY ModelOf
<1>2. CASE ReceiveAccept(p, q)
  <2>1. Arrives(p, q, "accept") /\ Receive(p, q, "accept", OnAccept(model[p], q, Head(wire[q][p]).version))
    BY <1>2 DEF ReceiveAccept, Receive
  <2>2. Head(wire[q][p]).version \in Version
    BY <2>1, HeadFits DEF Message
  <2> QED BY <1>1, <2>1, <2>2, OnAcceptAnswers, ReceiveKeeps
<1>3. CASE ReceiveRefuse(p, q)
  BY <1>1, <1>3, OnRefuseAnswers, ReceiveKeeps DEF ReceiveRefuse
<1>4. CASE ReceiveDismiss(p, q)
  BY <1>1, <1>4, OnDismissAnswers, ReceiveKeeps DEF ReceiveDismiss
<1>5. CASE ReceiveVacant(p, q)
  BY <1>1, <1>5, OnVacantAnswers, ReceiveKeeps DEF ReceiveVacant
<1> QED BY <1>2, <1>3, <1>4, <1>5

-----------------------------------------------------------------------------
(* What a program records against its own document.                        *)

\* The entry, d being what is in memory.
EntryFits(m, d) ==
  /\ m.entry.mode = "held" => d # None /\ m.entry.version = d
  /\ d # None => m.entry.mode \in {"held", "absent"}

\* Offers are owed only to tracked peers, of a document that is held.
Owes(m) ==
  \A x \in Peer : m.docs[x].owed # None =>
    x \in m.tracked /\ m.docs[x].status # "none" /\ m.entry.mode = "held"

QuotesHeld(r, d) == r.cursor # None => d # None /\ Reaches(d, r.cursor)

Knows(m, d) == EntryFits(m, d) /\ Owes(m) /\ \A x \in Peer : QuotesHeld(m.docs[x], d)

\* The version of the receiver's that an interest or an accept says its sender holds.
Claim(msg) == IF msg.type = "accept" THEN msg.version ELSE TheyHold(msg)

\* What a program at n, the document at d, may say: what it claims to hold and the version it states it has.
New(n, d) ==
  {msg \in Message :
     /\ msg.type # "establish"
     /\ msg.type \in {"interest", "accept"} => n.entry.mode = "held" /\ d # None /\ Reaches(d, Claim(msg))
     /\ msg.type \in {"interest", "offer"} => d # None /\ msg.version = d}

\* The record s of x replaces r, with the offer o to x.  It owes what was owed or is offered; takes x to hold only what it
\* was taken to hold or a claim in C says; and turns synced only by a version in V, which the document reaches.
RecordFollows(p, x, r, s, o, d, C, V) ==
  /\ QuotesHeld(s, d)
  /\ x \in Shares[p] /\ ~s.refuses /\ s.owed # None => o # None \/ (r.owed # None /\ ~r.refuses)
  /\ s.held \in {None, r.held} \/ <<x, s.held>> \in C
  /\ s.status = "synced" /\ r.status # "synced" => d # None /\ \E v \in Version : <<x, v>> \in V /\ Reaches(d, v)

Follows(p, m, n, o, d, C, V) ==
  /\ EntryFits(n, d) /\ Owes(n)
  /\ \A x \in Peer : RecordFollows(p, x, m.docs[x], n.docs[x], o[x], d, C, V)

\* The reply of p's program at m leaves a model that follows, refuses nobody's refusal, says what holds, and tells of a
\* document that leaves.
Keeps(p, m, reply, d, C, V) ==
  /\ Follows(p, m, reply.model, reply.offers, d, C, V)
  /\ \A x \in Peer : m.docs[x].refuses => reply.offers[x] = None
  /\ \A x \in Peer : reply.says[x] \in Seq(New(reply.model, d))
  /\ m.entry.mode = "held" /\ reply.model.entry.mode # "held" =>
       \A x \in Sharers(p, m) : reply.says[x] = <<Dismiss>>

-----------------------------------------------------------------------------
(* Forms of replies.                                                       *)

LEMMA FollowsKnows == ASSUME NEW p, NEW m, NEW n, NEW o, NEW d, NEW C, NEW V, Follows(p, m, n, o, d, C, V) PROVE Knows(n, d)
BY DEF Follows, Knows, RecordFollows

LEMMA SilentNew == \A n, d, x : x \in Peer => Silent[x] \in Seq(New(n, d))
BY EmptySeq DEF Silent

LEMMA SimpleNew == ASSUME NEW n, NEW d PROVE {Present, Dismiss, Refuse, Vacant} \subseteq New(n, d)
BY DEF New, Present, Dismiss, Refuse, Vacant, Message

LEMMA InterestNew ==
  ASSUME NEW m \in Model, NEW n, NEW d \in Version, NEW x \in Peer, NEW r \in BOOLEAN,
         n.entry.mode = "held", m.entry.version = d, QuotesHeld(m.docs[x], d)
  PROVE  InterestTo(m, x, r) \in New(n, d)
<1>1. m.docs[x].cursor \in Version \cup {None}
  BY ModelFacts DEF MaybeVersion
<1>2. InterestTo(m, x, r) \in Interest /\ InterestTo(m, x, r).version = d /\ InterestTo(m, x, r).since = m.docs[x].cursor
  BY <1>1 DEF InterestTo, Interest
<1>3. Reaches(d, d) /\ d # None
  BY NoneAssumption DEF Reaches, Version
<1>4. Reaches(d, TheyHold(InterestTo(m, x, r)))
  BY <1>2, <1>3 DEF TheyHold, QuotesHeld
<1> HIDE DEF InterestTo
<1> QED BY <1>2, <1>3, <1>4 DEF New, Claim, Message, Interest

LEMMA OneSeq == ASSUME NEW S, NEW e \in S PROVE <<e>> \in Seq(S)
OBVIOUS

LEMMA ToNew ==
  ASSUME NEW n, NEW d, NEW Q, NEW s, \A x \in Q \cap Peer : s \in Seq(New(n, d))
  PROVE  \A x \in Peer : To(Q, s)[x] \in Seq(New(n, d))
BY EmptySeq DEF To

LEMMA ToldSimple ==
  ASSUME NEW n, NEW d, NEW Q, NEW msg \in {Present, Dismiss, Refuse, Vacant}
  PROVE  \A x \in Peer : To(Q, <<msg>>)[x] \in Seq(New(n, d))
<1>1. msg \in New(n, d)
  BY SimpleNew
<1>2. <<msg>> \in Seq(New(n, d))
  BY <1>1
<1> QED BY <1>2, ToNew

LEMMA AskAllNew ==
  ASSUME NEW p \in Peer, NEW m \in Model, NEW d \in Version, Knows(m, d), m.entry.mode = "held",
         NEW before, before \in {<<>>, <<Present>>}
  PROVE  \A x \in Peer : AskAll(p, m, before)[x] \in Seq(New(m, d))
<1> SUFFICES ASSUME NEW x \in Peer PROVE AskAll(p, m, before)[x] \in Seq(New(m, d))
  OBVIOUS
<1>1. InterestTo(m, x, TRUE) \in New(m, d)
  BY InterestNew DEF Knows, EntryFits
<1>2. <<InterestTo(m, x, TRUE)>> \in Seq(New(m, d))
  BY <1>1, OneSeq
<1>4. before \in Seq(New(m, d))
  BY SimpleNew, OneSeq, EmptySeq
<1>3. before \o <<InterestTo(m, x, TRUE)>> \in Seq(New(m, d))
  BY <1>2, <1>4, ConcatProperties
<1> QED BY <1>3, EmptySeq DEF AskAll

\* A reply without offers.
LEMMA SayingKeeps ==
  ASSUME NEW p, NEW m, NEW n, NEW d, NEW C, NEW V, Follows(p, m, n, NoOffers, d, C, V),
         NEW s, \A x \in Peer : s[x] \in Seq(New(n, d)),
         m.entry.mode = "held" /\ n.entry.mode # "held" => \A x \in Sharers(p, m) : s[x] = <<Dismiss>>
  PROVE  Keeps(p, m, Saying(n, s), d, C, V)
BY DEF Saying, Keeps, NoOffers

LEMMA OnlyKeeps ==
  ASSUME NEW p, NEW m, NEW n, NEW d, NEW C, NEW V, Follows(p, m, n, NoOffers, d, C, V),
         m.entry.mode = "held" => n.entry.mode = "held"
  PROVE  Keeps(p, m, Only(n), d, C, V)
BY SilentNew DEF Only, Keeps, NoOffers

\* A model whose records are the same, the document having only grown.
LEMMA SameFollow ==
  ASSUME NEW p, NEW m, NEW n, NEW o, NEW d, NEW C, NEW V, Knows(m, d), EntryFits(n, d), n.docs = m.docs,
         m.tracked \subseteq n.tracked, m.entry.mode = "held" => n.entry.mode = "held"
  PROVE  Follows(p, m, n, o, d, C, V)
BY DEF Follows, RecordFollows, Knows, Owes

LEMMA SameKeeps ==
  ASSUME NEW p, NEW m, NEW d, NEW C, NEW V, Knows(m, d) PROVE Keeps(p, m, Only(m), d, C, V)
BY SameFollow, OnlyKeeps DEF Knows

\* A document that grows.
LEMMA KnowsGrows ==
  ASSUME NEW m \in Model, NEW c \in Version, NEW d \in Version, Knows(m, c), Reaches(d, c)
  PROVE  /\ \A x \in Peer : QuotesHeld(m.docs[x], d)
         /\ m.entry.mode # "held" => Knows(m, d)
<1>1. \A x \in Peer : QuotesHeld(m.docs[x], d)
  <2> SUFFICES ASSUME NEW x \in Peer, m.docs[x].cursor # None PROVE d # None /\ Reaches(d, m.docs[x].cursor)
    BY DEF QuotesHeld
  <2>1. m.docs[x].cursor \in Version
    BY ModelFacts DEF MaybeVersion
  <2>2. Reaches(c, m.docs[x].cursor)
    BY DEF Knows, QuotesHeld
  <2> QED BY <2>1, <2>2, ReachesTransitive, NoneAssumption
<1>2. m.entry.mode # "held" => Knows(m, d)
  BY <1>1, NoneAssumption DEF Knows, EntryFits
<1> QED BY <1>1, <1>2

\* One record set.
LEMMA SetFollows ==
  ASSUME NEW p, NEW m \in Model, NEW q \in Peer, NEW r \in PeerDoc, NEW o, NEW d, NEW C, NEW V, Knows(m, d),
         r.owed # None => m.entry.mode = "held",
         RecordFollows(p, q, m.docs[q], r, o[q], d, C, V)
  PROVE  Follows(p, m, SetPeerDoc(m, q, r), o, d, C, V)
<1> DEFINE n == SetPeerDoc(m, q, r)
<1>1. /\ n \in Model /\ n.tracked = m.tracked /\ n.entry = m.entry
      /\ \A x \in Peer \ {q} : n.docs[x] = m.docs[x]
      /\ n.docs[q] = m.docs[q] \/ (n.docs[q] = r /\ q \in m.tracked /\ r.status # "none")
  BY DEF Model, SyncModel, SetPeerDoc
<1> HIDE DEF n
<1>2. EntryFits(n, d) /\ Owes(n)
  BY <1>1 DEF Knows, EntryFits, Owes
<1>3. ASSUME NEW x \in Peer PROVE RecordFollows(p, x, m.docs[x], n.docs[x], o[x], d, C, V)
  <2>1. RecordFollows(p, x, m.docs[x], m.docs[x], o[x], d, C, V)
    BY DEF RecordFollows, Knows
  <2> QED BY <1>1, <2>1
<1> QED BY <1>2, <1>3 DEF Follows, n

\* Records forgotten.
LEMMA ForgetFollows ==
  ASSUME NEW p, NEW m, NEW n, NEW o, NEW d, NEW C, NEW V, EntryFits(n, d),
         \A x \in Peer : n.docs[x] = Unknown
  PROVE  Follows(p, m, n, o, d, C, V)
BY DEF Follows, RecordFollows, Owes, QuotesHeld, Unknown

-----------------------------------------------------------------------------
(* One lemma per handler.                                                  *)

LEMMA PushKeeps ==
  ASSUME NEW p \in Peer, NEW m \in Model, NEW d \in Version, NEW C, NEW V, Knows(m, d), m.entry.mode = "held", NEW except
  PROVE  Keeps(p, m, Push(p, m, except), d, C, V)
<1> DEFINE to == {q \in ContentRecipients(p, m) \ except :
                    m.docs[q].status \in {"pending", "synced"} /\ m.docs[q].will # None}
           docs == [q \in Peer |-> IF q \in to /\ m.docs[q].owed = None
                                   THEN [m.docs[q] EXCEPT !.owed = m.docs[q].will] ELSE m.docs[q]]
           n == [m EXCEPT !.docs = docs]
           o == [q \in Peer |-> IF q \in to THEN m.docs[q].will ELSE None]
<1>1. n.docs = docs /\ n.entry = m.entry /\ n.tracked = m.tracked
  BY DEF Model, SyncModel
<1>2. \A x \in to : x \in Shares[p] /\ x \in m.tracked /\ ~m.docs[x].refuses /\ m.docs[x].will # None /\ m.docs[x].status # "none"
  BY DEF ContentRecipients, Sharers
<1>3. ASSUME NEW x \in Peer
      PROVE  /\ RecordFollows(p, x, m.docs[x], docs[x], o[x], d, C, V)
             /\ docs[x].status = m.docs[x].status
             /\ docs[x].owed # None => m.docs[x].owed # None \/ x \in to
  <2>1. m.docs[x] \in PeerDoc /\ QuotesHeld(m.docs[x], d)
    BY ModelFacts DEF Knows
  <2>2. CASE x \in to /\ m.docs[x].owed = None
    <3>1. docs[x] = [m.docs[x] EXCEPT !.owed = m.docs[x].will] /\ o[x] # None
      BY <1>2, <2>2
    <3> QED BY <2>1, <2>2, <3>1 DEF RecordFollows, QuotesHeld, PeerDoc
  <2>3. CASE ~(x \in to /\ m.docs[x].owed = None)
    <3>1. docs[x] = m.docs[x]
      BY <2>3
    <3> QED BY <2>1, <3>1 DEF RecordFollows
  <2> QED BY <2>2, <2>3
<1>4. Owes(n)
  BY <1>1, <1>2, <1>3 DEF Knows, Owes
<1>5. Follows(p, m, n, o, d, C, V)
  BY <1>1, <1>3, <1>4 DEF Knows, Follows, EntryFits
<1>6. \A x \in Peer : m.docs[x].refuses => o[x] = None
  BY <1>2
<1>7. Push(p, m, except) = [model |-> n, offers |-> o, says |-> Silent]
  BY ModelFacts DEF Push, Offering, Model, SyncModel
<1> HIDE DEF n, o
<1> QED BY <1>1, <1>5, <1>6, <1>7, SilentNew DEF Keeps

LEMMA OnPeerAvailableKeeps ==
  ASSUME NEW p \in Peer, NEW m \in Model, NEW q \in Peer, NEW d, NEW C, NEW V, Knows(m, d)
  PROVE  LET reply == OnPeerAvailable(p, m, q) IN
           /\ Keeps(p, m, reply, d, C, V)
           /\ reply.model.tracked = m.tracked \cup {q} /\ reply.model.docs[q].held = None /\ reply.model.docs[q].owed = None
<1> DEFINE forgotten == [Unknown EXCEPT !.status = m.docs[q].status, !.cursor = m.docs[q].cursor]
           n == [m EXCEPT !.tracked = @ \cup {q}, !.docs[q] = forgotten]
           Q == IF m.entry.mode \in {"held", "deferred"} THEN {q} \cap Shares[p] ELSE {}
<1>1. /\ n.entry = m.entry /\ n.tracked = m.tracked \cup {q}
      /\ \A x \in Peer : n.docs[x] = IF x = q THEN forgotten ELSE m.docs[x]
  BY DEF Model, SyncModel
<1>2. /\ forgotten.owed = None /\ forgotten.held = None /\ forgotten.cursor = m.docs[q].cursor
      /\ forgotten.status = m.docs[q].status
  BY DEF Unknown
<1> HIDE DEF n, forgotten
<1>3. \A x \in Peer : RecordFollows(p, x, m.docs[x], n.docs[x], None, d, C, V)
  BY <1>1, <1>2 DEF Knows, RecordFollows, QuotesHeld
<1>4. Owes(n) /\ EntryFits(n, d)
  BY <1>1, <1>2 DEF Knows, Owes, EntryFits
<1>5. Follows(p, m, n, NoOffers, d, C, V)
  BY <1>3, <1>4 DEF Follows, NoOffers
<1>6. \A x \in Peer : To(Q, <<Present>>)[x] \in Seq(New(n, d))
  BY ToldSimple
<1>7. OnPeerAvailable(p, m, q) = Saying(n, To(Q, <<Present>>))
  BY DEF OnPeerAvailable, n, forgotten
<1> HIDE DEF Q
<1>8. Keeps(p, m, Saying(n, To(Q, <<Present>>)), d, C, V)
  BY <1>1, <1>5, <1>6, SayingKeeps
<1>9. Saying(n, To(Q, <<Present>>)).model = n
  BY DEF Saying
<1> QED BY <1>1, <1>2, <1>7, <1>8, <1>9

LEMMA OnPeerDepartedKeeps ==
  ASSUME NEW p, NEW m \in Model, NEW q \in Peer, NEW d, NEW C, NEW V, Knows(m, d)
  PROVE  /\ Keeps(p, m, OnPeerDeparted(m, q), d, C, V)
         /\ OnPeerDeparted(m, q).model.tracked = m.tracked \ {q}
<1> DEFINE n == [m EXCEPT !.tracked = @ \ {q}, !.docs[q] = Unknown]
<1>1. /\ n.entry = m.entry /\ n.tracked = m.tracked \ {q}
      /\ \A x \in Peer : n.docs[x] = IF x = q THEN Unknown ELSE m.docs[x]
  BY DEF Model, SyncModel
<1>2. OnPeerDeparted(m, q) = Only(n) /\ Only(n).model = n
  BY DEF OnPeerDeparted, Only
<1> HIDE DEF n
<1>3. ASSUME NEW x \in Peer PROVE RecordFollows(p, x, m.docs[x], n.docs[x], None, d, C, V)
  <2>1. RecordFollows(p, x, m.docs[x], Unknown, None, d, C, V)
    BY DEF RecordFollows, QuotesHeld, Unknown
  <2>2. RecordFollows(p, x, m.docs[x], m.docs[x], None, d, C, V)
    BY DEF Knows, RecordFollows
  <2> QED BY <1>1, <2>1, <2>2
<1>4. Owes(n) /\ EntryFits(n, d)
  BY <1>1 DEF Knows, Owes, EntryFits, Unknown
<1>5. Follows(p, m, n, NoOffers, d, C, V)
  BY <1>3, <1>4 DEF Follows, NoOffers
<1> QED BY <1>1, <1>2, <1>5, OnlyKeeps

LEMMA OnDocEnsureKeeps ==
  ASSUME NEW p \in Peer, NEW m \in Model, NEW v \in Version, NEW suspended, NEW C, NEW V,
         \/ Knows(m, None)
         \/ Knows(m, v) /\ m.entry.mode # "held"
  PROVE  Keeps(p, m, OnDocEnsure(p, m, v, suspended), v, C, V)
<1>1. m.entry.mode # "held" /\ v # None
  BY NoneAssumption DEF Knows, EntryFits
<1>2. \A x \in Peer : m.docs[x].owed = None /\ QuotesHeld(m.docs[x], v)
  BY <1>1 DEF Knows, Owes, QuotesHeld
<1>3. ASSUME NEW n \in Model, n.docs = m.docs, EntryFits(n, v) PROVE Follows(p, m, n, NoOffers, v, C, V)
  BY <1>2, <1>3 DEF Follows, RecordFollows, Owes
<1>4. CASE suspended
  <2> DEFINE n == [m EXCEPT !.entry = Absent]
  <2>1. n \in Model /\ n.docs = m.docs /\ n.entry.mode = "absent"
    BY EntrySet, RecordFacts
  <2>2. EntryFits(n, v)
    BY <2>1 DEF EntryFits
  <2> HIDE DEF n
  <2> QED BY <1>1, <1>3, <1>4, <2>1, <2>2, OnlyKeeps DEF OnDocEnsure, n
<1>5. CASE ~suspended
  <2> DEFINE n == [m EXCEPT !.entry = Held(v)]
  <2>1. n \in Model /\ n.docs = m.docs /\ n.entry.mode = "held" /\ n.entry.version = v
    BY EntrySet, RecordFacts DEF MaybeVersion
  <2>2. EntryFits(n, v)
    BY <1>1, <2>1 DEF EntryFits
  <2>3. OnDocEnsure(p, m, v, suspended) = Saying(n, AskAll(p, n, <<Present>>))
    BY <1>1, <1>5 DEF OnDocEnsure
  <2> HIDE DEF n
  <2>4. Knows(n, v) /\ Follows(p, m, n, NoOffers, v, C, V)
    BY <1>3, <2>1, <2>2, FollowsKnows
  <2>5. \A x \in Peer : AskAll(p, n, <<Present>>)[x] \in Seq(New(n, v))
    BY <2>1, <2>4, AskAllNew
  <2> QED BY <1>1, <2>3, <2>4, <2>5, SayingKeeps
<1> QED BY <1>4, <1>5

LEMMA OnDocDeferKeeps ==
  ASSUME NEW p \in Peer, NEW m \in Model, NEW C, NEW V, Knows(m, None)
  PROVE  Keeps(p, m, OnDocDefer(p, m), None, C, V)
<1>1. CASE m.entry.mode # "absent"
  BY <1>1, SameKeeps DEF OnDocDefer
<1>2. CASE m.entry.mode = "absent"
  <2> DEFINE n == [m EXCEPT !.entry = [Absent EXCEPT !.mode = "deferred"]]
  <2>1. n.docs = m.docs /\ n.tracked = m.tracked /\ n.entry.mode = "deferred"
    BY DEF Model, SyncModel, Absent
  <2>2. OnDocDefer(p, m) = Saying(n, To(Sharers(p, m), <<Present>>))
    BY <1>2 DEF OnDocDefer
  <2> HIDE DEF n
  <2>3. EntryFits(n, None)
    BY <2>1 DEF EntryFits
  <2>4. \A x \in Peer : To(Sharers(p, m), <<Present>>)[x] \in Seq(New(n, None))
    BY ToldSimple
  <2> QED BY <1>2, <2>1, <2>2, <2>3, <2>4, SameFollow, SayingKeeps
<1> QED BY <1>1, <1>2

LEMMA OnDocAdvancedKeeps ==
  ASSUME NEW p \in Peer, NEW m \in Model, NEW c \in Version, NEW v \in Version, Knows(m, c), Reaches(v, c), NEW C, NEW V
  PROVE  Keeps(p, m, OnDocAdvanced(p, m, v), v, C, V)
<1>1. m.entry.mode \in {"held", "absent"}
  BY NoneAssumption DEF Knows, EntryFits
<1>2. CASE m.entry.mode = "absent"
  BY <1>2, KnowsGrows, SameKeeps DEF OnDocAdvanced
<1>3. CASE m.entry.mode = "held"
  <2> DEFINE n == [m EXCEPT !.entry.version = v]
  <2>1. n \in Model /\ n.docs = m.docs /\ n.tracked = m.tracked /\ n.entry.mode = "held" /\ n.entry.version = v
    BY <1>3 DEF Model, SyncModel, Entry
  <2>2. OnDocAdvanced(p, m, v) = Push(p, n, {})
    BY <1>3 DEF OnDocAdvanced
  <2> HIDE DEF n
  <2>3. Knows(n, v)
    BY <1>3, <2>1, KnowsGrows, NoneAssumption DEF Knows, EntryFits, Owes
  <2>4. Keeps(p, n, Push(p, n, {}), v, C, V)
    BY <2>1, <2>3, PushKeeps
  <2>5. Sharers(p, n) = Sharers(p, m)
    BY <2>1 DEF Sharers
  <2> QED BY <1>3, <2>1, <2>2, <2>4, <2>5 DEF Keeps, Follows
<1> QED BY <1>1, <1>2, <1>3

LEMMA OnDocUnloadingKeeps ==
  ASSUME NEW p \in Peer, NEW m \in Model, NEW leaving \in BOOLEAN, NEW d \in MaybeVersion, NEW C, NEW V, Knows(m, d)
  PROVE  Keeps(p, m, OnDocUnloading(p, m, leaving), d, C, V)
<1> DEFINE n == [m EXCEPT !.entry.leaving = leaving]
<1>1. n \in Model /\ n.docs = m.docs /\ n.tracked = m.tracked /\ n.entry.version = m.entry.version /\ n.entry.mode = m.entry.mode
  BY DEF Model, SyncModel, Entry
<1>2. OnDocUnloading(p, m, leaving) =
        IF m.entry.mode # "held" \/ m.entry.leaving = leaving THEN Only(m)
        ELSE IF leaving THEN Only(n) ELSE Saying(n, AskAll(p, n, <<>>))
  BY DEF OnDocUnloading
<1> HIDE DEF n
<1>3. Knows(n, d) /\ Follows(p, m, n, NoOffers, d, C, V)
  BY <1>1, SameFollow DEF Knows, EntryFits, Owes
<1>4. m.entry.mode = "held" => \A x \in Peer : AskAll(p, n, <<>>)[x] \in Seq(New(n, d))
  BY <1>1, <1>3, AskAllNew DEF Knows, EntryFits, MaybeVersion
<1> QED BY <1>1, <1>2, <1>3, <1>4, SameKeeps, OnlyKeeps, SayingKeeps

\* Suspended, the document stays in memory; unloaded or destroyed, it does not.
LEMMA OnDocLeaveKeeps ==
  ASSUME NEW p \in Peer, NEW m \in Model, NEW d, NEW C, NEW V, NEW as,
         as # "suspend" => d = None
  PROVE  Keeps(p, m, OnDocLeave(p, m, as), d, C, V)
<1> DEFINE unloaded == [Absent EXCEPT !.mode = "unloaded", !.suspended = m.entry.mode = "absent" \/ m.entry.suspended]
           e == IF as = "unload" THEN unloaded ELSE Absent
           n == [ForgetPeerStates(m) EXCEPT !.entry = e, !.reconciled = IF as = "suspend" THEN @ ELSE {}]
           Q == IF m.entry.mode \in {"absent", "unloaded"} THEN {} ELSE Sharers(p, m)
<1>1. e.mode = IF as = "unload" THEN "unloaded" ELSE "absent"
  BY DEF Absent
<1>2. n.entry = e /\ \A x \in Peer : n.docs[x] = Unknown
  BY DEF Model, SyncModel, ForgetPeerStates
<1>3. EntryFits(n, d)
  <2> HIDE DEF n, e
  <2> QED BY <1>1, <1>2 DEF EntryFits
<1>4. OnDocLeave(p, m, as) = Saying(n, To(Q, <<Dismiss>>))
  BY DEF OnDocLeave
<1>5. m.entry.mode = "held" => \A x \in Sharers(p, m) : To(Q, <<Dismiss>>)[x] = <<Dismiss>>
  BY DEF To, Sharers, Model, SyncModel
<1>6. \A x \in Peer : To(Q, <<Dismiss>>)[x] \in Seq(New(n, d))
  BY ToldSimple
<1> HIDE DEF n, Q, e
<1> QED BY <1>2, <1>3, <1>4, <1>5, <1>6, ForgetFollows, SayingKeeps

LEMMA OnDocPublishableKeeps ==
  ASSUME NEW p \in Peer, NEW m \in Model, NEW d, NEW C, NEW V, Knows(m, d)
  PROVE  LET reply == OnDocPublishable(p, m) IN
           /\ Keeps(p, m, reply, d, C, V)
           /\ \A x \in Shares[p] \cap Peer : ~m.docs[x].refuses /\ m.docs[x].owed # None => reply.offers[x] # None
<1>1. CASE m.entry.mode = "absent"
  BY <1>1, SameKeeps DEF OnDocPublishable, Knows, Owes
<1>2. CASE m.entry.mode # "absent"
  <2> DEFINE o == [x \in Peer |-> IF x \in ContentRecipients(p, m) THEN m.docs[x].owed ELSE None]
  <2>1. OnDocPublishable(p, m) = [model |-> m, offers |-> o, says |-> Silent]
    BY <1>2 DEF OnDocPublishable, Offering
  <2>2. Follows(p, m, m, o, d, C, V)
    BY SameFollow DEF Knows
  <2>3. \A x \in Peer : m.docs[x].refuses => o[x] = None
    BY DEF ContentRecipients
  <2>4. \A x \in Shares[p] \cap Peer : ~m.docs[x].refuses /\ m.docs[x].owed # None => o[x] # None
    BY DEF ContentRecipients, Sharers, Knows, Owes
  <2> HIDE DEF o
  <2> QED BY <2>1, <2>2, <2>3, <2>4, SilentNew DEF Keeps
<1> QED BY <1>1, <1>2

\* q holds nothing that is lacked here: it stated v.
LEMMA PeerSyncedTracks ==
  ASSUME NEW m \in Model, NEW q \in Peer, NEW v
  PROVE  OnPeerSynced(m, q, v).tracked = m.tracked
BY DEF OnPeerSynced, SetPeerDoc, Model, SyncModel

LEMMA OnPeerSyncedFollows ==
  ASSUME NEW p, NEW m \in Model, NEW q \in Peer, NEW v \in Version, NEW o, NEW d, NEW C, NEW V,
         Knows(m, d), d # None, Reaches(d, v), <<q, v>> \in V
  PROVE  Follows(p, m, OnPeerSynced(m, q, v), o, d, C, V) /\ OnPeerSynced(m, q, v).entry = m.entry
         /\ OnPeerSynced(m, q, v).tracked = m.tracked
<1> DEFINE r == [m.docs[q] EXCEPT !.status = "synced", !.cursor = v]
<1>1. /\ r \in PeerDoc /\ r.cursor = v /\ r.owed = m.docs[q].owed /\ r.held = m.docs[q].held
      /\ r.refuses = m.docs[q].refuses
  BY ModelFacts DEF PeerDoc
<1> HIDE DEF r
<1>2. RecordFollows(p, q, m.docs[q], r, o[q], d, C, V)
  BY <1>1 DEF RecordFollows, QuotesHeld
<1>3. r.owed # None => m.entry.mode = "held"
  BY <1>1 DEF Knows, Owes
<1>4. Follows(p, m, SetPeerDoc(m, q, r), o, d, C, V)
  BY <1>1, <1>2, <1>3, SetFollows
<1>5. Follows(p, m, m, o, d, C, V)
  BY SameFollow DEF Knows
<1>6. OnPeerSynced(m, q, v) \in {m, SetPeerDoc(m, q, r)}
  BY DEF OnPeerSynced, r
<1>7. SetPeerDoc(m, q, r).entry = m.entry /\ SetPeerDoc(m, q, r).tracked = m.tracked
  BY <1>1, SetPeerDocKeeps
<1> QED BY <1>4, <1>5, <1>6, <1>7

\* One model follows another, and a third follows that with no more owed.
LEMMA FollowsOn ==
  ASSUME NEW p, NEW m, NEW n, NEW l, NEW o, NEW d, NEW C, NEW V, Follows(p, m, n, o, d, C, V), Follows(p, n, l, o, d, C, V)
  PROVE  Follows(p, m, l, o, d, C, V)
<1> SUFFICES ASSUME NEW x \in Peer PROVE RecordFollows(p, x, m.docs[x], l.docs[x], o[x], d, C, V)
  BY DEF Follows
<1>1. RecordFollows(p, x, m.docs[x], n.docs[x], o[x], d, C, V) /\ RecordFollows(p, x, n.docs[x], l.docs[x], o[x], d, C, V)
  BY DEF Follows
<1> QED BY <1>1 DEF RecordFollows

LEMMA SyncedKeeps ==
  ASSUME NEW p, NEW m \in Model, NEW reply \in Reply, NEW q \in Peer, NEW v \in Version, NEW d, NEW C, NEW V,
         d # None, Reaches(d, v), <<q, v>> \in V, Keeps(p, m, reply, d, C, V)
  PROVE  Keeps(p, m, [reply EXCEPT !.model = OnPeerSynced(@, q, v)], d, C, V)
<1> DEFINE n == OnPeerSynced(reply.model, q, v)
<1>1. reply.model \in Model /\ Knows(reply.model, d)
  BY FollowsKnows DEF Reply, Keeps
<1>2. Follows(p, reply.model, n, reply.offers, d, C, V) /\ n.entry = reply.model.entry
  <2> DEFINE mm == reply.model
  <2> HIDE DEF mm
  <2>1. mm \in Model /\ Knows(mm, d)
    BY <1>1 DEF mm
  <2>2. Follows(p, mm, OnPeerSynced(mm, q, v), reply.offers, d, C, V) /\ OnPeerSynced(mm, q, v).entry = mm.entry
    BY <2>1, OnPeerSyncedFollows
  <2> QED BY <2>2 DEF mm
<1>3. [reply EXCEPT !.model = OnPeerSynced(@, q, v)] = [model |-> n, offers |-> reply.offers, says |-> reply.says]
  BY DEF Reply
<1> HIDE DEF n
<1>4. Follows(p, m, n, reply.offers, d, C, V)
  BY <1>2, FollowsOn DEF Keeps
<1>5. New(n, d) = New(reply.model, d)
  BY <1>2 DEF New
<1> QED BY <1>2, <1>3, <1>4, <1>5 DEF Keeps

LEMMA OnlySyncedKeeps ==
  ASSUME NEW p, NEW m \in Model, NEW q \in Peer, NEW v \in Version, NEW d, NEW C, NEW V,
         Knows(m, d), d # None, Reaches(d, v), <<q, v>> \in V
  PROVE  Keeps(p, m, Only(OnPeerSynced(m, q, v)), d, C, V)
BY OnPeerSyncedFollows, OnlyKeeps

LEMMA OnDocImportedKeeps ==
  ASSUME NEW p \in Peer, NEW m \in Model, NEW q \in Peer, NEW c \in Version, NEW v \in Version, Knows(m, c),
         Reaches(v, c), m.entry.mode = "held", NEW offered \in Version, NEW will \in Version, NEW C, NEW V,
         <<q, offered>> \in V, NEW changed
  PROVE  Keeps(p, m, OnDocImported(p, m, q, v, changed, offered, will), v, C, V)
<1> DEFINE bumped == [m EXCEPT !.entry.version = v]
           relay == IF changed THEN Push(p, bumped, {q}) ELSE Only(bumped)
           r == relay.model.docs[q]
           rs == [r EXCEPT !.status = "synced", !.cursor = offered, !.will = will]
           rp == [r EXCEPT !.status = "pending", !.will = will]
           synced == SetPeerDoc(relay.model, q, rs)
           pending == SetPeerDoc(relay.model, q, rp)
           says == To({q}, <<InterestTo(pending, q, FALSE)>>)
<1>1. bumped \in Model /\ bumped.docs = m.docs /\ bumped.tracked = m.tracked
      /\ bumped.entry.mode = "held" /\ bumped.entry.version = v
  BY DEF Model, SyncModel, Entry
<1> HIDE DEF bumped
<1>2. Knows(bumped, v)
  BY <1>1, KnowsGrows, NoneAssumption DEF Knows, EntryFits, Owes
<1>3. /\ Keeps(p, bumped, relay, v, C, V) /\ relay.model \in Model /\ relay.model.entry = bumped.entry
      /\ relay.says = Silent
  <2>1. Keeps(p, bumped, Only(bumped), v, C, V) /\ Only(bumped).model = bumped /\ Only(bumped).says = Silent
    BY <1>2, SameKeeps DEF Only
  <2>2. Answers(p, bumped, Push(p, bumped, {q}), {})
    BY <1>1, PushAnswers
  <2>3. Push(p, bumped, {q}).model \in Model
    BY <2>2 DEF Answers, Reply
  <2> QED BY <1>1, <1>2, <2>1, <2>3, PushAnswers, PushKeeps
<1> HIDE DEF relay
<1> DEFINE n == relay.model
           o == relay.offers
<1>4. Follows(p, m, n, o, v, C, V) /\ Knows(n, v) /\ n \in Model /\ n.entry.mode = "held" /\ n.entry.version = v
  <2>1. Follows(p, bumped, n, o, v, C, V)
    BY <1>3 DEF Keeps
  <2> QED BY <1>1, <1>3, <2>1, FollowsKnows DEF Follows
<1>5. \A x \in Peer : m.docs[x].refuses => o[x] = None
  BY <1>1, <1>3 DEF Keeps
<1> HIDE DEF n, o
<1>6. r = n.docs[q] /\ r \in PeerDoc /\ QuotesHeld(r, v)
  BY <1>4, ModelFacts DEF n, Knows
<1> HIDE DEF r
<1>7. Reaches(v, offered) => Follows(p, n, synced, o, v, C, V)
  <2>1. /\ rs \in PeerDoc /\ rs.cursor = offered /\ rs.owed = r.owed /\ rs.held = r.held /\ rs.refuses = r.refuses
    BY <1>6 DEF PeerDoc
  <2> HIDE DEF rs
  <2>2. Reaches(v, offered) => RecordFollows(p, q, n.docs[q], rs, o[q], v, C, V)
    BY <1>6, <2>1, NoneAssumption DEF RecordFollows, QuotesHeld
  <2> QED BY <1>4, <2>1, <2>2, SetFollows DEF n
<1>8. Follows(p, n, pending, o, v, C, V) /\ pending \in Model /\ pending.entry = n.entry
  <2>1. /\ rp \in PeerDoc /\ rp.cursor = r.cursor /\ rp.owed = r.owed /\ rp.held = r.held /\ rp.refuses = r.refuses
        /\ rp.status = "pending"
    BY <1>6 DEF PeerDoc
  <2> HIDE DEF rp
  <2>2. RecordFollows(p, q, n.docs[q], rp, o[q], v, C, V)
    BY <1>6, <2>1 DEF RecordFollows, QuotesHeld
  <2> QED BY <1>4, <2>1, <2>2, SetFollows, SetPeerDocKeeps DEF n
<1>9. synced.entry = n.entry
  <2>1. rs \in PeerDoc
    BY <1>6 DEF PeerDoc
  <2> QED BY <1>4, <2>1, SetPeerDocKeeps DEF n
<1> HIDE DEF synced, pending
<1>10. \A x \in Peer : says[x] \in Seq(New(pending, v))
  <2>1. Knows(pending, v)
    BY <1>8, FollowsKnows
  <2>2. InterestTo(pending, q, FALSE) \in New(pending, v)
    BY <1>4, <1>8, <2>1, InterestNew DEF Knows
  <2> QED BY <2>2, OneSeq, ToNew
<1> HIDE DEF says
<1>11. OnDocImported(p, m, q, v, changed, offered, will) =
        IF Reaches(v, offered) THEN [model |-> synced, offers |-> o, says |-> Silent]
        ELSE [model |-> pending, offers |-> o, says |-> says]
  BY DEF OnDocImported, Offering, synced, pending, says, o, relay, bumped, r
<1>12. Reaches(v, offered) => Keeps(p, m, [model |-> synced, offers |-> o, says |-> Silent], v, C, V)
  BY <1>4, <1>5, <1>7, <1>9, FollowsOn, SilentNew DEF Keeps
<1>13. Keeps(p, m, [model |-> pending, offers |-> o, says |-> says], v, C, V)
  BY <1>4, <1>5, <1>8, <1>10, FollowsOn DEF Keeps
<1> QED BY <1>11, <1>12, <1>13

LEMMA ReloadSame ==
  ASSUME NEW p, NEW m \in Model
  PROVE  LET n == ReloadOnDemand(p, m) IN
           n.docs = m.docs /\ n.tracked = m.tracked /\ n.entry.mode = m.entry.mode /\ n.entry.version = m.entry.version
BY DEF ReloadOnDemand, Model, SyncModel, Entry

LEMMA ReloadKnows ==
  ASSUME NEW p, NEW m \in Model, NEW d, NEW C, NEW V, Knows(m, d)
  PROVE  Keeps(p, m, Only(ReloadOnDemand(p, m)), d, C, V)
<1> DEFINE n == ReloadOnDemand(p, m)
<1>1. n.docs = m.docs /\ n.tracked = m.tracked /\ n.entry.mode = m.entry.mode /\ n.entry.version = m.entry.version
  BY ReloadSame
<1> HIDE DEF n
<1>2. EntryFits(n, d)
  BY <1>1 DEF Knows, EntryFits
<1> QED BY <1>1, <1>2, SameFollow, OnlyKeeps DEF n

LEMMA OnPresentKeeps ==
  ASSUME NEW p \in Peer, NEW m \in Model, NEW q \in Peer, NEW d \in MaybeVersion, NEW C, NEW V, Knows(m, d)
  PROVE  Keeps(p, m, OnPresent(p, m, q), d, C, V)
<1>1. Keeps(p, m, Only(m), d, C, V) /\ Keeps(p, m, Only(ReloadOnDemand(p, m)), d, C, V)
  BY SameKeeps, ReloadKnows
<1>2. m.entry.mode = "held" => Keeps(p, m, Saying(m, To({q}, <<InterestTo(m, q, TRUE)>>)), d, C, V)
  <2> SUFFICES ASSUME m.entry.mode = "held" PROVE Keeps(p, m, Saying(m, To({q}, <<InterestTo(m, q, TRUE)>>)), d, C, V)
    OBVIOUS
  <2>1. d \in Version /\ m.entry.version = d
    BY DEF Knows, EntryFits, MaybeVersion
  <2>2. InterestTo(m, q, TRUE) \in New(m, d)
    BY <2>1, InterestNew DEF Knows
  <2>3. \A x \in Peer : To({q}, <<InterestTo(m, q, TRUE)>>)[x] \in Seq(New(m, d))
    BY <2>2, OneSeq, ToNew
  <2> QED BY <2>3, SameFollow, SayingKeeps DEF Knows
<1>3. m.entry.mode \in {"absent", "deferred", "unloaded", "held"}
  BY ModelFacts DEF Entry
<1> QED BY <1>1, <1>2, <1>3 DEF OnPresent

LEMMA OnInterestKeeps ==
  ASSUME NEW p \in Peer, NEW m \in Model, NEW q \in Peer, NEW i \in Interest, NEW d \in MaybeVersion, NEW C, NEW V,
         Knows(m, d), <<q, TheyHold(i)>> \in C
  PROVE  Keeps(p, m, OnInterest(p, m, q, i), d, C, V)
<1> DEFINE answered == q \in ContentRecipients(p, m)
           r == [m.docs[q] EXCEPT !.status = "pending", !.held = TheyHold(i),
                     !.will = None, !.owed = IF answered THEN TheyHold(i) ELSE @]
           n == SetPeerDoc(m, q, r)
           o == [NoOffers EXCEPT ![q] = IF answered THEN TheyHold(i) ELSE None]
           Q == IF i.reciprocate /\ ~m.entry.leaving THEN {q} ELSE {}
           full == [model |-> n, offers |-> o, says |-> To(Q, <<InterestTo(m, q, FALSE)>>)]
<1>1. TheyHold(i) \in Version /\ TheyHold(i) # None
  BY NoneAssumption DEF TheyHold, Interest
<1>2. /\ r \in PeerDoc /\ r.status = "pending" /\ r.held = TheyHold(i) /\ r.cursor = m.docs[q].cursor
      /\ r.refuses = m.docs[q].refuses /\ r.owed = IF answered THEN TheyHold(i) ELSE m.docs[q].owed
  <2>1. (IF answered THEN TheyHold(i) ELSE m.docs[q].owed) \in Version \cup {None}
    BY <1>1, ModelFacts DEF MaybeVersion
  <2>2. m.docs[q] \in PeerDoc
    BY ModelFacts
  <2> HIDE DEF answered
  <2> QED BY <1>1, <2>1, <2>2 DEF PeerDoc
<1> HIDE DEF r
<1>3. o[q] = (IF answered THEN TheyHold(i) ELSE None) /\ \A x \in Peer \ {q} : o[x] = None
  BY DEF NoOffers
<1>4. q \in Shares[p] /\ q \in m.tracked /\ m.entry.mode = "held" => Keeps(p, m, full, d, C, V)
  <2> SUFFICES ASSUME q \in Shares[p], q \in m.tracked, m.entry.mode = "held" PROVE Keeps(p, m, full, d, C, V)
    OBVIOUS
  <2>1. answered <=> ~m.docs[q].refuses
    BY DEF ContentRecipients, Sharers
  <2> HIDE DEF answered, o
  <2>2. RecordFollows(p, q, m.docs[q], r, o[q], d, C, V)
    BY <1>1, <1>2, <1>3, <2>1 DEF RecordFollows, QuotesHeld, Knows
  <2>3. Follows(p, m, n, o, d, C, V)
    BY <1>2, <2>2, SetFollows
  <2>4. \A x \in Peer : m.docs[x].refuses => o[x] = None
    BY <1>3, <2>1
  <2>5. n.entry = m.entry
    BY <1>2, SetPeerDocKeeps
  <2>6. d \in Version /\ m.entry.version = d
    BY DEF Knows, EntryFits, MaybeVersion
  <2> HIDE DEF n
  <2>7. InterestTo(m, q, FALSE) \in New(n, d)
    BY <2>5, <2>6, InterestNew DEF Knows
  <2>8. \A x \in Peer : To(Q, <<InterestTo(m, q, FALSE)>>)[x] \in Seq(New(n, d))
    BY <2>7, OneSeq, ToNew
  <2> QED BY <2>3, <2>4, <2>5, <2>8 DEF Keeps
<1>5. OnInterest(p, m, q, i) =
        IF q \notin m.tracked THEN Only(m)
        ELSE IF q \notin Shares[p] THEN Saying(m, To({q}, <<Vacant>>))
        ELSE IF m.entry.mode \in {"absent", "deferred"} THEN Only(m)
        ELSE IF m.entry.mode = "unloaded" THEN Only(ReloadOnDemand(p, m))
        ELSE full
  BY DEF OnInterest, r
<1> HIDE DEF full
<1>6. Keeps(p, m, Only(m), d, C, V) /\ Keeps(p, m, Only(ReloadOnDemand(p, m)), d, C, V)
      /\ Keeps(p, m, Saying(m, To({q}, <<Vacant>>)), d, C, V)
  BY SameKeeps, ReloadKnows, SameFollow, ToldSimple, SayingKeeps DEF Knows
<1>7. m.entry.mode \in {"absent", "deferred", "unloaded", "held"}
  BY ModelFacts DEF Entry
<1> QED BY <1>4, <1>5, <1>6, <1>7

LEMMA OnOfferVetoedKeeps ==
  ASSUME NEW p \in Peer, NEW m \in Model, NEW q \in Peer, NEW d, NEW C, NEW V, Knows(m, d)
  PROVE  Keeps(p, m, OnOfferVetoed(p, m, q), d, C, V)
<1>1. Keeps(p, m, Saying(m, To({q} \cap Shares[p], <<Refuse>>)), d, C, V)
  BY SameFollow, ToldSimple, SayingKeeps DEF Knows
<1> QED BY <1>1, SameKeeps DEF OnOfferVetoed

LEMMA RecordKeeps ==
  ASSUME NEW p, NEW m \in Model, NEW q \in Peer, NEW r \in PeerDoc, NEW d, NEW C, NEW V, Knows(m, d),
         r.owed = m.docs[q].owed, r.cursor = m.docs[q].cursor, r.refuses \in {m.docs[q].refuses, TRUE},
         r.held = m.docs[q].held \/ <<q, r.held>> \in C, r.status \in {m.docs[q].status, "vacant"}
  PROVE  Keeps(p, m, Only(SetPeerDoc(m, q, r)), d, C, V)
<1>1. RecordFollows(p, q, m.docs[q], r, None, d, C, V)
  BY ModelFacts DEF RecordFollows, Knows, QuotesHeld, PeerDoc
<1>2. r.owed # None => m.entry.mode = "held"
  BY DEF Knows, Owes
<1>3. Follows(p, m, SetPeerDoc(m, q, r), NoOffers, d, C, V)
  BY <1>1, <1>2, SetFollows DEF NoOffers
<1>4. SetPeerDoc(m, q, r).entry = m.entry
  BY SetPeerDocKeeps
<1> QED BY <1>3, <1>4, OnlyKeeps

LEMMA OnAcceptKeeps ==
  ASSUME NEW p, NEW m \in Model, NEW q \in Peer, NEW v \in Version, NEW d, NEW C, NEW V, Knows(m, d), <<q, v>> \in C
  PROVE  Keeps(p, m, OnAccept(m, q, v), d, C, V)
<1> DEFINE r == [m.docs[q] EXCEPT !.held = v]
<1>1. /\ r \in PeerDoc /\ r.owed = m.docs[q].owed /\ r.cursor = m.docs[q].cursor /\ r.refuses = m.docs[q].refuses
      /\ r.held = v /\ r.status = m.docs[q].status
  BY ModelFacts DEF PeerDoc
<1> HIDE DEF r
<1> QED BY <1>1, RecordKeeps DEF OnAccept, r

LEMMA OnRefuseKeeps ==
  ASSUME NEW p, NEW m \in Model, NEW q \in Peer, NEW d, NEW C, NEW V, Knows(m, d)
  PROVE  Keeps(p, m, OnRefuse(m, q), d, C, V)
<1> DEFINE r == [m.docs[q] EXCEPT !.refuses = TRUE]
<1>1. /\ r \in PeerDoc /\ r.owed = m.docs[q].owed /\ r.cursor = m.docs[q].cursor /\ r.refuses = TRUE
      /\ r.held = m.docs[q].held /\ r.status = m.docs[q].status
  BY ModelFacts DEF PeerDoc
<1> HIDE DEF r
<1> QED BY <1>1, RecordKeeps DEF OnRefuse, r

\* What is recorded of a peer that dismisses the document is forgotten, if the peer is tracked.
LEMMA OnDismissKeeps ==
  ASSUME NEW p, NEW m \in Model, NEW q \in Peer, NEW d, NEW C, NEW V, Knows(m, d)
  PROVE  /\ Keeps(p, m, OnDismiss(m, q), d, C, V)
         /\ q \in m.tracked => OnDismiss(m, q).model.docs[q].held = None
<1> DEFINE n == IF q \in m.tracked THEN [m EXCEPT !.docs[q] = Unknown] ELSE m
<1>1. /\ n.entry = m.entry /\ n.tracked = m.tracked
      /\ \A x \in Peer : n.docs[x] = IF x = q /\ q \in m.tracked THEN Unknown ELSE m.docs[x]
  BY DEF Model, SyncModel
<1>2. OnDismiss(m, q) = Only(n) /\ Only(n).model = n
  BY DEF OnDismiss, Only
<1> HIDE DEF n
<1>3. ASSUME NEW x \in Peer PROVE RecordFollows(p, x, m.docs[x], n.docs[x], None, d, C, V)
  <2>1. RecordFollows(p, x, m.docs[x], Unknown, None, d, C, V)
    BY DEF RecordFollows, QuotesHeld, Unknown
  <2>2. RecordFollows(p, x, m.docs[x], m.docs[x], None, d, C, V)
    BY DEF Knows, RecordFollows
  <2> QED BY <1>1, <2>1, <2>2
<1>4. Owes(n) /\ EntryFits(n, d)
  BY <1>1 DEF Knows, Owes, EntryFits, Unknown
<1>5. Follows(p, m, n, NoOffers, d, C, V)
  BY <1>3, <1>4 DEF Follows, NoOffers
<1>6. Unknown.held = None
  BY DEF Unknown
<1> QED BY <1>1, <1>2, <1>5, <1>6, OnlyKeeps

LEMMA OnVacantKeeps ==
  ASSUME NEW p, NEW m \in Model, NEW q \in Peer, NEW d, NEW C, NEW V, Knows(m, d)
  PROVE  Keeps(p, m, OnVacant(m, q), d, C, V)
<1> DEFINE r == [m.docs[q] EXCEPT !.status = "vacant"]
<1>1. /\ r \in PeerDoc /\ r.owed = m.docs[q].owed /\ r.cursor = m.docs[q].cursor /\ r.refuses = m.docs[q].refuses
      /\ r.held = m.docs[q].held /\ r.status = "vacant"
  BY ModelFacts DEF PeerDoc
<1>2. OnVacant(m, q) = IF m.entry.mode \in {"absent", "unloaded"} THEN Only(m) ELSE Only(SetPeerDoc(m, q, r))
  BY DEF OnVacant
<1> HIDE DEF r
<1> QED BY <1>1, <1>2, RecordKeeps, SameKeeps

LEMMA OnDeclareVacantKeeps ==
  ASSUME NEW p, NEW m \in Model, NEW q \in Peer, NEW d, NEW C, NEW V, Knows(m, d)
  PROVE  Keeps(p, m, OnDeclareVacant(m, q), d, C, V)
BY SameFollow, ToldSimple, SayingKeeps DEF OnDeclareVacant, Knows

-----------------------------------------------------------------------------
(* What is recorded against what peers hold and what is under way.         *)

Holds(a, v) == model[a].entry.mode = "held" /\ Reaches(doc[a], v)

\* After position i of the wire from a to b there is a dismiss.
Dismissing(a, b, i) == \E j \in DOMAIN wire[a][b] : j > i /\ wire[a][b][j].type = "dismiss"

\* What is under way from a to b: `establish` comes first, and is yet to open b's end; all else a said over an open end.
\* What a claims to hold it holds, unless it dismissed the document since; and no version it states is older than what it
\* had when the link came up.
WireTrue(a, b) ==
  \A i \in DOMAIN wire[a][b] : LET msg == wire[a][b][i] IN
    /\ msg.type = "establish" => i = 1 /\ end[b][a] = "opening"
    /\ msg.type # "establish" => end[a][b] = "on"
    /\ msg.type \in {"interest", "accept"} => Holds(a, Claim(msg)) \/ Dismissing(a, b, i)
    /\ msg.type \in {"interest", "offer"} => Reaches(msg.version, began[a][b])

\* An open end is of a tracked peer, and what was had when it opened is had still.
LinkTrue(a, b) ==
  end[a][b] = "on" =>
    /\ b \in model[a].tracked
    /\ InMemory(a) => Reaches(doc[a], began[a][b])
    /\ ~InMemory(a) /\ stored[a] # None => Reaches(stored[a], began[a][b])

\* What a takes b to hold, over a link that lives, b holds, unless its dismiss is under way.
HeldTrue(a, b) ==
  At(a, b).held # None /\ end[a][b] = "on" /\ end[b][a] \in {"on", "opening"} =>
    end[b][a] = "on" /\ a \in Shares[b] /\ (Dismissing(b, a, 0) \/ Holds(b, At(a, b).held))

RecordsInv ==
  /\ \A a \in Peer : Knows(model[a], doc[a]) /\ end[a][a] = "off"
  /\ \A a, b \in Peer : WireTrue(a, b) /\ LinkTrue(a, b) /\ HeldTrue(a, b)

SyncInv == Inv /\ RecordsInv

-----------------------------------------------------------------------------
(* The steps of a program.                                                 *)

\* What p had, in memory or stored, it has still.
Remains(p) ==
  LET before == IF InMemory(p) THEN doc[p] ELSE stored[p]
      after == IF doc'[p] # None THEN doc'[p] ELSE stored'[p]
  IN after # None => before # None /\ Reaches(after, before)

\* p takes the next message from q; `establish` opens its end.
TakesHead(p, q, reply, w, C, V) ==
  /\ p # q /\ wire[q][p] # <<>> /\ w = Taken(p, q)
  /\ LET msg == Head(wire[q][p]) IN
       /\ msg.type = "establish" =>
            /\ end' = [end EXCEPT ![p][q] = "on"]
            /\ began' = [began EXCEPT ![p][q] = IF InMemory(p) THEN doc[p] ELSE Empty]
            /\ UNCHANGED <<doc, stored>> /\ C = {} /\ V = {}
            /\ q \in reply.model.tracked /\ reply.model.docs[q].held = None /\ reply.model.docs[q].owed = None
       /\ msg.type # "establish" => UNCHANGED <<end, began>>
       /\ msg.type \notin {"interest", "accept"} => C = {}
       /\ msg.type \in {"interest", "accept"} => C = {<<q, Claim(msg)>>}
       /\ msg.type \notin {"interest", "offer"} => V = {}
       /\ msg.type \in {"interest", "offer"} => V = {<<q, msg.version>>}
       /\ msg.type = "dismiss" /\ q \in model[p].tracked => reply.model.docs[q].held = None

TakesNone(w, C, V) == w = wire /\ UNCHANGED <<end, began>> /\ C = {} /\ V = {}

Step(p, q, reply, first, w, C, V) ==
  /\ Answers(p, model[p], reply, Peer) /\ Keeps(p, model[p], reply, doc'[p], C, V)
  /\ \A x \in Peer : first[x] \in Seq(Said(p, x)) /\ first[x] \in Seq(New(reply.model, doc'[p]))
  /\ Run(p, reply, doc'[p], stored'[p], first, w)
  /\ \A x \in Peer \ {p} : doc'[x] = doc[x] /\ stored'[x] = stored[x]
  /\ doc'[p] \in MaybeVersion /\ stored'[p] \in MaybeVersion /\ Remains(p)
  /\ \A x \in model[p].tracked : end'[p][x] = "on" => x \in reply.model.tracked
  /\ TakesNone(w, C, V) \/ TakesHead(p, q, reply, w, C, V)
  /\ GateOpen(p, doc'[p], stored'[p]) =>
       \/ GateOpen(p, doc[p], stored[p])
       \/ \A x \in Shares[p] \cap Peer : ~At(p, x).refuses /\ At(p, x).owed # None => reply.offers[x] # None

\* What the shell sends changes, in what is recorded, what will be held and what is owed.
LEMMA OnOffersSentSame ==
  ASSUME NEW m \in Model, NEW sent, NEW v, Owes(m), NEW n, n = OnOffersSent(m, sent, v)
  PROVE  /\ n.entry = m.entry /\ n.tracked = m.tracked
         /\ \A x \in Peer : /\ n.docs[x].status = m.docs[x].status /\ n.docs[x].held = m.docs[x].held
                            /\ n.docs[x].cursor = m.docs[x].cursor /\ n.docs[x].refuses = m.docs[x].refuses
                            /\ n.docs[x].owed \in {m.docs[x].owed, None}
                            /\ x \in sent => n.docs[x].owed = None
<1> DEFINE docs == [q \in Peer |-> IF q \in sent \cap m.tracked /\ m.docs[q].status # "none"
                                   THEN [m.docs[q] EXCEPT !.will = v, !.owed = None] ELSE m.docs[q]]
<1>1. n = [m EXCEPT !.docs = docs]
  BY ModelFacts DEF OnOffersSent, Model, SyncModel
<1>2. n.entry = m.entry /\ n.tracked = m.tracked /\ n.docs = docs
  BY <1>1 DEF Model, SyncModel
<1>3. ASSUME NEW x \in Peer
      PROVE  /\ docs[x].status = m.docs[x].status /\ docs[x].held = m.docs[x].held
             /\ docs[x].cursor = m.docs[x].cursor /\ docs[x].refuses = m.docs[x].refuses
             /\ docs[x].owed \in {m.docs[x].owed, None}
             /\ x \in sent => docs[x].owed = None
  <2>1. m.docs[x] \in PeerDoc /\ (m.docs[x].owed # None => x \in m.tracked /\ m.docs[x].status # "none")
    BY ModelFacts DEF Owes
  <2>2. docs[x] = IF x \in sent \cap m.tracked /\ m.docs[x].status # "none"
                  THEN [m.docs[x] EXCEPT !.will = v, !.owed = None] ELSE m.docs[x]
    OBVIOUS
  <2> HIDE DEF docs
  <2> QED BY <2>1, <2>2 DEF PeerDoc
<1> HIDE DEF docs
<1> QED BY <1>2, <1>3

LEMMA LastOf ==
  ASSUME NEW S, NEW s \in Seq(S), NEW e \in S
  PROVE  s \o <<e>> # <<>> /\ (s \o <<e>>)[Len(s \o <<e>>)] = e
<1>1. <<e>> \in Seq(S) /\ Len(<<e>>) = 1 /\ <<e>>[1] = e
  OBVIOUS
<1>2. Len(s \o <<e>>) = Len(s) + 1 /\ Len(s) \in Nat /\ (s \o <<e>>)[Len(s) + 1] = e
  BY <1>1, ConcatProperties
<1> QED BY <1>2

LEMMA SeqElement == ASSUME NEW S, NEW s \in Seq(S), NEW i \in DOMAIN s PROVE s[i] \in S
OBVIOUS

\* Concatenation, named: the provers rewrite nested ones beyond recognition.
Joined(s, t) == s \o t

LEMMA JoinedThree ==
  ASSUME NEW S, NEW s \in Seq(S), NEW t \in Seq(S), NEW u \in Seq(S)
  PROVE  Joined(Joined(s, t), u) = Joined(s, Joined(t, u)) /\ Joined(s, t) \in Seq(S)
BY ConcatAssociative, ConcatProperties DEF Joined

LEMMA JoinedAssociative ==
  ASSUME NEW S, NEW s \in Seq(S), NEW t \in Seq(S), NEW u \in Seq(S), NEW v \in Seq(S)
  PROVE  Joined(Joined(Joined(s, t), u), v) = Joined(s, Joined(Joined(t, u), v))
BY JoinedThree

\* What running a reply leaves of p's program and wires: nothing said is lost, and what the shell sends is owed no more.
Ran(p, reply, w) ==
  /\ LET n == model'[p] m == reply.model IN
       /\ n.entry = m.entry /\ n.tracked = m.tracked
       /\ \A x \in Peer : /\ n.docs[x].status = m.docs[x].status /\ n.docs[x].held = m.docs[x].held
                          /\ n.docs[x].cursor = m.docs[x].cursor /\ n.docs[x].refuses = m.docs[x].refuses
                          /\ n.docs[x].owed \in {m.docs[x].owed, None}
                          /\ x \in OffersSent(p, reply.offers, doc'[p], stored'[p]) => n.docs[x].owed = None
  /\ \A b \in Peer : \E s \in Seq(New(reply.model, doc'[p])) :
       /\ wire'[p][b] = w[p][b] \o s
       /\ end'[p][b] # "on" => s = <<>>
       /\ end'[p][b] = "on" /\ reply.says[b] = <<Dismiss>> => s # <<>> /\ s[Len(s)] = Dismiss
       /\ reply.offers[b] = None => \A i \in DOMAIN s : s[i].type # "offer"

LEMMA RunShape ==
  ASSUME Types, NEW p \in Peer, NEW q, NEW reply, NEW first, NEW w, NEW C, NEW V,
         w \in [Peer -> [Peer -> Seq(Message)]], Step(p, q, reply, first, w, C, V)
  PROVE  Ran(p, reply, w)
<1> DEFINE d == doc'[p]
           sent == OffersSent(p, reply.offers, d, stored'[p])
           offer(b) == IF b \in sent THEN <<Offer(reply.offers[b], d)>> ELSE <<>>
           more(b) == IF end'[p][b] = "on" THEN first[b] \o offer(b) \o reply.says[b] ELSE <<>>
           S == New(reply.model, d)
<1>1. /\ model' = [model EXCEPT ![p] = OnOffersSent(reply.model, sent, d)]
      /\ wire' = [w EXCEPT ![p] = [b \in Peer |-> IF end'[p][b] = "on"
                                                  THEN w[p][b] \o first[b] \o offer(b) \o reply.says[b] ELSE w[p][b]]]
  BY DEF Step, Run
<1>2. /\ reply.model \in Model /\ \A b \in Peer : reply.offers[b] \in MaybeVersion
      /\ \A b \in Peer : reply.says[b] \in Seq(Said(p, b)) /\ reply.says[b] \in Seq(S)
      /\ \A b \in Peer : first[b] \in Seq(Said(p, b)) /\ first[b] \in Seq(S)
  BY DEF Step, Answers, Reply, Keeps
<1>3. \A b \in sent : d \in Version /\ reply.offers[b] \in Version
  BY <1>2 DEF OffersSent, GateOpen, MaybeVersion, Step
<1>4. model'[p] = OnOffersSent(reply.model, sent, d)
  BY <1>1 DEF Types
<1>5. Owes(reply.model)
  BY DEF Step, Keeps, Follows
<1> HIDE DEF sent, S
<1>6. ASSUME NEW b \in Peer
      PROVE  /\ more(b) \in Seq(S)
             /\ wire'[p][b] = w[p][b] \o more(b)
             /\ end'[p][b] # "on" => more(b) = <<>>
             /\ end'[p][b] = "on" /\ reply.says[b] = <<Dismiss>> => more(b) # <<>> /\ more(b)[Len(more(b))] = Dismiss
             /\ reply.offers[b] = None => \A i \in DOMAIN more(b) : more(b)[i].type # "offer"
  <2>1. offer(b) \in Seq(S)
    <3>1. CASE b \in sent
      <4>1. Offer(reply.offers[b], d) \in S
        BY <1>3, <3>1, NoneAssumption DEF New, S, Offer, Message
      <4> QED BY <3>1, <4>1
    <3>2. CASE b \notin sent
      BY <3>2, EmptySeq
    <3> QED BY <3>1, <3>2
  <2>2. b \in sent => reply.offers[b] # None
    BY DEF sent, OffersSent
  <2>3. w[p][b] \in Seq(Message) /\ S \subseteq Message
    BY DEF S, New
  <2>4. reply.offers[b] = None => offer(b) = <<>>
    BY <2>2
  <2> HIDE DEF offer
  <2>5. first[b] \o offer(b) \in Seq(S) /\ first[b] \o offer(b) \o reply.says[b] \in Seq(S)
    BY <1>2, <2>1, ConcatProperties
  <2>6. wire'[p][b] = w[p][b] \o more(b)
    <3>1. first[b] \in Seq(Message) /\ offer(b) \in Seq(Message) /\ reply.says[b] \in Seq(Message)
      BY <1>2, <2>1, <2>3, SeqMonotonic
    <3>2. CASE end'[p][b] = "on"
      <4>1. wire'[p][b] = ((w[p][b] \o first[b]) \o offer(b)) \o reply.says[b]
        BY <1>1, <3>2
      <4>2. Joined(Joined(Joined(w[p][b], first[b]), offer(b)), reply.says[b])
            = Joined(w[p][b], Joined(Joined(first[b], offer(b)), reply.says[b]))
        BY <2>3, <3>1, JoinedAssociative
      <4>3. wire'[p][b] = w[p][b] \o ((first[b] \o offer(b)) \o reply.says[b])
        BY <4>1, <4>2 DEF Joined
      <4> QED BY <3>2, <4>3
    <3>3. CASE end'[p][b] # "on"
      BY <1>1, <2>3, <3>3, ConcatEmptySeq
    <3> QED BY <3>2, <3>3
  <2>7. end'[p][b] = "on" /\ reply.says[b] = <<Dismiss>> => more(b) # <<>> /\ more(b)[Len(more(b))] = Dismiss
    <3> SUFFICES ASSUME end'[p][b] = "on", reply.says[b] = <<Dismiss>> PROVE more(b) # <<>> /\ more(b)[Len(more(b))] = Dismiss
      OBVIOUS
    <3> DEFINE f == first[b] \o offer(b)
    <3>1. f \in Seq(S) /\ <<Dismiss>> \in Seq(S) /\ more(b) = f \o <<Dismiss>>
      BY <1>2, <2>5
    <3> HIDE DEF f
    <3>2. Dismiss \in Message
      BY DEF Dismiss, Message
    <3>3. f \in Seq(Message)
      BY <2>3, <3>1, SeqMonotonic
    <3> HIDE DEF more
    <3> QED BY <3>1, <3>2, <3>3, LastOf
  <2>8. reply.offers[b] = None => \A i \in DOMAIN more(b) : more(b)[i].type # "offer"
    <3> SUFFICES ASSUME reply.offers[b] = None PROVE more(b) \in Seq(Said(p, b))
      <4> HIDE DEF more
      <4> QED BY SeqElement DEF Said
    <3>1. first[b] \o offer(b) = first[b]
      BY <1>2, <2>4, ConcatEmptySeq
    <3>2. first[b] \o reply.says[b] \in Seq(Said(p, b))
      BY <1>2, ConcatProperties
    <3> QED BY <3>1, <3>2, EmptySeq
  <2>9. more(b) \in Seq(S)
    BY <2>5, EmptySeq
  <2> QED BY <2>6, <2>7, <2>8, <2>9
<1> DEFINE m0 == reply.model
           n0 == model'[p]
<1>m. m0 \in Model /\ n0 = OnOffersSent(m0, sent, d) /\ Owes(m0)
  BY <1>2, <1>4, <1>5
<1> HIDE DEF m0, n0, d
<1>8. /\ n0.entry = m0.entry /\ n0.tracked = m0.tracked
      /\ \A x \in Peer : /\ n0.docs[x].status = m0.docs[x].status /\ n0.docs[x].held = m0.docs[x].held
                         /\ n0.docs[x].cursor = m0.docs[x].cursor /\ n0.docs[x].refuses = m0.docs[x].refuses
                         /\ n0.docs[x].owed \in {m0.docs[x].owed, None}
                         /\ x \in sent => n0.docs[x].owed = None
  BY <1>m, OnOffersSentSame
<1> HIDE DEF more
<1> QED BY <1>6, <1>8 DEF Ran, sent, S, m0, n0, d

\* The message p takes opens its end of the link to q.
Opens(p, q, reply) ==
  /\ p # q /\ wire[q][p] # <<>> /\ Head(wire[q][p]).type = "establish"
  /\ end'[p][q] = "on" /\ began'[p][q] = IF InMemory(p) THEN doc[p] ELSE Empty
  /\ doc' = doc /\ stored' = stored
  /\ q \in reply.model.tracked /\ reply.model.docs[q].held = None /\ reply.model.docs[q].owed = None

\* What a step of p leaves alone: the others, and its own wires and ends but for the message taken.
Alone(p, q, reply, w) ==
  /\ w \in [Peer -> [Peer -> Seq(Message)]] /\ w[p] = wire[p]
  /\ \A a \in Peer \ {p} : /\ model'[a] = model[a] /\ wire'[a] = w[a] /\ doc'[a] = doc[a]
                           /\ stored'[a] = stored[a] /\ end'[a] = end[a] /\ began'[a] = began[a]
  /\ \A a, b \in Peer : w[a][b] = wire[a][b] \/ (a = q /\ b = p /\ q # p /\ wire[q][p] # <<>> /\ w[a][b] = Tail(wire[q][p]))
  /\ \A b \in Peer : (end'[p][b] = end[p][b] /\ began'[p][b] = began[p][b])
                     \/ (b = q /\ w[q][p] = Tail(wire[q][p]) /\ Opens(p, q, reply))

LEMMA StepShape ==
  ASSUME SyncInv, NEW p \in Peer, NEW q \in Peer, NEW reply, NEW first, NEW w, NEW C, NEW V,
         Step(p, q, reply, first, w, C, V)
  PROVE  Alone(p, q, reply, w) /\ Ran(p, reply, w)
<1>1. Types /\ WiresFit
  BY DEF SyncInv, Inv
<1>2. /\ TakesNone(w, C, V) \/ TakesHead(p, q, reply, w, C, V)
      /\ \A x \in Peer \ {p} : doc'[x] = doc[x] /\ stored'[x] = stored[x]
  BY DEF Step
<1>r. Run(p, reply, doc'[p], stored'[p], first, w)
  BY DEF Step
<1>3. ASSUME TakesNone(w, C, V) PROVE Alone(p, q, reply, w)
  <2>1. w = wire /\ UNCHANGED <<end, began>> /\ w \in [Peer -> [Peer -> Seq(Message)]]
    BY <1>1, <1>3 DEF Types, TakesNone
  <2>2. \A a \in Peer \ {p} : model'[a] = model[a] /\ wire'[a] = w[a]
    BY <1>1, <1>r, <2>1 DEF Run, Types
  <2>3. \A a \in Peer \ {p} : /\ model'[a] = model[a] /\ wire'[a] = w[a] /\ doc'[a] = doc[a]
                             /\ stored'[a] = stored[a] /\ end'[a] = end[a] /\ began'[a] = began[a]
    BY <1>2, <2>1, <2>2
  <2> QED BY <2>1, <2>3 DEF Alone
<1>4. ASSUME TakesHead(p, q, reply, w, C, V) PROVE Alone(p, q, reply, w)
  <2>0. p # q /\ wire[q][p] # <<>> /\ w = Taken(p, q)
    BY <1>4 DEF TakesHead
  <2>1. w \in [Peer -> [Peer -> Seq(Message)]]
    BY <1>1, <2>0, TakenFits
  <2>2. \A a \in Peer \ {p} : model'[a] = model[a] /\ wire'[a] = w[a]
    BY <1>1, <1>r, <2>1 DEF Run, Types
  <2>3. \A a, b \in Peer : w[a][b] = IF a = q /\ b = p THEN Tail(wire[q][p]) ELSE wire[a][b]
    BY <1>1, <2>0 DEF Taken, Types
  <2>4. w[p] = wire[p]
    BY <1>1, <2>0 DEF Taken, Types
  <2>5. \/ UNCHANGED <<end, began>>
        \/ /\ Opens(p, q, reply)
           /\ end' = [end EXCEPT ![p][q] = "on"]
           /\ began' = [began EXCEPT ![p][q] = IF InMemory(p) THEN doc[p] ELSE Empty]
    <3>1. CASE Head(wire[q][p]).type # "establish"
      BY <1>4, <3>1 DEF TakesHead
    <3>2. CASE Head(wire[q][p]).type = "establish"
      <4>1. /\ end' = [end EXCEPT ![p][q] = "on"]
            /\ began' = [began EXCEPT ![p][q] = IF InMemory(p) THEN doc[p] ELSE Empty]
            /\ UNCHANGED <<doc, stored>>
            /\ q \in reply.model.tracked /\ reply.model.docs[q].held = None /\ reply.model.docs[q].owed = None
        BY <1>4, <3>2 DEF TakesHead
      <4>2. end'[p][q] = "on" /\ began'[p][q] = IF InMemory(p) THEN doc[p] ELSE Empty
        BY <1>1, <4>1 DEF Types
      <4> QED BY <2>0, <3>2, <4>1, <4>2 DEF Opens
    <3> QED BY <3>1, <3>2
  <2>6. \A a \in Peer \ {p} : end'[a] = end[a] /\ began'[a] = began[a]
    BY <1>1, <2>5 DEF Types
  <2>7. \A b \in Peer : (end'[p][b] = end[p][b] /\ began'[p][b] = began[p][b]) \/ (b = q /\ Opens(p, q, reply))
    BY <1>1, <2>5 DEF Types
  <2>8. \A a \in Peer \ {p} : /\ model'[a] = model[a] /\ wire'[a] = w[a] /\ doc'[a] = doc[a]
                             /\ stored'[a] = stored[a] /\ end'[a] = end[a] /\ began'[a] = began[a]
    BY <1>2, <2>1, <2>2, <2>6
  <2>9. \A b \in Peer : (end'[p][b] = end[p][b] /\ began'[p][b] = began[p][b])
                       \/ (b = q /\ w[q][p] = Tail(wire[q][p]) /\ Opens(p, q, reply))
    BY <2>3, <2>7
  <2> QED BY <2>0, <2>1, <2>3, <2>4, <2>8, <2>9 DEF Alone
<1>5. Alone(p, q, reply, w)
  BY <1>2, <1>3, <1>4
<1>6. Types /\ w \in [Peer -> [Peer -> Seq(Message)]]
  BY <1>1, <1>5 DEF Alone
<1>7. Ran(p, reply, w)
  BY <1>6, RunShape
<1> QED BY <1>5, <1>7

-----------------------------------------------------------------------------
(* Positions on a wire.                                                    *)

LEMMA TailAt ==
  ASSUME NEW S, NEW s \in Seq(S), s # <<>>, NEW t, t = Tail(s)
  PROVE  /\ t \in Seq(S) /\ Len(s) \in Nat \ {0} /\ Len(t) = Len(s) - 1 /\ s[1] = Head(s)
         /\ DOMAIN s = 1..Len(s) /\ DOMAIN t = 1..Len(s) - 1
         /\ \A i \in DOMAIN t : i + 1 \in DOMAIN s /\ t[i] = s[i + 1]
OBVIOUS

LEMMA ConcatAt ==
  ASSUME NEW S, NEW s \in Seq(S), NEW t \in Seq(S), NEW u, u = s \o t
  PROVE  /\ u \in Seq(S) /\ Len(s) \in Nat /\ Len(t) \in Nat
         /\ DOMAIN s = 1..Len(s) /\ DOMAIN t = 1..Len(t) /\ DOMAIN u = 1..Len(s) + Len(t)
         /\ \A i \in DOMAIN s : u[i] = s[i]
         /\ \A i \in DOMAIN t : u[Len(s) + i] = t[i]
         /\ \A i \in DOMAIN u \ DOMAIN s : i - Len(s) \in DOMAIN t /\ u[i] = t[i - Len(s)]
<1>1. /\ s \o t \in Seq(S) /\ Len(s \o t) = Len(s) + Len(t)
      /\ \A i \in 1 .. Len(s) + Len(t) : (s \o t)[i] = IF i <= Len(s) THEN s[i] ELSE t[i - Len(s)]
  BY ConcatProperties
<1>2. Len(s) \in Nat /\ Len(t) \in Nat /\ DOMAIN s = 1..Len(s) /\ DOMAIN t = 1..Len(t)
  OBVIOUS
<1>3. u \in Seq(S) /\ Len(u) = Len(s) + Len(t) /\ DOMAIN u = 1..Len(u)
      /\ \A i \in 1 .. Len(s) + Len(t) : u[i] = IF i <= Len(s) THEN s[i] ELSE t[i - Len(s)]
  BY <1>1
<1> QED BY <1>2, <1>3

-----------------------------------------------------------------------------
(* What a step of p keeps.                                                 *)

LEMMA StepKnows ==
  ASSUME SyncInv, NEW p \in Peer, NEW q \in Peer, NEW reply, NEW first, NEW w, NEW C, NEW V,
         Step(p, q, reply, first, w, C, V)
  PROVE  /\ \A a \in Peer : Knows(model[a], doc[a])'
         /\ \A a \in Peer : (end[a][a] = "off")'
<1>1. Alone(p, q, reply, w) /\ Ran(p, reply, w)
  BY StepShape
<1>2. \A a \in Peer : Knows(model[a], doc[a]) /\ end[a][a] = "off"
  BY DEF SyncInv, RecordsInv
<1>3. Knows(reply.model, doc'[p])
  BY FollowsKnows DEF Step, Keeps
<1>4. Knows(model'[p], doc'[p])
  <2>1. EntryFits(model'[p], doc'[p])
    BY <1>1, <1>3 DEF Ran, Knows, EntryFits
  <2>2. Owes(model'[p])
    BY <1>1, <1>3 DEF Ran, Knows, Owes
  <2>3. \A x \in Peer : QuotesHeld(model'[p].docs[x], doc'[p])
    BY <1>1, <1>3 DEF Ran, Knows, QuotesHeld
  <2> QED BY <2>1, <2>2, <2>3 DEF Knows
<1>5. \A a \in Peer \ {p} : model'[a] = model[a] /\ doc'[a] = doc[a] /\ end'[a] = end[a]
  BY <1>1 DEF Alone
<1>6. end'[p][p] = end[p][p]
  BY <1>1 DEF Alone, Opens
<1> QED BY <1>2, <1>4, <1>5, <1>6

LEMMA StepLink ==
  ASSUME SyncInv, NEW p \in Peer, NEW q \in Peer, NEW reply, NEW first, NEW w, NEW C, NEW V,
         Step(p, q, reply, first, w, C, V)
  PROVE  \A a, b \in Peer : LinkTrue(a, b)'
<1>1. Alone(p, q, reply, w) /\ Ran(p, reply, w)
  BY StepShape
<1>2. \A a, b \in Peer : LinkTrue(a, b) /\ began[a][b] \in Version /\ doc[a] \in MaybeVersion /\ stored[a] \in MaybeVersion
  BY DEF SyncInv, RecordsInv, Inv, Types
<1>3. /\ Remains(p) /\ doc'[p] \in MaybeVersion /\ stored'[p] \in MaybeVersion
      /\ \A x \in model[p].tracked : end'[p][x] = "on" => x \in reply.model.tracked
  BY DEF Step
<1>4. ASSUME NEW a \in Peer \ {p}, NEW b \in Peer PROVE LinkTrue(a, b)'
  BY <1>1, <1>2 DEF Alone, LinkTrue, InMemory
<1>5. ASSUME NEW b \in Peer, end'[p][b] = "on" PROVE LinkTrue(p, b)'
  <2>1. CASE end'[p][b] = end[p][b] /\ began'[p][b] = began[p][b]
    <3>1. b \in model'[p].tracked
      BY <1>1, <1>2, <1>3, <1>5, <2>1 DEF LinkTrue, Ran
    <3> DEFINE before == IF InMemory(p) THEN doc[p] ELSE stored[p]
               after == IF doc'[p] # None THEN doc'[p] ELSE stored'[p]
    <3>2. before # None => before \in Version /\ Reaches(before, began[p][b])
      BY <1>2, <1>5, <2>1 DEF LinkTrue, InMemory, MaybeVersion
    <3>3. after # None => after \in Version /\ before # None /\ Reaches(after, before)
      BY <1>3 DEF Remains, MaybeVersion
    <3> HIDE DEF before
    <3>4. after # None => Reaches(after, began[p][b])
      BY <1>2, <3>2, <3>3, ReachesTransitive
    <3> QED BY <2>1, <3>1, <3>4 DEF LinkTrue, InMemory
  <2>2. CASE b = q /\ Opens(p, q, reply)
    <3>1. b \in model'[p].tracked
      BY <1>1, <2>2 DEF Opens, Ran
    <3>2. doc' = doc /\ stored' = stored /\ began'[p][b] = IF InMemory(p) THEN doc[p] ELSE Empty
      BY <2>2 DEF Opens
    <3>3. \A v \in Version : Reaches(v, v) /\ Reaches(v, Empty)
      BY DEF Reaches, Version, Empty
    <3> QED BY <1>2, <3>1, <3>2, <3>3 DEF LinkTrue, InMemory, MaybeVersion
  <2> QED BY <1>1, <2>1, <2>2 DEF Alone
<1> QED BY <1>4, <1>5 DEF LinkTrue

\* What p is about to say to b, past what is under way, and what it holds still unless it says that it dismisses.
Adds(p, b, n, s) ==
  /\ s \in Seq(New(n, doc'[p])) /\ wire'[p][b] = wire[p][b] \o s
  /\ wire[p][b] \in Seq(Message) /\ s \in Seq(Message)
  /\ end'[p][b] # "on" => s = <<>>

LEMMA StepAdds ==
  ASSUME SyncInv, NEW p \in Peer, NEW q \in Peer, NEW reply, NEW first, NEW w, NEW C, NEW V,
         Step(p, q, reply, first, w, C, V), NEW b \in Peer
  PROVE  \E s : /\ Adds(p, b, reply.model, s)
                /\ b \in Shares[p] /\ end[p][b] = "on" /\ model[p].entry.mode = "held" /\ model'[p].entry.mode # "held" =>
                     s # <<>> /\ s[Len(s)] = Dismiss
                /\ reply.offers[b] = None => \A i \in DOMAIN s : s[i].type # "offer"
<1>1. Alone(p, q, reply, w) /\ Ran(p, reply, w)
  BY StepShape
<1>2. PICK s \in Seq(New(reply.model, doc'[p])) :
              /\ wire'[p][b] = w[p][b] \o s
              /\ end'[p][b] # "on" => s = <<>>
              /\ end'[p][b] = "on" /\ reply.says[b] = <<Dismiss>> => s # <<>> /\ s[Len(s)] = Dismiss
              /\ reply.offers[b] = None => \A i \in DOMAIN s : s[i].type # "offer"
  BY <1>1 DEF Ran
<1>3. w[p][b] = wire[p][b] /\ wire[p][b] \in Seq(Message)
  BY <1>1 DEF Alone, SyncInv, Inv, Types
<1>4. s \in Seq(Message)
  <2>1. New(reply.model, doc'[p]) \subseteq Message
    BY DEF New
  <2> QED BY <1>2, <2>1, SeqMonotonic
<1>5. Adds(p, b, reply.model, s)
  BY <1>2, <1>3, <1>4 DEF Adds
<1>6. ASSUME b \in Shares[p], end[p][b] = "on", model[p].entry.mode = "held", model'[p].entry.mode # "held"
      PROVE  s # <<>> /\ s[Len(s)] = Dismiss
  <2>1. b \in Sharers(p, model[p])
    BY <1>6 DEF Sharers, SyncInv, RecordsInv, LinkTrue
  <2>2. reply.model.entry.mode # "held"
    BY <1>1, <1>6 DEF Ran
  <2>3. reply.says[b] = <<Dismiss>>
    BY <1>6, <2>1, <2>2 DEF Step, Keeps
  <2>4. end'[p][b] = "on"
    BY <1>1, <1>6 DEF Alone, Opens
  <2> QED BY <1>2, <2>3, <2>4
<1> QED BY <1>2, <1>5, <1>6

LEMMA HoldsOrNot ==
  ASSUME SyncInv, NEW p \in Peer, NEW q \in Peer, NEW reply, NEW first, NEW w, NEW C, NEW V,
         Step(p, q, reply, first, w, C, V), NEW v \in Version, Holds(p, v)
  PROVE  model'[p].entry.mode = "held" => Reaches(doc'[p], v)
<1>1. Knows(model'[p], doc'[p]) /\ Knows(model[p], doc[p])
  BY StepKnows DEF SyncInv, RecordsInv
<1>2. /\ Remains(p) /\ doc[p] \in MaybeVersion /\ doc'[p] \in MaybeVersion
      /\ model[p].entry.mode = "held" /\ Reaches(doc[p], v)
  BY DEF Step, SyncInv, Inv, Types, Holds
<1>3. ASSUME model'[p].entry.mode = "held" PROVE Reaches(doc'[p], v)
  <2>1. doc[p] # None /\ doc'[p] # None
    BY <1>1, <1>2, <1>3 DEF Knows, EntryFits
  <2>2. doc[p] \in Version /\ doc'[p] \in Version /\ Reaches(doc'[p], doc[p])
    BY <1>2, <2>1 DEF Remains, InMemory, MaybeVersion
  <2> QED BY <1>2, <2>2, ReachesTransitive
<1> QED BY <1>3

\* A claim is of a version.
LEMMA ClaimIsVersion ==
  ASSUME NEW msg \in Message, msg.type \in {"interest", "accept"} PROVE Claim(msg) \in Version
BY DEF Message, Claim, TheyHold

LEMMA StepOwnWire ==
  ASSUME SyncInv, NEW p \in Peer, NEW q \in Peer, NEW reply, NEW first, NEW w, NEW C, NEW V,
         Step(p, q, reply, first, w, C, V), NEW b \in Peer
  PROVE  WireTrue(p, b)'
<1>1. Alone(p, q, reply, w) /\ Ran(p, reply, w)
  BY StepShape
<1>2. PICK s : /\ Adds(p, b, reply.model, s)
               /\ b \in Shares[p] /\ end[p][b] = "on" /\ model[p].entry.mode = "held" /\ model'[p].entry.mode # "held" =>
                    s # <<>> /\ s[Len(s)] = Dismiss
  BY StepAdds
<1>3. WireTrue(p, b) /\ wire[p][b] \in Seq(Fit(p, b, stored))
  BY DEF SyncInv, RecordsInv, Inv, WiresFit
<1> DEFINE l == Len(wire[p][b])
<1>4. /\ l \in Nat /\ Len(s) \in Nat /\ DOMAIN wire[p][b] = 1..l
      /\ DOMAIN s = 1..Len(s) /\ DOMAIN wire'[p][b] = 1..l + Len(s)
      /\ \A i \in DOMAIN wire[p][b] : wire'[p][b][i] = wire[p][b][i]
      /\ \A i \in DOMAIN s : wire'[p][b][l + i] = s[i]
      /\ \A i \in DOMAIN wire'[p][b] \ DOMAIN wire[p][b] : i - l \in DOMAIN s /\ wire'[p][b][i] = s[i - l]
  <2> DEFINE r == wire[p][b]
             u == wire'[p][b]
  <2>1. r \in Seq(Message) /\ s \in Seq(Message) /\ u = r \o s
    BY <1>2 DEF Adds
  <2> HIDE DEF r, u
  <2>2. /\ Len(r) \in Nat /\ Len(s) \in Nat /\ DOMAIN r = 1..Len(r)
        /\ DOMAIN s = 1..Len(s) /\ DOMAIN u = 1..Len(r) + Len(s)
        /\ \A i \in DOMAIN r : u[i] = r[i]
        /\ \A i \in DOMAIN s : u[Len(r) + i] = s[i]
        /\ \A i \in DOMAIN u \ DOMAIN r : i - Len(r) \in DOMAIN s /\ u[i] = s[i - Len(r)]
    BY <2>1, ConcatAt
  <2> QED BY <2>2 DEF r, u
<1>5. ASSUME NEW i \in DOMAIN wire[p][b]
      PROVE  LET msg == wire'[p][b][i] IN
               /\ msg.type = "establish" => i = 1 /\ end'[b][p] = "opening"
               /\ msg.type # "establish" => end'[p][b] = "on"
               /\ msg.type \in {"interest", "accept"} =>
                    (model'[p].entry.mode = "held" /\ Reaches(doc'[p], Claim(msg))) \/ Dismissing(p, b, i)'
               /\ msg.type \in {"interest", "offer"} => Reaches(msg.version, began'[p][b])
  <2> DEFINE msg == wire[p][b][i]
  <2>1. wire'[p][b][i] = msg /\ msg \in Fit(p, b, stored) /\ msg \in Message
    BY <1>3, <1>4 DEF Fit
  <2>2. /\ msg.type = "establish" => i = 1 /\ end[b][p] = "opening"
        /\ msg.type # "establish" => end[p][b] = "on"
        /\ msg.type \in {"interest", "accept"} => Holds(p, Claim(msg)) \/ Dismissing(p, b, i)
        /\ msg.type \in {"interest", "offer"} => Reaches(msg.version, began[p][b])
    BY <1>3 DEF WireTrue
  <2>3. msg.type \notin {"establish", "vacant"} => b \in Shares[p]
    BY <2>1 DEF Fit
  <2> HIDE DEF msg
  <2>4. msg.type = "establish" => i = 1 /\ end'[b][p] = "opening"
    <3> SUFFICES ASSUME msg.type = "establish" PROVE end'[b][p] = "opening"
      BY <2>2
    <3>1. b # p
      BY <2>2 DEF SyncInv, RecordsInv
    <3> QED BY <1>1, <2>2, <3>1 DEF Alone
  <2>5. msg.type # "establish" => end'[p][b] = "on" /\ began'[p][b] = began[p][b]
    <3> SUFFICES ASSUME msg.type # "establish", ~(end'[p][b] = end[p][b] /\ began'[p][b] = began[p][b]) PROVE FALSE
      BY <2>2
    <3>1. b = q /\ p # q /\ wire[q][p] # <<>> /\ Head(wire[q][p]).type = "establish"
      BY <1>1 DEF Alone, Opens
    <3>2. end[p][q] = "opening"
      <4>1. wire[q][p] \in Seq(Message) /\ WireTrue(q, p)
        BY DEF SyncInv, RecordsInv, Inv, Types
      <4>2. 1 \in DOMAIN wire[q][p] /\ wire[q][p][1] = Head(wire[q][p])
        BY <3>1, <4>1, TailAt
      <4> QED BY <3>1, <4>1, <4>2 DEF WireTrue
    <3> QED BY <2>2, <3>1, <3>2
  <2>6. ASSUME msg.type \in {"interest", "accept"}
        PROVE  (model'[p].entry.mode = "held" /\ Reaches(doc'[p], Claim(msg))) \/ Dismissing(p, b, i)'
    <3>1. CASE Dismissing(p, b, i)
      BY <1>4, <3>1 DEF Dismissing
    <3>2. CASE Holds(p, Claim(msg)) /\ model'[p].entry.mode = "held"
      <4> DEFINE v == Claim(msg)
      <4>1. v \in Version
        BY <2>1, <2>6, ClaimIsVersion
      <4> HIDE DEF v
      <4>2. Holds(p, v)
        BY <3>2 DEF v
      <4>3. Reaches(doc'[p], v)
        BY <3>2, <4>1, <4>2, HoldsOrNot
      <4> QED BY <3>2, <4>3 DEF v
    <3>3. CASE Holds(p, Claim(msg)) /\ model'[p].entry.mode # "held"
      <4>1. s # <<>> /\ s[Len(s)] = Dismiss /\ s \in Seq(Message)
        BY <1>2, <2>2, <2>3, <2>6, <3>3 DEF Holds, Adds
      <4>2. Len(s) \in DOMAIN s
        BY <4>1
      <4>3. l + Len(s) \in DOMAIN wire'[p][b] /\ l + Len(s) > i /\ wire'[p][b][l + Len(s)] = Dismiss
        BY <1>4, <4>1, <4>2
      <4> QED BY <4>3 DEF Dismissing, Dismiss
    <3> QED BY <2>2, <2>6, <3>1, <3>2, <3>3
  <2> QED BY <2>1, <2>2, <2>4, <2>5, <2>6
<1>6. ASSUME NEW i \in DOMAIN wire'[p][b], i \notin DOMAIN wire[p][b]
      PROVE  LET msg == wire'[p][b][i] IN
               /\ msg.type # "establish" /\ end'[p][b] = "on"
               /\ msg.type \in {"interest", "accept"} => model'[p].entry.mode = "held" /\ Reaches(doc'[p], Claim(msg))
               /\ msg.type \in {"interest", "offer"} => Reaches(msg.version, began'[p][b])
  <2> DEFINE msg == wire'[p][b][i]
  <2>1. i - l \in DOMAIN s /\ msg = s[i - l]
    BY <1>4, <1>6
  <2> HIDE DEF msg
  <2>2. msg \in New(reply.model, doc'[p])
    BY <1>2, <2>1, SeqElement DEF Adds
  <2>3. end'[p][b] = "on"
    BY <1>2, <2>1 DEF Adds
  <2>4. LinkTrue(p, b)'
    BY StepLink
  <2>5. doc'[p] # None => Reaches(doc'[p], began'[p][b])
    BY <2>3, <2>4 DEF LinkTrue, InMemory
  <2>6. msg.type \in {"interest", "offer"} => Reaches(msg.version, began'[p][b])
    BY <2>2, <2>5 DEF New
  <2>7. ASSUME msg.type \in {"interest", "accept"} PROVE model'[p].entry.mode = "held" /\ Reaches(doc'[p], Claim(msg))
    <3>1. reply.model.entry.mode = "held" /\ Reaches(doc'[p], Claim(msg))
      BY <2>2, <2>7 DEF New
    <3> QED BY <1>1, <3>1 DEF Ran
  <2>8. msg.type # "establish"
    BY <2>2 DEF New
  <2> QED BY <2>3, <2>6, <2>7, <2>8 DEF msg
<1> QED BY <1>5, <1>6 DEF WireTrue, Holds

\* What the others have said stands; the first message of what is taken from q goes.
LEMMA StepOtherWires ==
  ASSUME SyncInv, NEW p \in Peer, NEW q \in Peer, NEW reply, NEW first, NEW w, NEW C, NEW V,
         Step(p, q, reply, first, w, C, V), NEW a \in Peer \ {p}, NEW b \in Peer
  PROVE  WireTrue(a, b)'
<1>1. Alone(p, q, reply, w) /\ WireTrue(a, b) /\ wire[a][b] \in Seq(Message)
  <2>1. Alone(p, q, reply, w)
    BY StepShape
  <2>2. WireTrue(a, b) /\ Types
    BY DEF SyncInv, RecordsInv, Inv
  <2> QED BY <2>1, <2>2 DEF Types
<1>2. /\ model'[a] = model[a] /\ doc'[a] = doc[a] /\ end'[a][b] = end[a][b] /\ began'[a][b] = began[a][b]
      /\ wire'[a][b] = w[a][b]
  BY <1>1 DEF Alone
<1>3. CASE a = q /\ b = p /\ wire[q][p] # <<>> /\ w[q][p] = Tail(wire[q][p])
  <2> DEFINE r == wire[q][p]
             t == wire'[q][p]
  <2>1. r \in Seq(Message) /\ r # <<>> /\ t = Tail(r)
    BY <1>1, <1>2, <1>3
  <2> HIDE DEF r, t
  <2>2. /\ Len(r) \in Nat \ {0} /\ DOMAIN r = 1..Len(r) /\ DOMAIN t = 1..Len(r) - 1
        /\ \A i \in DOMAIN t : i + 1 \in DOMAIN r /\ t[i] = r[i + 1]
    BY <2>1, TailAt
  <2>3. ASSUME NEW i \in DOMAIN t
        PROVE  /\ i + 1 \in DOMAIN r /\ t[i] = r[i + 1] /\ i + 1 # 1
               /\ \A j \in DOMAIN r : j > i + 1 => j - 1 \in DOMAIN t /\ j - 1 > i /\ t[j - 1] = r[j]
    BY <2>2
  <2>4. ASSUME NEW i \in DOMAIN t, Dismissing(q, p, i + 1) PROVE Dismissing(q, p, i)'
    <3>1. PICK j \in DOMAIN r : j > i + 1 /\ r[j].type = "dismiss"
      BY <2>4 DEF Dismissing, r
    <3>2. j - 1 \in DOMAIN t /\ j - 1 > i /\ t[j - 1] = r[j]
      BY <2>3, <3>1
    <3> QED BY <3>1, <3>2 DEF Dismissing, t
  <2>5. ASSUME NEW i \in DOMAIN t
        PROVE  /\ t[i].type # "establish" /\ end[a][b] = "on"
               /\ t[i].type \in {"interest", "accept"} => Holds(a, Claim(t[i])) \/ Dismissing(a, b, i)'
               /\ t[i].type \in {"interest", "offer"} => Reaches(t[i].version, began[a][b])
    BY <1>1, <1>3, <2>3, <2>4 DEF WireTrue, r
  <2> QED BY <1>2, <1>3, <2>5 DEF WireTrue, Holds, t
<1>4. CASE w[a][b] = wire[a][b] /\ ~(a = q /\ b = p /\ wire[q][p] # <<>> /\ w[q][p] = Tail(wire[q][p]))
  <2>1. wire'[a][b] = wire[a][b] /\ end'[b][a] = end[b][a]
    BY <1>1, <1>2, <1>4 DEF Alone, Opens
  <2> QED BY <1>1, <1>2, <2>1 DEF WireTrue, Holds, Dismissing
<1> QED BY <1>1, <1>3, <1>4 DEF Alone

\* What p records of others is true still.
LEMMA StepOwnHeld ==
  ASSUME SyncInv, NEW p \in Peer, NEW q \in Peer, NEW reply, NEW first, NEW w, NEW C, NEW V,
         Step(p, q, reply, first, w, C, V), NEW b \in Peer
  PROVE  HeldTrue(p, b)'
<1>1. Alone(p, q, reply, w) /\ Ran(p, reply, w)
  BY StepShape
<1> SUFFICES ASSUME At(p, b)'.held # None, end'[p][b] = "on", end'[b][p] \in {"on", "opening"}
             PROVE  end'[b][p] = "on" /\ p \in Shares[b] /\ (Dismissing(b, p, 0)' \/ (Holds(b, At(p, b).held))')
  BY DEF HeldTrue
<1> DEFINE v == model'[p].docs[b].held
<1>2. v = reply.model.docs[b].held /\ v # None
  BY <1>1 DEF Ran, At
<1>3. b # p
  BY StepKnows
<1>4. end'[p][b] = end[p][b] /\ end'[b][p] = end[b][p] /\ model'[b] = model[b] /\ doc'[b] = doc[b] /\ wire'[b][p] = w[b][p]
  BY <1>1, <1>2, <1>3 DEF Alone, Opens
<1>5. SUFFICES end[b][p] = "on" /\ p \in Shares[b] /\ (Dismissing(b, p, 0)' \/ Holds(b, v))
  BY <1>4 DEF Holds, At
<1>6. v \in {None, model[p].docs[b].held} \/ <<b, v>> \in C
  BY <1>2 DEF Step, Keeps, Follows, RecordFollows
<1>7. wire[b][p] \in Seq(Message) /\ WireTrue(b, p) /\ HeldTrue(p, b) /\ LinkTrue(p, b)
  BY DEF SyncInv, RecordsInv, Inv, Types
<1>8. TakesNone(w, C, V) \/ TakesHead(p, q, reply, w, C, V)
  BY DEF Step
<1> DEFINE r == wire[b][p]
           t == wire'[b][p]
<1>9. \/ t = r
      \/ b = q /\ r # <<>> /\ t = Tail(r)
  BY <1>1, <1>4 DEF Alone
<1> HIDE DEF v
<1>10. CASE v = model[p].docs[b].held
  <2>1. end[b][p] = "on" /\ p \in Shares[b] /\ (Dismissing(b, p, 0) \/ Holds(b, v))
    BY <1>2, <1>4, <1>7, <1>10 DEF HeldTrue, At
  <2>2. ASSUME Dismissing(b, p, 0) PROVE Dismissing(b, p, 0)'
    <3>1. PICK j \in DOMAIN r : j > 0 /\ r[j].type = "dismiss"
      BY <2>2 DEF Dismissing
    <3>2. CASE t = r
      BY <3>1, <3>2 DEF Dismissing
    <3>3. CASE b = q /\ r # <<>> /\ t = Tail(r) /\ t # r
      <4>1. Head(r).type # "dismiss"
        <5> SUFFICES ASSUME Head(r).type = "dismiss" PROVE FALSE
          OBVIOUS
        <5>1. q \in model[p].tracked
          BY <1>4, <1>7, <3>3 DEF LinkTrue
        <5>2. TakesHead(p, q, reply, w, C, V)
          BY <1>4, <1>8, <3>3 DEF TakesNone
        <5> QED BY <1>2, <3>3, <5>1, <5>2 DEF TakesHead
      <4> HIDE DEF r, t
      <4>2. /\ Len(r) \in Nat \ {0} /\ DOMAIN r = 1..Len(r) /\ DOMAIN t = 1..Len(r) - 1 /\ r[1] = Head(r)
            /\ \A i \in DOMAIN t : t[i] = r[i + 1]
        BY <1>7, <3>3, TailAt DEF r
      <4>3. j # 1
        BY <3>1, <4>1, <4>2
      <4>4. j - 1 \in DOMAIN t /\ j - 1 > 0 /\ t[j - 1] = r[j]
        BY <3>1, <4>2, <4>3
      <4> QED BY <3>1, <4>4 DEF Dismissing, t
    <3> QED BY <1>9, <3>2, <3>3
  <2> QED BY <2>1, <2>2
<1>11. CASE <<b, v>> \in C
  <2>1. TakesHead(p, q, reply, w, C, V)
    BY <1>8, <1>11 DEF TakesNone
  <2> DEFINE msg == Head(wire[q][p])
  <2>2. wire[q][p] # <<>> /\ w = Taken(p, q) /\ msg.type \in {"interest", "accept"} /\ C = {<<q, Claim(msg)>>}
    BY <1>11, <2>1 DEF TakesHead
  <2>3. b = q /\ v = Claim(msg)
    BY <1>11, <2>2
  <2>4. t = Tail(r)
    BY <1>4, <2>2, <2>3 DEF Taken, SyncInv, Inv, Types
  <2>5. /\ Len(r) \in Nat \ {0} /\ DOMAIN r = 1..Len(r) /\ DOMAIN t = 1..Len(r) - 1 /\ r[1] = Head(r)
        /\ \A i \in DOMAIN t : t[i] = r[i + 1]
    <3> HIDE DEF t
    <3> QED BY <1>7, <2>2, <2>3, <2>4, TailAt
  <2>6. 1 \in DOMAIN r /\ r[1] = msg
    BY <2>3, <2>5
  <2>7. end[b][p] = "on" /\ (Holds(b, v) \/ Dismissing(b, p, 1))
    BY <1>7, <2>2, <2>3, <2>6 DEF WireTrue
  <2>8. p \in Shares[b]
    <3>1. r \in Seq(Fit(b, p, stored))
      BY DEF SyncInv, Inv, WiresFit
    <3>2. msg \in Fit(b, p, stored)
      BY <2>6, <3>1
    <3> QED BY <2>2, <3>2 DEF Fit
  <2>9. ASSUME Dismissing(b, p, 1) PROVE Dismissing(b, p, 0)'
    <3>1. PICK j \in DOMAIN r : j > 1 /\ r[j].type = "dismiss"
      BY <2>9 DEF Dismissing
    <3> HIDE DEF r, t
    <3>2. j - 1 \in DOMAIN t /\ j - 1 > 0 /\ t[j - 1] = r[j]
      BY <2>5, <3>1
    <3> QED BY <3>1, <3>2 DEF Dismissing, t
  <2> QED BY <2>7, <2>8, <2>9
<1> QED BY <1>2, <1>6, <1>10, <1>11

\* What others record of p is true still.
LEMMA StepOtherHeld ==
  ASSUME SyncInv, NEW p \in Peer, NEW q \in Peer, NEW reply, NEW first, NEW w, NEW C, NEW V,
         Step(p, q, reply, first, w, C, V), NEW a \in Peer \ {p}, NEW b \in Peer
  PROVE  HeldTrue(a, b)'
<1>1. Alone(p, q, reply, w) /\ HeldTrue(a, b)
  BY StepShape DEF SyncInv, RecordsInv
<1>2. model'[a] = model[a] /\ doc'[a] = doc[a] /\ end'[a][b] = end[a][b]
  BY <1>1 DEF Alone
<1>3. CASE b # p
  <2>1. model'[b] = model[b] /\ doc'[b] = doc[b] /\ end'[b][a] = end[b][a] /\ wire'[b][a] = wire[b][a]
    BY <1>1, <1>3 DEF Alone
  <2> QED BY <1>1, <1>2, <2>1 DEF HeldTrue, At, Dismissing, Holds
<1>4. CASE b = p
  <2> SUFFICES ASSUME At(a, p).held # None, end[a][p] = "on", end'[p][a] \in {"on", "opening"}
               PROVE  end'[p][a] = "on" /\ a \in Shares[p] /\ (Dismissing(p, a, 0)' \/ (Holds(p, At(a, p).held))')
    BY <1>2, <1>4 DEF HeldTrue, At
  <2> DEFINE v == model[a].docs[p].held
  <2>1. end'[p][a] = end[p][a]
    <3> SUFFICES ASSUME a = q, p # q, wire[q][p] # <<>>, Head(wire[q][p]).type = "establish" PROVE FALSE
      BY <1>1 DEF Alone, Opens
    <3>1. wire[q][p] \in Seq(Message) /\ WireTrue(q, p)
      BY DEF SyncInv, RecordsInv, Inv, Types
    <3>2. 1 \in DOMAIN wire[q][p] /\ wire[q][p][1] = Head(wire[q][p])
      BY <3>1, TailAt
    <3>3. end[p][q] = "opening"
      BY <3>1, <3>2 DEF WireTrue
    <3> QED BY <1>1, <1>4, <3>3 DEF HeldTrue
  <2>2. end[p][a] = "on" /\ a \in Shares[p] /\ (Dismissing(p, a, 0) \/ Holds(p, v))
    BY <1>1, <1>4, <2>1 DEF HeldTrue, At
  <2>3. PICK s : /\ Adds(p, a, reply.model, s)
                 /\ a \in Shares[p] /\ end[p][a] = "on" /\ model[p].entry.mode = "held" /\ model'[p].entry.mode # "held" =>
                      s # <<>> /\ s[Len(s)] = Dismiss
    BY StepAdds
  <2> DEFINE r == wire[p][a]
             u == wire'[p][a]
  <2>4. r \in Seq(Message) /\ s \in Seq(Message) /\ u = r \o s
    BY <2>3 DEF Adds
  <2> HIDE DEF r, u
  <2>5. /\ Len(r) \in Nat /\ Len(s) \in Nat /\ DOMAIN r = 1..Len(r)
        /\ DOMAIN s = 1..Len(s) /\ DOMAIN u = 1..Len(r) + Len(s)
        /\ \A i \in DOMAIN r : u[i] = r[i]
        /\ \A i \in DOMAIN s : u[Len(r) + i] = s[i]
    BY <2>4, ConcatAt
  <2>6. CASE Dismissing(p, a, 0)
    <3>1. PICK j \in DOMAIN r : j > 0 /\ r[j].type = "dismiss"
      BY <2>6 DEF Dismissing, r
    <3>2. j \in DOMAIN u /\ u[j] = r[j]
      BY <2>5, <3>1
    <3> QED BY <2>1, <2>2, <3>1, <3>2 DEF Dismissing, u
  <2>7. CASE Holds(p, v) /\ model'[p].entry.mode # "held"
    <3>1. s # <<>> /\ s[Len(s)] = Dismiss
      BY <2>2, <2>3, <2>7 DEF Holds
    <3>2. Len(s) \in DOMAIN s
      BY <2>4, <2>5, <3>1
    <3>3. Len(r) + Len(s) \in DOMAIN u /\ Len(r) + Len(s) > 0 /\ u[Len(r) + Len(s)] = Dismiss
      BY <2>5, <3>1, <3>2
    <3> QED BY <2>1, <2>2, <3>3 DEF Dismissing, Dismiss, u
  <2>8. CASE Holds(p, v) /\ model'[p].entry.mode = "held"
    <3>1. v \in Version
      <4>1. model[a] \in Model
        BY ModelOf DEF SyncInv
      <4> QED BY <4>1, ModelFacts DEF At, MaybeVersion
    <3> HIDE DEF v
    <3>2. Reaches(doc'[p], v)
      BY <2>8, <3>1, HoldsOrNot
    <3>3. model'[p].entry.mode = "held" /\ Reaches(doc'[p], model'[a].docs[p].held)
      BY <1>2, <2>8, <3>2 DEF v
    <3> QED BY <2>1, <2>2, <3>3 DEF Holds, At
  <2> QED BY <2>2, <2>6, <2>7, <2>8
<1> QED BY <1>3, <1>4

LEMMA StepRecords ==
  ASSUME SyncInv, NEW p \in Peer, NEW q \in Peer, NEW reply, NEW first, NEW w, NEW C, NEW V,
         Step(p, q, reply, first, w, C, V)
  PROVE  RecordsInv'
<1>1. \A a, b \in Peer : WireTrue(a, b)'
  BY StepOwnWire, StepOtherWires
<1>2. \A a, b \in Peer : HeldTrue(a, b)'
  BY StepOwnHeld, StepOtherHeld
<1> QED BY <1>1, <1>2, StepKnows, StepLink DEF RecordsInv

\* What is owed over a link is held back by the gate.
LEMMA StepOwed ==
  ASSUME SyncInv, OwedOnlyWhileHeld, NEW p \in Peer, NEW q \in Peer, NEW reply, NEW first, NEW w, NEW C, NEW V,
         Step(p, q, reply, first, w, C, V)
  PROVE  OwedOnlyWhileHeld'
<1>1. Alone(p, q, reply, w) /\ Ran(p, reply, w)
  BY StepShape
<1> SUFFICES ASSUME NEW a \in Peer, NEW b \in Peer,
                    model'[a].docs[b].owed # None, ~model'[a].docs[b].refuses, b \in Shares[a],
                    end'[a][b] \in {"on", "broken"}, doc'[a] # None, GateOpen(a, doc'[a], stored'[a])
             PROVE  FALSE
  BY DEF OwedOnlyWhileHeld, At, InMemory, GateOpen
<1>2. CASE a # p
  <2>1. model'[a] = model[a] /\ doc'[a] = doc[a] /\ stored'[a] = stored[a] /\ end'[a] = end[a]
    BY <1>1, <1>2 DEF Alone
  <2> QED BY <2>1 DEF OwedOnlyWhileHeld, At, InMemory
<1>3. CASE a = p
  <2>1. /\ b \notin OffersSent(p, reply.offers, doc'[p], stored'[p])
        /\ reply.model.docs[b].owed # None /\ ~reply.model.docs[b].refuses
    BY <1>1, <1>3 DEF Ran
  <2>2. reply.offers[b] = None
    BY <1>3, <2>1 DEF OffersSent
  <2>3. model[p].docs[b].owed # None /\ ~model[p].docs[b].refuses
    BY <1>3, <2>1, <2>2 DEF Step, Keeps, Follows, RecordFollows
  <2>4. end[p][b] \in {"on", "broken"}
    BY <1>1, <1>3, <2>1 DEF Alone, Opens
  <2>5. GateOpen(p, doc[p], stored[p])
    BY <1>3, <2>2, <2>3 DEF Step, At
  <2> QED BY <1>3, <2>3, <2>4, <2>5 DEF OwedOnlyWhileHeld, At, InMemory, GateOpen
<1> QED BY <1>2, <1>3

\* A peer turns synced by a version that reaches all its sender had when the link came up.
LEMMA StepSynced ==
  ASSUME SyncInv, NEW p \in Peer, NEW q \in Peer, NEW reply, NEW first, NEW w, NEW C, NEW V,
         Step(p, q, reply, first, w, C, V), NEW a \in Peer, NEW b \in Peer,
         model'[a].docs[b].status = "synced", model[a].docs[b].status # "synced"
  PROVE  doc'[a] # None /\ Reaches(doc'[a], began[b][a])
<1>1. Alone(p, q, reply, w) /\ Ran(p, reply, w)
  BY StepShape
<1>2. a = p
  BY <1>1 DEF Alone
<1>3. reply.model.docs[b].status = "synced"
  BY <1>1, <1>2 DEF Ran
<1>4. PICK v \in Version : doc'[p] # None /\ <<b, v>> \in V /\ Reaches(doc'[p], v)
  BY <1>2, <1>3 DEF Step, Keeps, Follows, RecordFollows
<1>5. TakesHead(p, q, reply, w, C, V)
  BY <1>4 DEF Step, TakesNone
<1>6. /\ wire[q][p] # <<>> /\ V = {<<q, Head(wire[q][p]).version>>} /\ Head(wire[q][p]).type \in {"interest", "offer"}
  BY <1>4, <1>5 DEF TakesHead
<1>7. b = q /\ v = Head(wire[q][p]).version
  BY <1>4, <1>6
<1>8. wire[q][p] \in Seq(Message) /\ WireTrue(q, p) /\ began[q][p] \in Version /\ doc'[p] \in MaybeVersion
  BY DEF SyncInv, RecordsInv, Inv, Types, Step
<1>9. 1 \in DOMAIN wire[q][p] /\ wire[q][p][1] = Head(wire[q][p])
  BY <1>6, <1>8, TailAt
<1>10. Reaches(v, began[q][p])
  BY <1>6, <1>7, <1>8, <1>9 DEF WireTrue
<1> QED BY <1>2, <1>4, <1>7, <1>8, <1>10, ReachesTransitive DEF MaybeVersion

-----------------------------------------------------------------------------
(* The offers on a wire.                                                   *)

OffersOn(s) == {i \in DOMAIN s : s[i].type = "offer"}

LEMMA OffersFinite ==
  ASSUME NEW S, NEW s \in Seq(S) PROVE IsFiniteSet(OffersOn(s)) /\ Cardinality(OffersOn(s)) \in Nat
<1>1. DOMAIN s = 1..Len(s) /\ Len(s) \in Int
  OBVIOUS
<1>2. IsFiniteSet(1..Len(s))
  BY <1>1, FS_Interval
<1>3. OffersOn(s) \in SUBSET (1..Len(s))
  BY <1>1 DEF OffersOn
<1> QED BY <1>2, <1>3, FS_Subset, FS_CardinalityType

\* Taking a message adds no offer, and neither does saying anything else.
LEMMA OffersTaken ==
  ASSUME NEW S, NEW s \in Seq(S), s # <<>>, NEW t, t = Tail(s)
  PROVE  Cardinality(OffersOn(t)) <= Cardinality(OffersOn(s))
<1> DEFINE f == [i \in OffersOn(t) |-> i + 1]
<1>1. /\ DOMAIN t = 1..Len(s) - 1 /\ Len(s) \in Nat
      /\ \A i \in DOMAIN t : i + 1 \in DOMAIN s /\ t[i] = s[i + 1]
  BY TailAt
<1>2. f \in [OffersOn(t) -> OffersOn(s)]
  BY <1>1 DEF OffersOn
<1>3. \A i, j \in OffersOn(t) : f[i] = f[j] => i = j
  BY <1>1 DEF OffersOn
<1>4. f \in Injection(OffersOn(t), OffersOn(s))
  BY <1>2, <1>3 DEF Injection, IsInjective
<1> HIDE DEF f
<1> QED BY <1>4, OffersFinite, FS_Injection

LEMMA OffersSaid ==
  ASSUME NEW S, NEW s \in Seq(S), NEW t \in Seq(S), \A i \in DOMAIN t : t[i].type # "offer", NEW u, u = s \o t
  PROVE  OffersOn(u) = OffersOn(s)
<1>1. /\ DOMAIN s = 1..Len(s) /\ Len(s) \in Nat /\ DOMAIN u = 1..Len(s) + Len(t) /\ Len(t) \in Nat
      /\ \A i \in DOMAIN s : u[i] = s[i]
      /\ \A i \in DOMAIN u \ DOMAIN s : i - Len(s) \in DOMAIN t /\ u[i] = t[i - Len(s)]
  BY ConcatAt
<1> QED BY <1>1 DEF OffersOn

LEMMA StepRefused ==
  ASSUME SyncInv, NEW p \in Peer, NEW q \in Peer, NEW reply, NEW first, NEW w, NEW C, NEW V,
         Step(p, q, reply, first, w, C, V)
  PROVE  SendsNothingRefused
<1>1. Alone(p, q, reply, w)
  BY StepShape
<1> SUFFICES ASSUME NEW a \in Peer, NEW b \in Peer, model[a].docs[b].refuses
             PROVE  Cardinality(OffersOn(wire'[a][b])) <= Cardinality(OffersOn(wire[a][b]))
  BY DEF SendsNothingRefused, OffersOn
<1>2. wire[a][b] \in Seq(Message)
  BY DEF SyncInv, Inv, Types
<1>3. Cardinality(OffersOn(wire[a][b])) \in Nat
  BY <1>2, OffersFinite
<1>4. CASE a = p
  <2>1. reply.offers[b] = None
    BY <1>4 DEF Step, Keeps
  <2>2. PICK s : Adds(p, b, reply.model, s) /\ \A i \in DOMAIN s : s[i].type # "offer"
    BY <2>1, StepAdds
  <2> DEFINE r == wire[p][b]
             u == wire'[p][b]
  <2>3. r \in Seq(Message) /\ s \in Seq(Message) /\ u = r \o s
    BY <2>2 DEF Adds
  <2> HIDE DEF r, u
  <2>4. OffersOn(u) = OffersOn(r)
    BY <2>2, <2>3, OffersSaid
  <2> QED BY <1>3, <1>4, <2>4 DEF r, u
<1>5. CASE a # p
  <2>1. wire'[a][b] = wire[a][b] \/ (wire[a][b] # <<>> /\ wire'[a][b] = Tail(wire[a][b]))
    <3>1. wire'[a][b] = w[a][b]
      BY <1>1, <1>5 DEF Alone
    <3>2. w[a][b] = wire[a][b] \/ (a = q /\ b = p /\ wire[q][p] # <<>> /\ w[a][b] = Tail(wire[q][p]))
      BY <1>1 DEF Alone
    <3> QED BY <3>1, <3>2
  <2> DEFINE r == wire[a][b]
             u == wire'[a][b]
  <2>2. r \in Seq(Message) /\ (u = r \/ (r # <<>> /\ u = Tail(r)))
    BY <1>2, <2>1
  <2>3. Cardinality(OffersOn(r)) <= Cardinality(OffersOn(r))
    BY <1>3
  <2> HIDE DEF r, u
  <2>4. Cardinality(OffersOn(u)) <= Cardinality(OffersOn(r))
    BY <2>2, <2>3, OffersTaken
  <2> QED BY <2>4 DEF r, u
<1> QED BY <1>4, <1>5

-----------------------------------------------------------------------------
(* What every step keeps.                                                  *)

\* A peer turns synced only when all the other had has arrived.
SyncedArrived ==
  \A p, q \in Peer :
    model'[p].docs[q].status = "synced" /\ model[p].docs[q].status # "synced" =>
      doc'[p] # None /\ Reaches(doc'[p], began[q][p])

Kept == RecordsInv' /\ (OwedOnlyWhileHeld => OwedOnlyWhileHeld') /\ SendsNothingRefused /\ SyncedArrived

LEMMA StepKept ==
  ASSUME SyncInv, NEW p \in Peer, NEW q \in Peer, NEW reply, NEW first, NEW w, NEW C, NEW V,
         Step(p, q, reply, first, w, C, V)
  PROVE  Kept
<1>1. RecordsInv'
  BY StepRecords
<1>2. OwedOnlyWhileHeld => OwedOnlyWhileHeld'
  BY StepOwed
<1>3. SendsNothingRefused
  BY StepRefused
<1>4. SyncedArrived
  BY StepSynced DEF SyncedArrived
<1> QED BY <1>1, <1>2, <1>3, <1>4 DEF Kept

\* The gate that p's step leaves open was open, or all that was owed is offered.
GateAnswered(p, reply) ==
  GateOpen(p, doc'[p], stored'[p]) =>
    \/ GateOpen(p, doc[p], stored[p])
    \/ \A x \in Shares[p] \cap Peer : ~At(p, x).refuses /\ At(p, x).owed # None => reply.offers[x] # None

LEMMA AnswersAny ==
  ASSUME NEW p, NEW m, NEW reply, NEW Q, Answers(p, m, reply, Q) PROVE Answers(p, m, reply, Peer)
BY DEF Answers

LEMMA SilentFirst ==
  ASSUME NEW p \in Peer, NEW n, NEW d PROVE \A x \in Peer : Silent[x] \in Seq(Said(p, x)) /\ Silent[x] \in Seq(New(n, d))
BY SilentSaid, SilentNew

\* p's step on an input of its own, and on the next message from q, of type t: what that claims its sender holds, and the
\* version it states.
Acts(p, reply) == Step(p, p, reply, Silent, wire, {}, {})
Claims(q, t, msg) == IF t \in {"interest", "accept"} THEN {<<q, Claim(msg)>>} ELSE {}
States(q, t, msg) == IF t \in {"interest", "offer"} THEN {<<q, msg.version>>} ELSE {}
Reads(p, q, t, reply, first) ==
  LET msg == Head(wire[q][p])
  IN  Arrives(p, q, t) /\ Step(p, q, reply, first, Taken(p, q), Claims(q, t, msg), States(q, t, msg))

LEMMA ActsKept == ASSUME SyncInv, NEW p \in Peer, NEW reply, Acts(p, reply) PROVE Kept
BY StepKept DEF Acts

LEMMA ReadsKept ==
  ASSUME SyncInv, NEW p \in Peer, NEW q \in Peer, NEW t, NEW reply, NEW first, Reads(p, q, t, reply, first) PROVE Kept
<1> DEFINE C == Claims(q, t, Head(wire[q][p]))
           V == States(q, t, Head(wire[q][p]))
           w == Taken(p, q)
<1>1. Step(p, q, reply, first, w, C, V)
  BY DEF Reads
<1> HIDE DEF C, V, w
<1> QED BY <1>1, StepKept

\* A step that takes no message.
LEMMA OwnStep ==
  ASSUME SyncInv, NEW p \in Peer, NEW reply, NEW Q, Answers(p, model[p], reply, Q),
         Keeps(p, model[p], reply, doc'[p], {}, {}),
         Run(p, reply, doc'[p], stored'[p], Silent, wire), UNCHANGED <<end, began>>,
         \A x \in Peer \ {p} : doc'[x] = doc[x] /\ stored'[x] = stored[x],
         doc'[p] \in MaybeVersion, stored'[p] \in MaybeVersion, Remains(p),
         \A x \in model[p].tracked : end[p][x] = "on" => x \in reply.model.tracked,
         GateAnswered(p, reply)
  PROVE  Acts(p, reply)
<1>1. Answers(p, model[p], reply, Peer)
  BY AnswersAny
<1>2. TakesNone(wire, {}, {})
  BY DEF TakesNone
<1>3. \A x \in Peer : Silent[x] \in Seq(Said(p, x)) /\ Silent[x] \in Seq(New(reply.model, doc'[p]))
  BY SilentFirst
<1>4. end' = end
  OBVIOUS
<1>5. Step(p, p, reply, Silent, wire, {}, {})
  BY <1>1, <1>2, <1>3, <1>4 DEF Step, GateAnswered
<1> QED BY <1>5 DEF Acts

\* Where what is in memory and stored stays, so does the gate.
LEMMA StaysPut ==
  ASSUME SyncInv, NEW p \in Peer, NEW reply, UNCHANGED <<doc, stored>>
  PROVE  /\ \A x \in Peer \ {p} : doc'[x] = doc[x] /\ stored'[x] = stored[x]
         /\ doc'[p] \in MaybeVersion /\ stored'[p] \in MaybeVersion /\ Remains(p)
         /\ GateAnswered(p, reply)
<1>1. doc[p] \in MaybeVersion /\ stored[p] \in MaybeVersion
  BY DEF SyncInv, Inv, Types
<1>2. \A v \in Version : Reaches(v, v)
  BY DEF Reaches, Version
<1>3. Remains(p)
  BY <1>1, <1>2 DEF Remains, InMemory, MaybeVersion
<1>4. GateAnswered(p, reply)
  BY DEF GateAnswered
<1> QED BY <1>1, <1>3, <1>4

\* A document that grows in memory opens no gate.
LEMMA GrowthKeepsGate ==
  ASSUME SyncInv, NEW p \in Peer, NEW reply, InMemory(p), doc'[p] \in Version, Reaches(doc'[p], doc[p]), UNCHANGED stored
  PROVE  Remains(p) /\ GateAnswered(p, reply)
<1>1. doc[p] \in Version /\ stored[p] \in MaybeVersion
  BY DEF SyncInv, Inv, Types, InMemory, MaybeVersion
<1>2. Remains(p)
  BY <1>1, NoneAssumption DEF Remains, InMemory
<1>3. GateOpen(p, doc'[p], stored[p]) => GateOpen(p, doc[p], stored[p])
  <2> SUFFICES ASSUME GateOpen(p, doc'[p], stored[p]) PROVE GateOpen(p, doc[p], stored[p])
    OBVIOUS
  <2>1. doc[p][p] <= doc'[p][p] /\ doc'[p][p] <= stored[p][p] /\ stored[p] \in Version
    BY <1>1 DEF GateOpen, Reaches, MaybeVersion
  <2>2. doc[p][p] \in Nat /\ doc'[p][p] \in Nat /\ stored[p][p] \in Nat
    BY <1>1, <2>1 DEF Version
  <2> QED BY <1>1, <2>1, <2>2 DEF GateOpen, InMemory
<1> QED BY <1>2, <1>3 DEF GateAnswered

-----------------------------------------------------------------------------
(* One lemma per action: the document.                                     *)

\* The inputs from the document track the same peers.
LEMMA DocTracks ==
  ASSUME NEW p \in Peer, NEW m \in Model
  PROVE  /\ \A v, s : OnDocEnsure(p, m, v, s).model.tracked = m.tracked
         /\ \A v : OnDocAdvanced(p, m, v).model.tracked = m.tracked
         /\ \A leaving : OnDocUnloading(p, m, leaving).model.tracked = m.tracked
         /\ \A as : OnDocLeave(p, m, as).model.tracked = m.tracked
         /\ OnDocPublishable(p, m).model.tracked = m.tracked
<1>1. ASSUME NEW v, NEW s PROVE OnDocEnsure(p, m, v, s).model.tracked = m.tracked
  BY DEF OnDocEnsure, Only, Saying, Model, SyncModel
<1>2. ASSUME NEW v PROVE OnDocAdvanced(p, m, v).model.tracked = m.tracked
  BY DEF OnDocAdvanced, Push, Offering, Only, Model, SyncModel
<1>3. ASSUME NEW leaving PROVE OnDocUnloading(p, m, leaving).model.tracked = m.tracked
  BY DEF OnDocUnloading, Saying, Only, Model, SyncModel
<1>4. ASSUME NEW as PROVE OnDocLeave(p, m, as).model.tracked = m.tracked
  BY DEF OnDocLeave, ForgetPeerStates, Saying, Model, SyncModel
<1>5. OnDocPublishable(p, m).model.tracked = m.tracked
  BY DEF OnDocPublishable, Offering, Only
<1> QED BY <1>1, <1>2, <1>3, <1>4, <1>5

LEMMA KnowsOf ==
  ASSUME SyncInv, NEW p \in Peer
  PROVE  Knows(model[p], doc[p]) /\ model[p] \in Model /\ doc[p] \in MaybeVersion /\ stored[p] \in MaybeVersion
BY DEF SyncInv, RecordsInv, Inv, Types

LEMMA EnsureActs ==
  ASSUME SyncInv, NEW p \in Peer, Ensure(p)
  PROVE  Acts(p, OnDocEnsure(p, model[p], stored[p], model[p].entry.suspended))
<1> DEFINE reply == OnDocEnsure(p, model[p], stored[p], model[p].entry.suspended)
<1>1. /\ doc[p] = None /\ stored[p] \in Version /\ doc' = [doc EXCEPT ![p] = stored[p]]
      /\ UNCHANGED <<stored, end, began>> /\ Run(p, reply, doc'[p], stored[p], Silent, wire)
  BY KnowsOf DEF Ensure, Input, InMemory, MaybeVersion
<1>2. doc'[p] = stored[p] /\ \A x \in Peer \ {p} : doc'[x] = doc[x]
  BY <1>1 DEF SyncInv, Inv, Types
<1>3. Knows(model[p], None) /\ model[p] \in Model
  BY <1>1, KnowsOf
<1>4. Answers(p, model[p], reply, {})
  BY <1>1, <1>3, OnDocEnsureAnswers
<1>5. Keeps(p, model[p], reply, stored[p], {}, {})
  BY <1>1, <1>3, OnDocEnsureKeeps
<1>6. Remains(p)
  <2>1. Reaches(stored[p], stored[p]) /\ stored[p] # None
    BY <1>1, NoneAssumption DEF Reaches, Version
  <2> QED BY <1>1, <1>2, <2>1 DEF Remains, InMemory
<1>7. \A x \in Peer : At(p, x).owed = None
  BY <1>3 DEF Knows, EntryFits, Owes, At
<1>8. reply.model.tracked = model[p].tracked
  BY <1>3, DocTracks
<1> HIDE DEF reply
<1>9. Acts(p, reply)
  BY <1>1, <1>2, <1>4, <1>5, <1>6, <1>7, <1>8, OwnStep DEF GateAnswered, MaybeVersion
<1> QED BY <1>9 DEF reply

LEMMA LocalWriteActs ==
  ASSUME SyncInv, NEW p \in Peer, LocalWrite(p) PROVE Acts(p, OnDocAdvanced(p, model[p], doc'[p]))
<1> DEFINE reply == OnDocAdvanced(p, model[p], doc'[p])
<1>1. /\ doc[p] \in Version /\ InMemory(p) /\ doc' = [doc EXCEPT ![p][p] = @ + 1]
      /\ UNCHANGED <<stored, end, began>> /\ Run(p, reply, doc'[p], stored[p], Silent, wire)
  BY KnowsOf DEF LocalWrite, Input, InMemory, MaybeVersion
<1>2. doc'[p] = [doc[p] EXCEPT ![p] = @ + 1] /\ \A x \in Peer \ {p} : doc'[x] = doc[x]
  BY <1>1 DEF SyncInv, Inv, Types
<1>3. doc'[p] \in Version /\ Reaches(doc'[p], doc[p])
  BY <1>1, <1>2 DEF Version, Reaches
<1>4. model[p] \in Model /\ Knows(model[p], doc[p]) /\ stored[p] \in MaybeVersion
  BY KnowsOf
<1>5. Answers(p, model[p], reply, {}) /\ Keeps(p, model[p], reply, doc'[p], {}, {})
  BY <1>1, <1>3, <1>4, OnDocAdvancedAnswers, OnDocAdvancedKeeps
<1>6. reply.model.tracked = model[p].tracked
  BY <1>4, DocTracks
<1> HIDE DEF reply
<1>7. Remains(p) /\ GateAnswered(p, reply)
  BY <1>1, <1>3, GrowthKeepsGate
<1>8. Acts(p, reply)
  BY <1>1, <1>2, <1>3, <1>4, <1>5, <1>6, <1>7, OwnStep DEF MaybeVersion
<1> QED BY <1>8 DEF reply

LEMMA StoredActs ==
  ASSUME SyncInv, NEW p \in Peer, Stored(p)
  PROVE  Acts(p, IF GateOpen(p, doc[p], stored[p]) THEN Only(model[p]) ELSE OnDocPublishable(p, model[p]))
<1> DEFINE reply == IF GateOpen(p, doc[p], stored[p]) THEN Only(model[p]) ELSE OnDocPublishable(p, model[p])
<1>1. /\ doc[p] \in Version /\ InMemory(p) /\ stored' = [stored EXCEPT ![p] = doc[p]] /\ UNCHANGED <<doc, end, began>>
      /\ Run(p, reply, doc[p], doc[p], Silent, wire)
  BY KnowsOf DEF Stored, InMemory, MaybeVersion
<1>2. /\ doc'[p] = doc[p] /\ stored'[p] = doc[p]
      /\ \A x \in Peer \ {p} : stored'[x] = stored[x] /\ doc'[x] = doc[x]
  BY <1>1 DEF SyncInv, Inv, Types
<1>3. model[p] \in Model /\ Knows(model[p], doc[p])
  BY KnowsOf
<1>4. Answers(p, model[p], reply, {})
  BY <1>3, SameRecords, OnlyAnswers, OnDocPublishableAnswers
<1>5. Keeps(p, model[p], reply, doc[p], {}, {})
  BY <1>3, SameKeeps, OnDocPublishableKeeps
<1>6. reply.model.tracked = model[p].tracked
  BY <1>3, DocTracks DEF Only
<1>7. GateAnswered(p, reply)
  BY <1>2, <1>3, OnDocPublishableKeeps DEF GateAnswered, At
<1>8. Remains(p)
  BY <1>1, <1>2 DEF Remains, InMemory, Reaches, Version
<1> HIDE DEF reply
<1>9. Run(p, reply, doc'[p], stored'[p], Silent, wire)
  BY <1>1, <1>2
<1>10. Acts(p, reply)
  BY <1>1, <1>2, <1>4, <1>5, <1>6, <1>7, <1>8, <1>9, OwnStep DEF MaybeVersion
<1> QED BY <1>10 DEF reply

\* One that moves no document.
LEMMA InputActs ==
  ASSUME SyncInv, NEW p \in Peer, NEW reply, UNCHANGED doc, Input(p, reply), NEW Q, Answers(p, model[p], reply, Q),
         Keeps(p, model[p], reply, doc[p], {}, {}),
         \A x \in model[p].tracked : end[p][x] = "on" => x \in reply.model.tracked
  PROVE  Acts(p, reply)
<1>1. UNCHANGED <<doc, stored, end, began>> /\ Run(p, reply, doc'[p], stored'[p], Silent, wire)
  BY DEF Input
<1>2. /\ \A x \in Peer \ {p} : doc'[x] = doc[x] /\ stored'[x] = stored[x]
      /\ doc'[p] \in MaybeVersion /\ stored'[p] \in MaybeVersion /\ Remains(p)
      /\ GateAnswered(p, reply)
  BY <1>1, StaysPut
<1>3. Keeps(p, model[p], reply, doc'[p], {}, {})
  OBVIOUS
<1> QED BY <1>1, <1>2, <1>3, OwnStep

LEMMA UnloadingActs ==
  ASSUME SyncInv, NEW p \in Peer, NEW leaving \in BOOLEAN, UNCHANGED doc, Input(p, OnDocUnloading(p, model[p], leaving))
  PROVE  Acts(p, OnDocUnloading(p, model[p], leaving))
<1> DEFINE reply == OnDocUnloading(p, model[p], leaving)
<1>1. model[p] \in Model /\ Knows(model[p], doc[p]) /\ doc[p] \in MaybeVersion
  BY KnowsOf
<1>2. Answers(p, model[p], reply, {})
  BY <1>1, OnDocUnloadingAnswers
<1>3. Keeps(p, model[p], reply, doc[p], {}, {})
  BY <1>1, OnDocUnloadingKeeps
<1>4. reply.model.tracked = model[p].tracked
  BY <1>1, DocTracks
<1>5. Input(p, reply)
  OBVIOUS
<1> HIDE DEF reply
<1>6. Acts(p, reply)
  BY <1>2, <1>3, <1>4, <1>5, InputActs
<1> QED BY <1>6 DEF reply

LEMMA SuspendActs ==
  ASSUME SyncInv, NEW p \in Peer, Suspend(p) PROVE Acts(p, OnDocLeave(p, model[p], "suspend"))
<1>1. model[p] \in Model /\ Knows(model[p], doc[p]) /\ doc[p] \in MaybeVersion
  BY KnowsOf
<1>2. UNCHANGED doc /\ Input(p, OnDocLeave(p, model[p], "suspend")) /\ InMemory(p) /\ model[p].entry.mode = "held"
  BY DEF Suspend
<1>3. Keeps(p, model[p], OnDocLeave(p, model[p], "suspend"), doc[p], {}, {})
  BY <1>1, OnDocLeaveKeeps
<1> QED BY <1>1, <1>2, <1>3, InputActs, OnDocLeaveAnswers, DocTracks

LEMMA DepartedActs ==
  ASSUME SyncInv, NEW p \in Peer, NEW q \in Peer, Departed(p, q) PROVE Acts(p, OnPeerDeparted(model[p], q))
<1>1. model[p] \in Model /\ Knows(model[p], doc[p])
  BY KnowsOf
<1>2. UNCHANGED doc /\ Input(p, OnPeerDeparted(model[p], q)) /\ end[p][q] = "off"
  BY DEF Departed
<1>3. /\ Keeps(p, model[p], OnPeerDeparted(model[p], q), doc[p], {}, {})
      /\ OnPeerDeparted(model[p], q).model.tracked = model[p].tracked \ {q}
  BY <1>1, OnPeerDepartedKeeps
<1>4. Answers(p, model[p], OnPeerDeparted(model[p], q), {})
  BY <1>1, OnPeerDepartedAnswers
<1> QED BY <1>2, <1>3, <1>4, InputActs

LEMMA UnloadedActs ==
  ASSUME SyncInv, NEW p \in Peer, Unloaded(p) PROVE Acts(p, OnDocLeave(p, model[p], "unload"))
<1> DEFINE reply == OnDocLeave(p, model[p], "unload")
<1>1. /\ InMemory(p) /\ stored[p] = doc[p] /\ doc' = [doc EXCEPT ![p] = None]
      /\ UNCHANGED <<stored, end, began>> /\ Run(p, reply, doc'[p], stored[p], Silent, wire)
  BY DEF Unloaded, Input
<1>2. doc'[p] = None /\ \A x \in Peer \ {p} : doc'[x] = doc[x]
  BY <1>1 DEF SyncInv, Inv, Types
<1>3. model[p] \in Model /\ doc[p] \in MaybeVersion /\ stored[p] \in MaybeVersion
  BY KnowsOf
<1>4. Answers(p, model[p], reply, {}) /\ Keeps(p, model[p], reply, None, {}, {})
  BY <1>3, OnDocLeaveAnswers, OnDocLeaveKeeps
<1>5. reply.model.tracked = model[p].tracked
  BY <1>3, DocTracks
<1> HIDE DEF reply
<1>6. Remains(p) /\ GateAnswered(p, reply)
  BY <1>1, <1>2, <1>3 DEF Remains, GateAnswered, GateOpen, InMemory, Reaches, Version, MaybeVersion
<1>7. Acts(p, reply)
  BY <1>1, <1>2, <1>3, <1>4, <1>5, <1>6, OwnStep DEF MaybeVersion
<1> QED BY <1>7 DEF reply

LEMMA ResumeActs ==
  ASSUME SyncInv, NEW p \in Peer, Resume(p) PROVE Acts(p, OnDocEnsure(p, model[p], doc[p], FALSE))
<1> DEFINE reply == OnDocEnsure(p, model[p], doc[p], FALSE)
<1>1. /\ doc[p] \in Version /\ model[p].entry.mode = "absent" /\ UNCHANGED <<doc, stored, end, began>>
      /\ Run(p, reply, doc'[p], stored[p], Silent, wire)
  BY KnowsOf DEF Resume, Input, InMemory, MaybeVersion
<1>2. model[p] \in Model /\ Knows(model[p], doc[p])
  BY KnowsOf
<1>3. Answers(p, model[p], reply, {}) /\ Keeps(p, model[p], reply, doc[p], {}, {})
  BY <1>1, <1>2, OnDocEnsureAnswers, OnDocEnsureKeeps
<1>4. reply.model.tracked = model[p].tracked
  BY <1>2 DEF OnDocEnsure, Only, Saying, Model, SyncModel
<1> HIDE DEF reply
<1>5. /\ \A x \in Peer \ {p} : doc'[x] = doc[x] /\ stored'[x] = stored[x]
      /\ doc'[p] \in MaybeVersion /\ stored'[p] \in MaybeVersion /\ Remains(p)
      /\ GateAnswered(p, reply)
  BY <1>1, StaysPut
<1>6. Acts(p, reply)
  BY <1>1, <1>3, <1>4, <1>5, OwnStep
<1> QED BY <1>6 DEF reply

LEMMA DestroyActs ==
  ASSUME SyncInv, NEW p \in Peer, Destroy(p) PROVE Acts(p, OnDocLeave(p, model[p], "destroy"))
<1> DEFINE reply == OnDocLeave(p, model[p], "destroy")
<1>1. /\ doc' = [doc EXCEPT ![p] = None] /\ stored' = [stored EXCEPT ![p] = None]
      /\ UNCHANGED <<end, began>> /\ Run(p, reply, None, None, Silent, wire)
  BY DEF Destroy
<1>2. /\ doc'[p] = None /\ stored'[p] = None
      /\ \A x \in Peer \ {p} : doc'[x] = doc[x] /\ stored'[x] = stored[x]
  BY <1>1 DEF SyncInv, Inv, Types
<1>3. model[p] \in Model
  BY KnowsOf
<1>4. Answers(p, model[p], reply, {}) /\ Keeps(p, model[p], reply, None, {}, {})
  BY <1>3, OnDocLeaveAnswers, OnDocLeaveKeeps
<1>5. reply.model.tracked = model[p].tracked
  BY <1>3, DocTracks
<1> HIDE DEF reply
<1>6. Remains(p) /\ GateAnswered(p, reply)
  BY <1>2 DEF Remains, GateAnswered, GateOpen
<1>7. Run(p, reply, doc'[p], stored'[p], Silent, wire)
  BY <1>1, <1>2
<1>8. Acts(p, reply)
  BY <1>1, <1>2, <1>4, <1>5, <1>6, <1>7, OwnStep DEF MaybeVersion
<1> QED BY <1>8 DEF reply

-----------------------------------------------------------------------------
(* One lemma per action: the links.                                        *)

\* A step of the links moves no program and no document.
LEMMA LinksStill ==
  ASSUME SyncInv, UNCHANGED <<model, doc>>
  PROVE  SyncedArrived /\ \A a \in Peer : Knows(model[a], doc[a])'
BY DEF SyncedArrived, SyncInv, RecordsInv

\* It puts nothing on a wire but `establish`, alone.
LEMMA LinksRefused ==
  ASSUME SyncInv, \A a, b \in Peer : wire'[a][b] \in {wire[a][b], <<>>, <<Establish>>}
  PROVE  SendsNothingRefused
<1> SUFFICES ASSUME NEW a \in Peer, NEW b \in Peer
             PROVE  Cardinality(OffersOn(wire'[a][b])) <= Cardinality(OffersOn(wire[a][b]))
  BY DEF SendsNothingRefused, OffersOn
<1>1. Cardinality(OffersOn(wire[a][b])) \in Nat
  BY OffersFinite DEF SyncInv, Inv, Types
<1>2. OffersOn(<<>>) = {} /\ OffersOn(<<Establish>>) = {}
  BY DEF OffersOn, Establish
<1>3. wire'[a][b] = wire[a][b] \/ OffersOn(wire'[a][b]) = {}
  BY <1>2
<1>4. Cardinality({}) = 0
  BY FS_EmptySet
<1>5. CASE wire'[a][b] = wire[a][b]
  BY <1>1, <1>5
<1>6. CASE OffersOn(wire'[a][b]) = {}
  BY <1>1, <1>4, <1>6
<1> QED BY <1>3, <1>5, <1>6

\* a and b are the two ends of a link of p and q.
Between(a, b, p, q) == (a = p /\ b = q) \/ (a = q /\ b = p)

LEMMA SameWire ==
  ASSUME NEW a \in Peer, NEW b \in Peer, WireTrue(a, b),
         model'[a] = model[a], doc'[a] = doc[a], began'[a][b] = began[a][b],
         wire'[a][b] = wire[a][b], end'[a][b] = end[a][b], end'[b][a] = end[b][a]
  PROVE  WireTrue(a, b)'
<1> DEFINE r == wire[a][b]
<1>1. wire'[a][b] = r
  OBVIOUS
<1>2. \A i : Dismissing(a, b, i) <=> \E j \in DOMAIN r : j > i /\ r[j].type = "dismiss"
  BY DEF Dismissing
<1>3. ASSUME NEW i \in DOMAIN r
      PROVE  /\ r[i].type = "establish" => i = 1 /\ end[b][a] = "opening"
             /\ r[i].type # "establish" => end[a][b] = "on"
             /\ r[i].type \in {"interest", "accept"} =>
                  \/ model[a].entry.mode = "held" /\ Reaches(doc[a], Claim(r[i]))
                  \/ \E j \in DOMAIN r : j > i /\ r[j].type = "dismiss"
             /\ r[i].type \in {"interest", "offer"} => Reaches(r[i].version, began[a][b])
  BY <1>2 DEF WireTrue, Holds
<1> HIDE DEF r
<1> QED BY <1>1, <1>3 DEF WireTrue, Holds, Dismissing

LEMMA ConnectKept ==
  ASSUME SyncInv, NEW p \in Peer, NEW q \in Peer, p # q, Connect(p, q) PROVE Kept
<1>1. /\ end[p][q] = "off" /\ end[q][p] = "off" /\ UNCHANGED <<model, doc, stored, began>>
      /\ end' = [end EXCEPT ![p][q] = "opening", ![q][p] = "opening"]
      /\ wire' = [wire EXCEPT ![p][q] = <<Establish>>, ![q][p] = <<Establish>>]
  BY DEF Connect
<1>2. \A a, b \in Peer : /\ end'[a][b] = IF Between(a, b, p, q) THEN "opening" ELSE end[a][b]
                         /\ wire'[a][b] = IF Between(a, b, p, q) THEN <<Establish>> ELSE wire[a][b]
  BY <1>1 DEF Between, SyncInv, Inv, Types
<1>w. \A a, b \in Peer : wire'[a][b] \in {wire[a][b], <<>>, <<Establish>>}
  BY <1>2
<1>3. SyncedArrived /\ SendsNothingRefused /\ \A a \in Peer : Knows(model[a], doc[a])'
  BY <1>1, <1>w, LinksStill, LinksRefused
<1>4. \A a \in Peer : end'[a][a] = "off"
  BY <1>2 DEF Between, SyncInv, RecordsInv
<1>5. ASSUME NEW a \in Peer, NEW b \in Peer PROVE WireTrue(a, b)' /\ LinkTrue(a, b)' /\ HeldTrue(a, b)'
  <2>1. WireTrue(a, b) /\ LinkTrue(a, b) /\ HeldTrue(a, b)
    BY DEF SyncInv, RecordsInv
  <2>2. CASE Between(a, b, p, q)
    <3>1. end'[a][b] = "opening" /\ end'[b][a] = "opening" /\ wire'[a][b] = <<Establish>>
      BY <1>2, <2>2 DEF Between
    <3>2. WireTrue(a, b)'
      BY <3>1 DEF WireTrue, Establish
    <3> QED BY <3>1, <3>2 DEF LinkTrue, HeldTrue
  <2>3. CASE ~Between(a, b, p, q)
    <3>1. ~Between(b, a, p, q)
      BY <2>3 DEF Between
    <3>2. /\ end'[a][b] = end[a][b] /\ end'[b][a] = end[b][a]
          /\ wire'[a][b] = wire[a][b] /\ wire'[b][a] = wire[b][a]
      BY <1>2, <2>3, <3>1
    <3>3. WireTrue(a, b)'
      BY <1>1, <2>1, <3>2, SameWire
    <3>4. LinkTrue(a, b)'
      BY <1>1, <2>1, <3>2 DEF LinkTrue, InMemory
    <3>5. HeldTrue(a, b)'
      BY <1>1, <2>1, <3>2 DEF HeldTrue, At, Holds, Dismissing
    <3> QED BY <3>3, <3>4, <3>5
  <2> QED BY <2>2, <2>3
<1>6. OwedOnlyWhileHeld => OwedOnlyWhileHeld'
  BY <1>1, <1>2 DEF OwedOnlyWhileHeld, At, InMemory, GateOpen
<1> QED BY <1>3, <1>4, <1>5, <1>6 DEF Kept, RecordsInv

LEMMA DropKept ==
  ASSUME SyncInv, NEW p \in Peer, NEW q \in Peer, p # q, Drop(p, q) PROVE Kept
<1>1. /\ UNCHANGED <<model, doc, stored, began>>
      /\ end' = [end EXCEPT ![p][q] = Dead(@), ![q][p] = Dead(@)]
      /\ wire' = [wire EXCEPT ![p][q] = <<>>, ![q][p] = <<>>]
  BY DEF Drop
<1>2. \A a, b \in Peer : /\ end'[a][b] = IF Between(a, b, p, q) THEN Dead(end[a][b]) ELSE end[a][b]
                         /\ wire'[a][b] = IF Between(a, b, p, q) THEN <<>> ELSE wire[a][b]
  BY <1>1 DEF Between, SyncInv, Inv, Types
<1>w. \A a, b \in Peer : wire'[a][b] \in {wire[a][b], <<>>, <<Establish>>}
  BY <1>2
<1>3. SyncedArrived /\ SendsNothingRefused /\ \A a \in Peer : Knows(model[a], doc[a])'
  BY <1>1, <1>w, LinksStill, LinksRefused
<1>4. \A a \in Peer : end'[a][a] = "off"
  BY <1>2 DEF Between, SyncInv, RecordsInv
<1>d. \A e : Dead(e) \notin {"on", "opening"} /\ (Dead(e) = "broken" => e \in {"on", "broken"})
  BY DEF Dead
<1>5. ASSUME NEW a \in Peer, NEW b \in Peer PROVE WireTrue(a, b)' /\ LinkTrue(a, b)' /\ HeldTrue(a, b)'
  <2>1. WireTrue(a, b) /\ LinkTrue(a, b) /\ HeldTrue(a, b)
    BY DEF SyncInv, RecordsInv
  <2>2. CASE Between(a, b, p, q)
    <3>1. end'[a][b] \notin {"on", "opening"} /\ end'[b][a] \notin {"on", "opening"} /\ wire'[a][b] = <<>>
      BY <1>2, <1>d, <2>2 DEF Between
    <3>2. WireTrue(a, b)'
      BY <3>1 DEF WireTrue
    <3> QED BY <3>1, <3>2 DEF LinkTrue, HeldTrue
  <2>3. CASE ~Between(a, b, p, q)
    <3>1. ~Between(b, a, p, q)
      BY <2>3 DEF Between
    <3>2. /\ end'[a][b] = end[a][b] /\ end'[b][a] = end[b][a]
          /\ wire'[a][b] = wire[a][b] /\ wire'[b][a] = wire[b][a]
      BY <1>2, <2>3, <3>1
    <3>3. WireTrue(a, b)'
      BY <1>1, <2>1, <3>2, SameWire
    <3>4. LinkTrue(a, b)'
      BY <1>1, <2>1, <3>2 DEF LinkTrue, InMemory
    <3>5. HeldTrue(a, b)'
      BY <1>1, <2>1, <3>2 DEF HeldTrue, At, Holds, Dismissing
    <3> QED BY <3>3, <3>4, <3>5
  <2> QED BY <2>2, <2>3
<1>6. OwedOnlyWhileHeld => OwedOnlyWhileHeld'
  <2>1. \A a, b \in Peer : end'[a][b] \in {"on", "broken"} => end[a][b] \in {"on", "broken"}
    BY <1>2, <1>d
  <2> QED BY <1>1, <2>1 DEF OwedOnlyWhileHeld, At, InMemory, GateOpen
<1> QED BY <1>3, <1>4, <1>5, <1>6 DEF Kept, RecordsInv

LEMMA NoticedKept ==
  ASSUME SyncInv, NEW p \in Peer, NEW q \in Peer, Noticed(p, q) PROVE Kept
<1>1. end[p][q] = "broken" /\ end' = [end EXCEPT ![p][q] = "off"] /\ UNCHANGED <<model, doc, stored, began, wire>>
  BY DEF Noticed
<1>2. \A a, b \in Peer : end'[a][b] = IF a = p /\ b = q THEN "off" ELSE end[a][b]
  BY <1>1 DEF SyncInv, Inv, Types
<1>3. SyncedArrived /\ SendsNothingRefused /\ \A a \in Peer : Knows(model[a], doc[a])'
  BY <1>1, LinksStill, LinksRefused
<1>4. \A a \in Peer : end'[a][a] = "off"
  BY <1>2 DEF Between, SyncInv, RecordsInv
<1>5. ASSUME NEW a \in Peer, NEW b \in Peer PROVE WireTrue(a, b)' /\ LinkTrue(a, b)' /\ HeldTrue(a, b)'
  <2>1. WireTrue(a, b) /\ LinkTrue(a, b) /\ HeldTrue(a, b)
    BY DEF SyncInv, RecordsInv
  <2>2. /\ end'[a][b] = "on" <=> end[a][b] = "on"
        /\ end'[b][a] = "on" <=> end[b][a] = "on"
        /\ end'[b][a] = "opening" <=> end[b][a] = "opening"
    BY <1>1, <1>2
  <2>3. WireTrue(a, b)'
    BY <1>1, <2>1, <2>2 DEF WireTrue, Holds, Dismissing
  <2>4. LinkTrue(a, b)'
    BY <1>1, <2>1, <2>2 DEF LinkTrue, InMemory
  <2>5. HeldTrue(a, b)'
    BY <1>1, <2>1, <2>2 DEF HeldTrue, At, Holds, Dismissing
  <2> QED BY <2>3, <2>4, <2>5
<1>6. OwedOnlyWhileHeld => OwedOnlyWhileHeld'
  BY <1>1, <1>2 DEF OwedOnlyWhileHeld, At, InMemory, GateOpen
<1> QED BY <1>3, <1>4, <1>5, <1>6 DEF Kept, RecordsInv

LEMMA InitSyncKnows == Knows(initSync, None) /\ \A x \in Peer : initSync.docs[x] = Unknown
BY DEF initSync, Knows, EntryFits, Owes, QuotesHeld, Unknown, Absent

\* Nothing is recorded at p, and nobody has a live link to it.
LEMMA CrashKept == ASSUME SyncInv, NEW p \in Peer, Crash(p) PROVE Kept
<1>1. /\ UNCHANGED <<stored, began>>
      /\ \A a \in Peer : /\ model'[a] = IF a = p THEN initSync ELSE model[a]
                         /\ doc'[a] = IF a = p THEN None ELSE doc[a]
      /\ \A a, b \in Peer : /\ end'[a][b] = IF a = p THEN "off" ELSE IF b = p THEN Dead(end[a][b]) ELSE end[a][b]
                            /\ wire'[a][b] = IF p \in {a, b} THEN <<>> ELSE wire[a][b]
  BY DEF Crash, SyncInv, Inv, Types
<1>2. \A a \in Peer : Knows(model'[a], doc'[a]) /\ end'[a][a] = "off"
  BY <1>1, InitSyncKnows DEF SyncInv, RecordsInv
<1>d. \A e : Dead(e) \notin {"on", "opening"} /\ (Dead(e) = "broken" => e \in {"on", "broken"})
  BY DEF Dead
<1>3. ASSUME NEW a \in Peer, NEW b \in Peer PROVE WireTrue(a, b)' /\ LinkTrue(a, b)' /\ HeldTrue(a, b)'
  <2>1. WireTrue(a, b) /\ LinkTrue(a, b) /\ HeldTrue(a, b)
    BY DEF SyncInv, RecordsInv
  <2>2. CASE p \in {a, b}
    <3>1. end'[a][b] \notin {"on", "opening"} /\ end'[b][a] \notin {"on", "opening"} /\ wire'[a][b] = <<>>
      BY <1>1, <1>d, <2>2
    <3>2. WireTrue(a, b)'
      BY <3>1 DEF WireTrue
    <3> QED BY <3>1, <3>2 DEF LinkTrue, HeldTrue
  <2>3. CASE p \notin {a, b}
    <3>1. /\ end'[a][b] = end[a][b] /\ end'[b][a] = end[b][a] /\ wire'[a][b] = wire[a][b] /\ wire'[b][a] = wire[b][a]
          /\ model'[a] = model[a] /\ doc'[a] = doc[a] /\ model'[b] = model[b] /\ doc'[b] = doc[b]
      BY <1>1, <2>3
    <3>2. WireTrue(a, b)'
      BY <1>1, <2>1, <3>1, SameWire
    <3>3. LinkTrue(a, b)'
      BY <1>1, <2>1, <3>1 DEF LinkTrue, InMemory
    <3>4. HeldTrue(a, b)'
      BY <2>1, <3>1 DEF HeldTrue, At, Holds, Dismissing
    <3> QED BY <3>2, <3>3, <3>4
  <2> QED BY <2>2, <2>3
<1>4. OwedOnlyWhileHeld => OwedOnlyWhileHeld'
  <2> SUFFICES ASSUME OwedOnlyWhileHeld, NEW a \in Peer, NEW b \in Peer,
                      model'[a].docs[b].owed # None, ~model'[a].docs[b].refuses, b \in Shares[a],
                      end'[a][b] \in {"on", "broken"}, doc'[a] # None, GateOpen(a, doc'[a], stored[a])
               PROVE  FALSE
    BY <1>1 DEF OwedOnlyWhileHeld, At, InMemory, GateOpen
  <2>1. a # p
    BY <1>1
  <2>2. end[a][b] \in {"on", "broken"}
    BY <1>1, <1>d, <2>1
  <2> QED BY <1>1, <2>1, <2>2 DEF OwedOnlyWhileHeld, At, InMemory
<1>5. SendsNothingRefused
  <2>1. \A a, b \in Peer : wire'[a][b] \in {wire[a][b], <<>>, <<Establish>>}
    BY <1>1
  <2> QED BY <2>1, LinksRefused
<1>6. SyncedArrived
  BY <1>1, InitSyncKnows DEF SyncedArrived, Unknown
<1> QED BY <1>2, <1>3, <1>4, <1>5, <1>6 DEF Kept, RecordsInv

-----------------------------------------------------------------------------
(* One lemma per action: the messages.                                     *)

\* The inputs from messages track the same peers.
LEMMA MessageTracks ==
  ASSUME NEW p \in Peer, NEW q \in Peer, NEW m \in Model
  PROVE  /\ OnPresent(p, m, q).model.tracked = m.tracked
         /\ OnDocDefer(p, m).model.tracked = m.tracked
         /\ OnDeclareVacant(m, q).model.tracked = m.tracked
         /\ \A i : OnInterest(p, m, q, i).model.tracked = m.tracked
         /\ OnOfferVetoed(p, m, q).model.tracked = m.tracked
         /\ \A v : OnAccept(m, q, v).model.tracked = m.tracked
         /\ OnRefuse(m, q).model.tracked = m.tracked
         /\ OnDismiss(m, q).model.tracked = m.tracked
         /\ OnVacant(m, q).model.tracked = m.tracked
<1>1. OnPresent(p, m, q).model.tracked = m.tracked
  BY ReloadSame DEF OnPresent, Only, Saying
<1>2. OnDocDefer(p, m).model.tracked = m.tracked /\ OnDeclareVacant(m, q).model.tracked = m.tracked
      /\ OnOfferVetoed(p, m, q).model.tracked = m.tracked
  BY DEF OnDocDefer, OnDeclareVacant, OnOfferVetoed, Only, Saying, Model, SyncModel
<1>3. \A r : SetPeerDoc(m, q, r).tracked = m.tracked
  BY DEF SetPeerDoc, Model, SyncModel
<1>4. ASSUME NEW i PROVE OnInterest(p, m, q, i).model.tracked = m.tracked
  BY <1>3, ReloadSame DEF OnInterest, Only, Saying
<1>5. ASSUME NEW v PROVE OnAccept(m, q, v).model.tracked = m.tracked
  BY <1>3 DEF OnAccept, Only
<1>6. OnRefuse(m, q).model.tracked = m.tracked /\ OnVacant(m, q).model.tracked = m.tracked
  BY <1>3 DEF OnRefuse, OnVacant, Only
<1>7. OnDismiss(m, q).model.tracked = m.tracked
  BY DEF OnDismiss, Only, Model, SyncModel
<1> QED BY <1>1, <1>2, <1>4, <1>5, <1>6, <1>7

\* A step that takes a message, not `establish`.
LEMMA TakeStep ==
  ASSUME SyncInv, NEW p \in Peer, NEW q \in Peer, p # q, NEW t, Arrives(p, q, t), t # "establish",
         NEW reply, NEW Q, Answers(p, model[p], reply, Q),
         Keeps(p, model[p], reply, doc'[p], Claims(q, t, Head(wire[q][p])), States(q, t, Head(wire[q][p]))),
         NEW first, \A x \in Peer : first[x] \in Seq(Said(p, x)) /\ first[x] \in Seq(New(reply.model, doc'[p])),
         Run(p, reply, doc'[p], stored'[p], first, Taken(p, q)), UNCHANGED <<stored, end, began>>,
         \A x \in Peer \ {p} : doc'[x] = doc[x], doc'[p] \in MaybeVersion, Remains(p), GateAnswered(p, reply),
         reply.model.tracked = model[p].tracked,
         t = "dismiss" /\ q \in model[p].tracked => reply.model.docs[q].held = None
  PROVE  Reads(p, q, t, reply, first)
<1> DEFINE msg == Head(wire[q][p])
           C == Claims(q, t, msg)
           V == States(q, t, msg)
           w == Taken(p, q)
<1>1. wire[q][p] # <<>> /\ msg.type = t
  BY DEF Arrives
<1>2. TakesHead(p, q, reply, w, C, V)
  BY <1>1 DEF TakesHead, Claims, States
<1>3. Answers(p, model[p], reply, Peer)
  BY AnswersAny
<1>4. stored'[p] \in MaybeVersion /\ \A x \in Peer : stored'[x] = stored[x]
  BY KnowsOf
<1>5. Keeps(p, model[p], reply, doc'[p], C, V) /\ Run(p, reply, doc'[p], stored'[p], first, w)
  OBVIOUS
<1> HIDE DEF w, C, V
<1>6. Step(p, q, reply, first, w, C, V)
  BY <1>2, <1>3, <1>4, <1>5 DEF Step, GateAnswered
<1> QED BY <1>6 DEF Reads, w, C, V

\* One that moves neither the document nor the store.
LEMMA ReceiveReads ==
  ASSUME SyncInv, NEW p \in Peer, NEW q \in Peer, p # q, NEW t, t # "establish", NEW reply, Receive(p, q, t, reply),
         NEW Q, Answers(p, model[p], reply, Q),
         Keeps(p, model[p], reply, doc[p], Claims(q, t, Head(wire[q][p])), States(q, t, Head(wire[q][p]))),
         reply.model.tracked = model[p].tracked,
         t = "dismiss" /\ q \in model[p].tracked => reply.model.docs[q].held = None
  PROVE  Reads(p, q, t, reply, Silent)
<1>1. /\ Arrives(p, q, t) /\ UNCHANGED <<doc, stored, end, began>>
      /\ Run(p, reply, doc'[p], stored'[p], Silent, Taken(p, q))
  BY DEF Receive
<1>2. \A x \in Peer : Silent[x] \in Seq(Said(p, x)) /\ Silent[x] \in Seq(New(reply.model, doc'[p]))
  BY SilentFirst
<1>3. Keeps(p, model[p], reply, doc'[p], Claims(q, t, Head(wire[q][p])), States(q, t, Head(wire[q][p])))
  BY <1>1
<1>4. /\ \A x \in Peer \ {p} : doc'[x] = doc[x]
      /\ doc'[p] \in MaybeVersion /\ Remains(p) /\ GateAnswered(p, reply)
  BY <1>1, StaysPut
<1> QED BY <1>1, <1>2, <1>3, <1>4, TakeStep

LEMMA ReceivePresentReads ==
  ASSUME SyncInv, NEW p \in Peer, NEW q \in Peer, p # q, ReceivePresent(p, q)
  PROVE  \E answer : Reads(p, q, "present", Resolved(p, q, answer), Silent)
<1>1. PICK answer \in Resolve[p] : Receive(p, q, "present", Resolved(p, q, answer))
  BY DEF ReceivePresent
<1> DEFINE m == model[p]
           reply == Resolved(p, q, answer)
           C == Claims(q, "present", Head(wire[q][p]))
           V == States(q, "present", Head(wire[q][p]))
<1>2. Knows(m, doc[p]) /\ m \in Model /\ doc[p] \in MaybeVersion
  BY KnowsOf
<1> HIDE DEF m
<1>3. \/ reply = OnPresent(p, m, q)
      \/ doc[p] = None /\ reply = OnDocDefer(p, m)
      \/ reply = OnDeclareVacant(m, q)
  BY DEF Resolved, InMemory, m
<1> HIDE DEF reply, C, V
<1>4. Answers(p, m, reply, {})
  BY <1>2, <1>3, OnPresentAnswers, OnDocDeferAnswers, OnDeclareVacantAnswers
<1>5. Keeps(p, m, reply, doc[p], C, V)
  BY <1>2, <1>3, OnPresentKeeps, OnDocDeferKeeps, OnDeclareVacantKeeps
<1>6. reply.model.tracked = m.tracked
  BY <1>2, <1>3, MessageTracks
<1>7. Reads(p, q, "present", reply, Silent)
  BY <1>1, <1>4, <1>5, <1>6, ReceiveReads DEF m, reply, C, V
<1> QED BY <1>7 DEF reply

LEMMA ReceiveInterestReads ==
  ASSUME SyncInv, NEW p \in Peer, NEW q \in Peer, p # q, ReceiveInterest(p, q)
  PROVE  LET i == Head(wire[q][p])
             reply == OnInterest(p, model[p], q, i)
             synced == [reply EXCEPT !.model = OnPeerSynced(@, q, i.version)]
         IN  i \in Interest /\ (Reads(p, q, "interest", reply, Silent) \/ Reads(p, q, "interest", synced, Silent))
<1> DEFINE i == Head(wire[q][p])
           m == model[p]
           reply == OnInterest(p, m, q, i)
           synced == [reply EXCEPT !.model = OnPeerSynced(@, q, i.version)]
           C == Claims(q, "interest", i)
           V == States(q, "interest", i)
<1>1. Arrives(p, q, "interest")
  BY DEF ReceiveInterest
<1>2. i \in Interest /\ i.type = "interest" /\ i.version \in Version
  BY <1>1, HeadFits DEF Message, Interest, SyncInv
<1>3. \/ Receive(p, q, "interest", reply)
      \/ /\ Receive(p, q, "interest", synced)
         /\ m.entry.mode = "held" /\ Reaches(doc[p], i.version)
  BY DEF ReceiveInterest
<1>4. Knows(m, doc[p]) /\ m \in Model /\ doc[p] \in MaybeVersion
  BY KnowsOf
<1>5. <<q, TheyHold(i)>> \in C /\ <<q, i.version>> \in V
  BY <1>2 DEF Claims, States, Claim
<1> HIDE DEF C, V, i, m
<1>6. Answers(p, m, reply, {q}) /\ reply \in Reply
  BY <1>2, <1>4, OnInterestAnswers DEF Answers
<1>7. Keeps(p, m, reply, doc[p], C, V)
  BY <1>2, <1>4, <1>5, OnInterestKeeps
<1>8. reply.model.tracked = m.tracked
  BY <1>4, MessageTracks
<1> HIDE DEF reply
<1>9. ASSUME Receive(p, q, "interest", reply) PROVE Reads(p, q, "interest", reply, Silent)
  BY <1>6, <1>7, <1>8, <1>9, ReceiveReads DEF m, C, V, i
<1>10. ASSUME Receive(p, q, "interest", synced), m.entry.mode = "held", Reaches(doc[p], i.version)
       PROVE  Reads(p, q, "interest", synced, Silent)
  <2>1. doc[p] # None
    BY <1>4, <1>10 DEF Knows, EntryFits
  <2>2. Answers(p, m, synced, {q})
    BY <1>2, <1>4, <1>6, SyncedAnswers
  <2>3. Keeps(p, m, synced, doc[p], C, V)
    BY <1>2, <1>4, <1>5, <1>6, <1>7, <1>10, <2>1, SyncedKeeps
  <2>4. synced.model.tracked = m.tracked
    <3>1. synced.model = OnPeerSynced(reply.model, q, i.version) /\ reply.model \in Model
      BY <1>6 DEF Reply
    <3> QED BY <1>8, <3>1, PeerSyncedTracks
  <2> HIDE DEF synced
  <2> QED BY <1>10, <2>2, <2>3, <2>4, ReceiveReads DEF m, C, V, i
<1> HIDE DEF synced
<1>11. i \in Interest /\ (Reads(p, q, "interest", reply, Silent) \/ Reads(p, q, "interest", synced, Silent))
  BY <1>2, <1>3, <1>9, <1>10
<1> QED BY <1>11 DEF synced, reply, i, m

LEMMA ReceiveRecordReads ==
  ASSUME SyncInv, NEW p \in Peer, NEW q \in Peer, p # q
  PROVE  /\ ReceiveAccept(p, q) => Head(wire[q][p]).version \in Version
                                  /\ Reads(p, q, "accept", OnAccept(model[p], q, Head(wire[q][p]).version), Silent)
         /\ ReceiveRefuse(p, q) => Reads(p, q, "refuse", OnRefuse(model[p], q), Silent)
         /\ ReceiveDismiss(p, q) => Reads(p, q, "dismiss", OnDismiss(model[p], q), Silent)
         /\ ReceiveVacant(p, q) => Reads(p, q, "vacant", OnVacant(model[p], q), Silent)
<1> DEFINE msg == Head(wire[q][p])
<1>1. Knows(model[p], doc[p]) /\ model[p] \in Model
  BY KnowsOf
<1>2. ASSUME ReceiveAccept(p, q)
      PROVE  msg.version \in Version /\ Reads(p, q, "accept", OnAccept(model[p], q, msg.version), Silent)
  <2>1. Receive(p, q, "accept", OnAccept(model[p], q, msg.version)) /\ Arrives(p, q, "accept")
    BY <1>2 DEF ReceiveAccept, Receive
  <2>2. msg.version \in Version /\ msg.type = "accept"
    BY <2>1, HeadFits DEF Message, SyncInv
  <2>3. <<q, msg.version>> \in Claims(q, "accept", msg)
    BY <2>2 DEF Claims, Claim
  <2> HIDE DEF msg
  <2>4. Keeps(p, model[p], OnAccept(model[p], q, msg.version), doc[p], Claims(q, "accept", msg), States(q, "accept", msg))
    BY <1>1, <2>2, <2>3, OnAcceptKeeps
  <2>5. Answers(p, model[p], OnAccept(model[p], q, msg.version), {})
    BY <1>1, <2>2, OnAcceptAnswers
  <2>6. OnAccept(model[p], q, msg.version).model.tracked = model[p].tracked
    BY <1>1, MessageTracks
  <2> QED BY <2>1, <2>2, <2>4, <2>5, <2>6, ReceiveReads DEF msg
<1>3. ASSUME ReceiveRefuse(p, q) PROVE Reads(p, q, "refuse", OnRefuse(model[p], q), Silent)
  <2>1. Receive(p, q, "refuse", OnRefuse(model[p], q))
    BY <1>3 DEF ReceiveRefuse
  <2>2. Answers(p, model[p], OnRefuse(model[p], q), {})
    BY <1>1, OnRefuseAnswers
  <2>3. Keeps(p, model[p], OnRefuse(model[p], q), doc[p], Claims(q, "refuse", msg), States(q, "refuse", msg))
    BY <1>1, OnRefuseKeeps
  <2>4. OnRefuse(model[p], q).model.tracked = model[p].tracked
    BY <1>1, MessageTracks
  <2> QED BY <2>1, <2>2, <2>3, <2>4, ReceiveReads
<1>4. ASSUME ReceiveDismiss(p, q) PROVE Reads(p, q, "dismiss", OnDismiss(model[p], q), Silent)
  <2>1. Receive(p, q, "dismiss", OnDismiss(model[p], q))
    BY <1>4 DEF ReceiveDismiss
  <2>2. Answers(p, model[p], OnDismiss(model[p], q), {})
    BY <1>1, OnDismissAnswers
  <2>3. Keeps(p, model[p], OnDismiss(model[p], q), doc[p], Claims(q, "dismiss", msg), States(q, "dismiss", msg))
    BY <1>1, OnDismissKeeps
  <2>4. OnDismiss(model[p], q).model.tracked = model[p].tracked
    BY <1>1, MessageTracks
  <2>5. q \in model[p].tracked => OnDismiss(model[p], q).model.docs[q].held = None
    BY <1>1, OnDismissKeeps
  <2> QED BY <2>1, <2>2, <2>3, <2>4, <2>5, ReceiveReads
<1>5. ASSUME ReceiveVacant(p, q) PROVE Reads(p, q, "vacant", OnVacant(model[p], q), Silent)
  <2>1. Receive(p, q, "vacant", OnVacant(model[p], q))
    BY <1>5 DEF ReceiveVacant
  <2>2. Answers(p, model[p], OnVacant(model[p], q), {})
    BY <1>1, OnVacantAnswers
  <2>3. Keeps(p, model[p], OnVacant(model[p], q), doc[p], Claims(q, "vacant", msg), States(q, "vacant", msg))
    BY <1>1, OnVacantKeeps
  <2>4. OnVacant(model[p], q).model.tracked = model[p].tracked
    BY <1>1, MessageTracks
  <2> QED BY <2>1, <2>2, <2>3, <2>4, ReceiveReads
<1> QED BY <1>2, <1>3, <1>4, <1>5

\* An offer taken in, merged, vetoed, or passed over.
LEMMA ImportTracks ==
  ASSUME NEW p \in Peer, NEW m \in Model, NEW q \in Peer, NEW v, NEW changed, NEW offered, NEW will
  PROVE  OnDocImported(p, m, q, v, changed, offered, will).model.tracked = m.tracked
<1> DEFINE bumped == [m EXCEPT !.entry.version = v]
<1>1. bumped.tracked = m.tracked
  BY DEF Model, SyncModel
<1>2. \A n, e : Push(p, n, e).model = [n EXCEPT !.docs = Push(p, n, e).model.docs]
  BY DEF Push, Offering
<1>3. Push(p, bumped, {q}).model.tracked = m.tracked /\ Only(bumped).model.tracked = m.tracked
  BY DEF Push, Offering, Only, Model, SyncModel
<1>4. \A n, r : SetPeerDoc(n, q, r).tracked = n.tracked
  BY DEF SetPeerDoc
<1> QED BY <1>3, <1>4 DEF OnDocImported, Only, Offering

LEMMA ImportHeld ==
  ASSUME NEW p \in Peer, NEW m \in Model, NEW q \in Peer, NEW v, NEW changed, NEW offered, NEW will, m.entry.mode = "held"
  PROVE  OnDocImported(p, m, q, v, changed, offered, will).model.entry.mode = "held"
<1> DEFINE bumped == [m EXCEPT !.entry.version = v]
<1>1. bumped.entry.mode = "held"
  BY DEF Model, SyncModel, Entry
<1>2. Push(p, bumped, {q}).model.entry = bumped.entry /\ Only(bumped).model.entry = bumped.entry
  BY DEF Push, Offering, Only, Model, SyncModel
<1>3. \A n, r : SetPeerDoc(n, q, r).entry = n.entry
  BY DEF SetPeerDoc
<1> QED BY <1>1, <1>2, <1>3 DEF OnDocImported, Only, Offering

\* p accepts version v of q's, which its document reaches.
LEMMA AcceptFirst ==
  ASSUME NEW p \in Peer, NEW Q, NEW v \in Version, NEW n, NEW d, Q \cap Peer \subseteq Shares[p],
         n.entry.mode = "held", d # None, Reaches(d, v)
  PROVE  LET first == To(Q, <<Accept(v)>>)
         IN  \A x \in Peer : first[x] \in Seq(Said(p, x)) /\ first[x] \in Seq(New(n, d))
<1>1. \A x \in Q \cap Peer : <<Accept(v)>> \in Seq(Said(p, x))
  BY SimpleMessages, OneSaid
<1>2. Accept(v) \in New(n, d)
  BY DEF New, Accept, Message, Claim
<1>3. \A x \in Q \cap Peer : <<Accept(v)>> \in Seq(New(n, d))
  BY <1>2, OneSeq
<1> QED BY <1>1, <1>3, ToSaid, ToNew

\* The reply to the offer o from q, the document then at d, and what the shell itself says.
Offered(p, q, o, d, reply, first) ==
  LET m == model[p]
      accept == To(IF q \in Shares[p] /\ ~(q \notin Accepts[p]) THEN {q} ELSE {}, <<Accept(o.version)>>)
      baseline == m.docs[q].will
      will == IF baseline = None THEN o.version ELSE Join(baseline, o.version)
  IN  \/ reply = Only(m) /\ first = Silent /\ d = doc[p] /\ (q \notin m.tracked \/ ~TakesIn(m))
      \/ reply = Only(OnPeerSynced(m, q, o.version)) /\ first = accept /\ d = doc[p] /\ Reaches(d, o.version)
      \/ reply = OnOfferVetoed(p, m, q) /\ first = Silent /\ d = doc[p] /\ q \notin Accepts[p]
      \/ /\ reply = OnDocImported(p, m, q, d, d # doc[p], o.version, will)
         /\ first = (IF Reaches(d, o.version) THEN accept ELSE Silent)
         /\ d \in Merged(doc[p], o.from, o.version) /\ d \in Version /\ doc[p] \in Version /\ TakesIn(m)
         /\ q \in m.tracked

LEMMA ReceiveOfferReads ==
  ASSUME SyncInv, NEW p \in Peer, NEW q \in Peer, p # q, ReceiveOffer(p, q)
  PROVE  \E reply, first : Reads(p, q, "offer", reply, first) /\ Offered(p, q, Head(wire[q][p]), doc'[p], reply, first)
<1> DEFINE o == Head(wire[q][p])
           m == model[p]
           vetoed == q \notin Accepts[p]
           Q == IF q \in Shares[p] /\ ~vetoed THEN {q} ELSE {}
           accept == To(Q, <<Accept(o.version)>>)
           baseline == m.docs[q].will
           will == IF baseline = None THEN o.version ELSE Join(baseline, o.version)
           C == Claims(q, "offer", o)
           V == States(q, "offer", o)
           Goal == \E reply, first : Reads(p, q, "offer", reply, first) /\ Offered(p, q, o, doc'[p], reply, first)
<1>1. Arrives(p, q, "offer") /\ UNCHANGED <<stored, end, began>>
  BY DEF ReceiveOffer
<1>2. o.version \in Version /\ o.from \in Version /\ Safe(o.version, stored) /\ p \in Shares[q] /\ q \in Shares[p]
  BY <1>1, HeadFits DEF Message, SyncInv
<1>3. m \in Model /\ Knows(m, doc[p]) /\ doc[p] \in MaybeVersion /\ stored[p] \in MaybeVersion
  BY KnowsOf
<1>4. will \in Version
  BY <1>2, <1>3, ModelFacts, VersionFacts
<1>5. TakesIn(m) => InMemory(p) /\ m.entry.mode = "held"
  BY <1>3 DEF TakesIn, Knows, EntryFits, InMemory
<1>6. <<q, o.version>> \in V /\ Q \cap Peer \subseteq Shares[p]
  BY <1>2 DEF States
<1>7. \/ /\ q \notin m.tracked \/ ~TakesIn(m)
         /\ UNCHANGED doc /\ Run(p, Only(m), doc[p], stored[p], Silent, Taken(p, q))
      \/ /\ TakesIn(m) /\ Reaches(doc[p], o.version) /\ UNCHANGED doc
         /\ Run(p, Only(OnPeerSynced(m, q, o.version)), doc[p], stored[p], accept, Taken(p, q))
      \/ UNCHANGED doc /\ Run(p, OnOfferVetoed(p, m, q), doc[p], stored[p], Silent, Taken(p, q)) /\ q \notin Accepts[p]
      \/ /\ TakesIn(m) /\ q \in m.tracked
         /\ \E d \in Merged(doc[p], o.from, o.version) :
              /\ doc' = [doc EXCEPT ![p] = d]
              /\ Run(p, OnDocImported(p, m, q, d, d # doc[p], o.version, will), d, stored[p],
                     IF Reaches(d, o.version) THEN accept ELSE Silent, Taken(p, q))
  BY DEF ReceiveOffer
<1>o. \A d, reply, first : Offered(p, q, o, d, reply, first) <=>
        \/ reply = Only(m) /\ first = Silent /\ d = doc[p] /\ (q \notin m.tracked \/ ~TakesIn(m))
        \/ reply = Only(OnPeerSynced(m, q, o.version)) /\ first = accept /\ d = doc[p] /\ Reaches(d, o.version)
        \/ reply = OnOfferVetoed(p, m, q) /\ first = Silent /\ d = doc[p] /\ q \notin Accepts[p]
        \/ /\ reply = OnDocImported(p, m, q, d, d # doc[p], o.version, will)
           /\ first = (IF Reaches(d, o.version) THEN accept ELSE Silent)
           /\ d \in Merged(doc[p], o.from, o.version) /\ d \in Version /\ doc[p] \in Version /\ TakesIn(m)
           /\ q \in m.tracked
  BY DEF Offered
<1> HIDE DEF o, will, vetoed, C, V, m, Q
<1>8. ASSUME UNCHANGED doc, NEW reply, Answers(p, m, reply, {}), Keeps(p, m, reply, doc[p], C, V), NEW first,
             \A x \in Peer : first[x] \in Seq(Said(p, x)) /\ first[x] \in Seq(New(reply.model, doc[p])),
             Run(p, reply, doc[p], stored[p], first, Taken(p, q)), reply.model.tracked = m.tracked
      PROVE  Reads(p, q, "offer", reply, first)
  <2>1. /\ \A x \in Peer \ {p} : doc'[x] = doc[x]
        /\ doc'[p] \in MaybeVersion /\ Remains(p) /\ GateAnswered(p, reply)
    BY <1>1, <1>8, StaysPut
  <2>2. /\ Run(p, reply, doc'[p], stored'[p], first, Taken(p, q))
        /\ \A x \in Peer : first[x] \in Seq(Said(p, x)) /\ first[x] \in Seq(New(reply.model, doc'[p]))
        /\ Keeps(p, model[p], reply, doc'[p], Claims(q, "offer", Head(wire[q][p])), States(q, "offer", Head(wire[q][p])))
    BY <1>1, <1>8 DEF C, V, m, o
  <2>3. Answers(p, model[p], reply, {}) /\ reply.model.tracked = model[p].tracked
    BY <1>8 DEF m
  <2>4. \A x \in Peer : first[x] \in Seq(Said(p, x)) /\ first[x] \in Seq(New(reply.model, doc'[p]))
    BY <2>2
  <2>5. "offer" # "establish" /\ "offer" # "dismiss"
    OBVIOUS
  <2> QED BY <1>1, <2>1, <2>2, <2>3, <2>4, <2>5, TakeStep
<1>9. ASSUME q \notin m.tracked \/ ~TakesIn(m), UNCHANGED doc, Run(p, Only(m), doc[p], stored[p], Silent, Taken(p, q))
      PROVE  Goal
  <2>1. Answers(p, m, Only(m), {}) /\ Keeps(p, m, Only(m), doc[p], C, V) /\ Only(m).model.tracked = m.tracked
    BY <1>3, SameRecords, OnlyAnswers, SameKeeps DEF Only
  <2>2. \A x \in Peer : Silent[x] \in Seq(Said(p, x)) /\ Silent[x] \in Seq(New(Only(m).model, doc[p]))
    BY SilentFirst
  <2>3. Reads(p, q, "offer", Only(m), Silent)
    BY <1>8, <1>9, <2>1, <2>2
  <2>4. Offered(p, q, o, doc'[p], Only(m), Silent)
    BY <1>9, <1>o
  <2> QED BY <2>3, <2>4
<1>10. ASSUME UNCHANGED doc, Run(p, OnOfferVetoed(p, m, q), doc[p], stored[p], Silent, Taken(p, q)), q \notin Accepts[p]
       PROVE  Goal
  <2>1. /\ Answers(p, m, OnOfferVetoed(p, m, q), {}) /\ Keeps(p, m, OnOfferVetoed(p, m, q), doc[p], C, V)
        /\ OnOfferVetoed(p, m, q).model.tracked = m.tracked
    BY <1>3, OnOfferVetoedAnswers, OnOfferVetoedKeeps, MessageTracks
  <2>2. \A x \in Peer : Silent[x] \in Seq(Said(p, x)) /\ Silent[x] \in Seq(New(OnOfferVetoed(p, m, q).model, doc[p]))
    BY SilentFirst
  <2>3. Reads(p, q, "offer", OnOfferVetoed(p, m, q), Silent)
    BY <1>8, <1>10, <2>1, <2>2
  <2>4. Offered(p, q, o, doc'[p], OnOfferVetoed(p, m, q), Silent)
    BY <1>10, <1>o
  <2> QED BY <2>3, <2>4
<1>11. ASSUME TakesIn(m), Reaches(doc[p], o.version), UNCHANGED doc,
              Run(p, Only(OnPeerSynced(m, q, o.version)), doc[p], stored[p], accept, Taken(p, q))
       PROVE  Goal
  <2> DEFINE n == OnPeerSynced(m, q, o.version)
  <2>1. doc[p] # None /\ m.entry.mode = "held"
    BY <1>5, <1>11 DEF InMemory
  <2>2. Answers(p, m, Only(n), {})
    BY <1>2, <1>3, OnlyAnswers, OnPeerSyncedKeeps
  <2>3. Keeps(p, m, Only(n), doc[p], C, V)
    BY <1>2, <1>3, <1>6, <1>11, <2>1, OnlySyncedKeeps
  <2>4. Follows(p, m, n, NoOffers, doc[p], C, V) /\ n.tracked = m.tracked /\ n.entry = m.entry
    <3>1. Knows(m, doc[p]) /\ m \in Model /\ Reaches(doc[p], o.version) /\ o.version \in Version /\ <<q, o.version>> \in V
      BY <1>2, <1>3, <1>6, <1>11
    <3> QED BY <2>1, <3>1, OnPeerSyncedFollows
  <2> HIDE DEF n
  <2>5. Only(n).model = n
    BY DEF Only
  <2>6. \A x \in Peer : accept[x] \in Seq(Said(p, x)) /\ accept[x] \in Seq(New(n, doc[p]))
    BY <1>2, <1>6, <1>11, <2>1, <2>4, AcceptFirst
  <2>7. Offered(p, q, o, doc'[p], Only(n), accept)
    BY <1>11, <1>o DEF n
  <2> HIDE DEF accept
  <2>8. Reads(p, q, "offer", Only(n), accept)
    BY <1>8, <1>11, <2>2, <2>3, <2>4, <2>5, <2>6 DEF n
  <2> QED BY <2>7, <2>8
<1>12. ASSUME TakesIn(m), q \in m.tracked, NEW d \in Merged(doc[p], o.from, o.version), doc' = [doc EXCEPT ![p] = d],
              Run(p, OnDocImported(p, m, q, d, d # doc[p], o.version, will), d, stored[p],
                  IF Reaches(d, o.version) THEN accept ELSE Silent, Taken(p, q))
       PROVE  Goal
  <2> DEFINE reply == OnDocImported(p, m, q, d, d # doc[p], o.version, will)
             first == IF Reaches(d, o.version) THEN accept ELSE Silent
  <2>1. d \in Version /\ doc'[p] = d
    BY <1>1, <1>2, <1>5, <1>12, MergedFits DEF SyncInv
  <2>2. doc[p] \in Version /\ Reaches(d, doc[p]) /\ InMemory(p) /\ m.entry.mode = "held"
    BY <1>2, <1>3, <1>5, <1>12, MergedFacts DEF InMemory, MaybeVersion
  <2>3. Answers(p, m, reply, {q})
    BY <1>2, <1>3, <1>4, <2>1, OnDocImportedAnswers
  <2>4. Keeps(p, m, reply, d, C, V)
    BY <1>2, <1>3, <1>4, <1>6, <2>1, <2>2, OnDocImportedKeeps
  <2>5. reply.model.tracked = m.tracked
    BY <1>3, ImportTracks
  <2>6. reply.model.entry.mode = "held"
    BY <1>3, <2>2, ImportHeld
  <2>o. Offered(p, q, o, doc'[p], reply, first)
    BY <1>12, <1>o, <2>1, <2>2
  <2> HIDE DEF reply
  <2>7. \A x \in Peer : first[x] \in Seq(Said(p, x)) /\ first[x] \in Seq(New(reply.model, doc'[p]))
    <3>1. \A x \in Peer : Silent[x] \in Seq(Said(p, x)) /\ Silent[x] \in Seq(New(reply.model, doc'[p]))
      BY SilentFirst
    <3>2. d # None
      BY <2>1, NoneAssumption
    <3>3. Reaches(d, o.version) =>
            \A x \in Peer : accept[x] \in Seq(Said(p, x)) /\ accept[x] \in Seq(New(reply.model, d))
      BY <1>2, <1>6, <2>6, <3>2, AcceptFirst
    <3> HIDE DEF accept
    <3> QED BY <2>1, <3>1, <3>3
  <2>8. Run(p, reply, doc'[p], stored'[p], first, Taken(p, q))
    BY <1>1, <1>12, <2>1 DEF reply
  <2>9. \A x \in Peer \ {p} : doc'[x] = doc[x]
    BY <1>12 DEF SyncInv, Inv, Types
  <2>10. Remains(p) /\ GateAnswered(p, reply)
    BY <1>1, <2>1, <2>2, GrowthKeepsGate
  <2>11. Keeps(p, model[p], reply, doc'[p], Claims(q, "offer", Head(wire[q][p])), States(q, "offer", Head(wire[q][p])))
    BY <2>1, <2>4 DEF C, V, m, o
  <2> HIDE DEF first
  <2>12. Answers(p, model[p], reply, {q}) /\ reply.model.tracked = model[p].tracked /\ doc'[p] \in MaybeVersion
    BY <2>1, <2>3, <2>5 DEF m, MaybeVersion
  <2>13. "offer" # "establish" /\ "offer" # "dismiss"
    OBVIOUS
  <2>14. Reads(p, q, "offer", reply, first)
    BY <1>1, <2>7, <2>8, <2>9, <2>10, <2>11, <2>12, <2>13, TakeStep
  <2> QED BY <2>14, <2>o
<1>13. Goal
  BY <1>7, <1>9, <1>10, <1>11, <1>12
<1> QED BY <1>13 DEF o

LEMMA ReceiveEstablishReads ==
  ASSUME SyncInv, NEW p \in Peer, NEW q \in Peer, p # q, ReceiveEstablish(p, q)
  PROVE  Reads(p, q, "establish", OnPeerAvailable(p, model[p], q), Silent)
<1> DEFINE reply == OnPeerAvailable(p, model[p], q)
           w == Taken(p, q)
<1>1. /\ wire[q][p] # <<>> /\ Head(wire[q][p]).type = "establish" /\ end' = [end EXCEPT ![p][q] = "on"]
      /\ began' = [began EXCEPT ![p][q] = IF InMemory(p) THEN doc[p] ELSE Empty]
      /\ UNCHANGED <<doc, stored>>
      /\ Run(p, reply, doc'[p], stored'[p], Silent, w)
  BY DEF ReceiveEstablish, Arrives
<1>2. model[p] \in Model /\ Knows(model[p], doc[p])
  BY KnowsOf
<1>3. Answers(p, model[p], reply, Peer)
  BY <1>2, OnPeerAvailableAnswers, AnswersAny
<1>4. /\ Keeps(p, model[p], reply, doc'[p], {}, {})
      /\ reply.model.tracked = model[p].tracked \cup {q} /\ reply.model.docs[q].held = None
      /\ reply.model.docs[q].owed = None
  <2>2. /\ Keeps(p, model[p], reply, doc[p], {}, {})
        /\ reply.model.tracked = model[p].tracked \cup {q} /\ reply.model.docs[q].held = None
        /\ reply.model.docs[q].owed = None
    <3> DEFINE m == model[p]
    <3>1. m \in Model /\ Knows(m, doc[p])
      BY <1>2
    <3> HIDE DEF m
    <3>2. LET r == OnPeerAvailable(p, m, q) IN
            /\ Keeps(p, m, r, doc[p], {}, {})
            /\ r.model.tracked = m.tracked \cup {q} /\ r.model.docs[q].held = None /\ r.model.docs[q].owed = None
      BY <3>1, OnPeerAvailableKeeps
    <3> QED BY <3>2 DEF m
  <2> HIDE DEF reply
  <2> QED BY <1>1, <2>2
<1> HIDE DEF reply
<1>5. \A x \in Peer : Silent[x] \in Seq(Said(p, x)) /\ Silent[x] \in Seq(New(reply.model, doc'[p]))
  BY SilentFirst
<1>6. /\ \A x \in Peer \ {p} : doc'[x] = doc[x] /\ stored'[x] = stored[x]
      /\ doc'[p] \in MaybeVersion /\ stored'[p] \in MaybeVersion /\ Remains(p) /\ GateAnswered(p, reply)
  BY <1>1, StaysPut
<1>7. TakesHead(p, q, reply, w, {}, {})
  BY <1>1, <1>4 DEF TakesHead
<1> HIDE DEF w
<1>8. Step(p, q, reply, Silent, w, {}, {})
  BY <1>1, <1>3, <1>4, <1>5, <1>6, <1>7 DEF Step, GateAnswered
<1>9. Arrives(p, q, "establish") /\ \A msg : Claims(q, "establish", msg) = {} /\ States(q, "establish", msg) = {}
  BY <1>1 DEF Arrives, Claims, States
<1>10. Reads(p, q, "establish", reply, Silent)
  BY <1>8, <1>9 DEF Reads, w
<1> QED BY <1>10 DEF reply

-----------------------------------------------------------------------------
(* The theorems.                                                           *)

LEMMA InitHolds == ASSUME Init PROVE SyncInv /\ OwedOnlyWhileHeld
<1>1. /\ \A p \in Peer : model[p] = initSync /\ doc[p] = None /\ stored[p] = Empty
      /\ \A p, q \in Peer : end[p][q] = "off" /\ wire[p][q] = <<>> /\ began[p][q] = Empty
  BY DEF Init, Started
<1>2. Types
  <2>1. initSync \in Model /\ None \in MaybeVersion /\ Empty \in MaybeVersion /\ Empty \in Version
        /\ <<>> \in Seq(Message) /\ "off" \in End
    BY InitSyncFacts, VersionFacts, EmptySeq DEF MaybeVersion, End
  <2>2. faults \in [{"drop", "crash", "leave", "depart"} -> Nat]
    BY DEF Init
  <2> QED BY <2>1, <2>2 DEF Init, Started, Types
<1>3. WiresFit /\ AskedFirst
  BY <1>1, InitSyncFacts, EmptySeq DEF WiresFit, AskedFirst
<1>4. Backed /\ HeldIsSafe
  BY <1>1 DEF Backed, HeldIsSafe, InMemory, Empty
<1>5. \A p \in Peer : Knows(model[p], doc[p]) /\ \A q \in Peer : At(p, q).owed = None /\ At(p, q).held = None
  <2> SUFFICES ASSUME NEW p \in Peer
               PROVE  Knows(model[p], doc[p]) /\ \A q \in Peer : At(p, q).owed = None /\ At(p, q).held = None
    OBVIOUS
  <2>1. model[p] = initSync /\ doc[p] = None
    BY <1>1
  <2>2. \A q \in Peer : At(p, q) = Unknown
    BY <2>1, InitSyncKnows DEF At
  <2>3. Unknown.owed = None /\ Unknown.held = None
    BY DEF Unknown
  <2> QED BY <2>1, <2>2, <2>3, InitSyncKnows
<1>6. \A p, q \in Peer : WireTrue(p, q) /\ LinkTrue(p, q) /\ HeldTrue(p, q)
  BY <1>1, <1>5 DEF WireTrue, LinkTrue, HeldTrue
<1> QED BY <1>1, <1>2, <1>3, <1>4, <1>5, <1>6 DEF SyncInv, Inv, RecordsInv, OwedOnlyWhileHeld

\* A program that takes offers in has the document in memory.
LEMMA TakesInMemory == ASSUME SyncInv, NEW p \in Peer, TakesIn(model[p]) PROVE InMemory(p)
BY KnowsOf DEF TakesIn, Knows, EntryFits, InMemory

LEMMA DocumentHolds == ASSUME SyncInv, NEW p \in Peer, Document(p) PROVE Inv' /\ Kept
<1>1. Inv
  BY DEF SyncInv
<1>2. CASE Ensure(p)
  BY <1>1, <1>2, EnsureKeeps, EnsureActs, ActsKept
<1>3. CASE LocalWrite(p)
  BY <1>1, <1>3, LocalWriteKeeps, LocalWriteActs, ActsKept
<1>4. CASE Stored(p)
  BY <1>1, <1>4, StoredKeeps, StoredActs, ActsKept
<1>5. CASE Unloading(p) \/ UnloadCancelled(p)
  <2>1. PICK leaving \in BOOLEAN : UNCHANGED doc /\ Input(p, OnDocUnloading(p, model[p], leaving))
    BY <1>5 DEF Unloading, UnloadCancelled
  <2> QED BY <1>1, <1>5, <2>1, UnloadingKeeps, UnloadCancelledKeeps, UnloadingActs, ActsKept
<1>9. CASE Suspend(p)
  BY <1>1, <1>9, SuspendKeeps, SuspendActs, ActsKept
<1>6. CASE Unloaded(p)
  BY <1>1, <1>6, UnloadedKeeps, UnloadedActs, ActsKept
<1>7. CASE Resume(p)
  BY <1>1, <1>7, ResumeKeeps, ResumeActs, ActsKept
<1>8. CASE Destroy(p)
  BY <1>1, <1>8, DestroyKeeps, DestroyActs, ActsKept
<1> QED BY <1>2, <1>3, <1>4, <1>5, <1>6, <1>7, <1>8, <1>9 DEF Document

LEMMA NetworkHolds ==
  ASSUME SyncInv, NEW p \in Peer, NEW q \in Peer, p # q, Network(p, q) PROVE Inv' /\ Kept
<1>1. Inv
  BY DEF SyncInv
<1>2. CASE Connect(p, q)
  BY <1>1, <1>2, ConnectKeeps, ConnectKept
<1>3. CASE Drop(p, q)
  BY <1>1, <1>3, DropKeeps, DropKept
<1>4. CASE Noticed(p, q)
  BY <1>1, <1>4, NoticedKeeps, NoticedKept
<1>5. CASE Departed(p, q)
  BY <1>1, <1>5, DepartedKeeps, DepartedActs, ActsKept
<1>6. CASE ReceiveEstablish(p, q)
  BY <1>1, <1>6, ReceiveEstablishKeeps, ReceiveEstablishReads, ReadsKept
<1>7. CASE ReceivePresent(p, q)
  BY <1>1, <1>7, ReceivePresentKeeps, ReceivePresentReads, ReadsKept
<1>8. CASE ReceiveInterest(p, q)
  BY <1>1, <1>8, ReceiveInterestKeeps, ReceiveInterestReads, ReadsKept
<1>9. CASE ReceiveOffer(p, q)
  BY <1>1, <1>9, TakesInMemory, ReceiveOfferKeeps, ReceiveOfferReads, ReadsKept
<1>10. CASE ReceiveAccept(p, q) \/ ReceiveRefuse(p, q) \/ ReceiveDismiss(p, q) \/ ReceiveVacant(p, q)
  BY <1>1, <1>10, ReceiveRecordKeeps, ReceiveRecordReads, ReadsKept
<1> QED BY <1>2, <1>3, <1>4, <1>5, <1>6, <1>7, <1>8, <1>9, <1>10 DEF Network, Receives

LEMMA NextHolds == ASSUME SyncInv, Next PROVE Inv' /\ Kept
<1>1. CASE \E p \in Peer : Document(p)
  BY <1>1, DocumentHolds
<1>2. CASE \E p \in Peer : Crash(p)
  <2>1. Inv
    BY DEF SyncInv
  <2> QED BY <1>2, <2>1, CrashKeeps, CrashKept
<1>3. CASE \E p, q \in Peer : p # q /\ Network(p, q)
  BY <1>3, NetworkHolds
<1> QED BY <1>1, <1>2, <1>3 DEF Next

LEMMA StutterHolds ==
  ASSUME SyncInv, UNCHANGED vars PROVE SyncInv' /\ (OwedOnlyWhileHeld => OwedOnlyWhileHeld')
<1>1. UNCHANGED <<model, doc, stored, end, wire, began, faults>>
  BY DEF vars
<1>2. Inv'
  BY <1>1 DEF SyncInv, Inv, Types, WiresFit, AskedFirst, Backed, HeldIsSafe, InMemory
<1>3. \A a, b \in Peer : WireTrue(a, b)' /\ LinkTrue(a, b)' /\ HeldTrue(a, b)'
  <2> SUFFICES ASSUME NEW a \in Peer, NEW b \in Peer PROVE WireTrue(a, b)' /\ LinkTrue(a, b)' /\ HeldTrue(a, b)'
    OBVIOUS
  <2>1. WireTrue(a, b) /\ LinkTrue(a, b) /\ HeldTrue(a, b)
    BY DEF SyncInv, RecordsInv
  <2>2. WireTrue(a, b)'
    BY <1>1, <2>1, SameWire
  <2>3. LinkTrue(a, b)'
    BY <1>1, <2>1 DEF LinkTrue, InMemory
  <2>4. HeldTrue(a, b)'
    BY <1>1, <2>1 DEF HeldTrue, At, Holds, Dismissing
  <2> QED BY <2>2, <2>3, <2>4
<1>4. RecordsInv'
  BY <1>1, <1>3 DEF SyncInv, RecordsInv
<1>5. OwedOnlyWhileHeld => OwedOnlyWhileHeld'
  BY <1>1 DEF OwedOnlyWhileHeld, At, InMemory
<1> QED BY <1>2, <1>4, <1>5 DEF SyncInv

LEMMA AlwaysSyncInv == Spec => []SyncInv
<1>1. Init => SyncInv
  BY InitHolds
<1>2. SyncInv /\ [Next]_vars => SyncInv'
  BY NextHolds, StutterHolds DEF SyncInv, Kept
<1> QED BY <1>1, <1>2, PTL DEF Spec

\* What Types says, without the refinements of the proof.
LEMMA TypesAreTypes == ASSUME SyncInv PROVE TypeOK
BY DEF SyncInv, Inv, Types, TypeOK, Model, MaybeVersion

\* Type correctness, for every number of peers, writes and faults and every policy: every record a program keeps of another,
\* every message under way and every version is of the types the code declares.
THEOREM TypeCorrect == Spec => []TypeOK
<1>1. SyncInv => TypeOK
  BY TypesAreTypes
<1> QED BY <1>1, AlwaysSyncInv, PTL

\* What one peer has, stores or is being offered of another's writes, that one's store holds: a crash takes back nothing that
\* has left the process (the publication gate, synchronizer.ts).
THEOREM KnownIsStoredCorrect == Spec => []KnownIsStored
<1>1. SyncInv => KnownIsStored
  <2> SUFFICES ASSUME SyncInv, NEW p \in Peer, NEW q \in Peer, q # p, stored[p] # None
               PROVE  /\ InMemory(q) => doc[q][p] <= stored[p][p]
                      /\ stored[q] # None => stored[q][p] <= stored[p][p]
                      /\ \A r \in Peer : \A o \in Of("offer", p, r) : o.version[p] <= stored[p][p]
    BY DEF KnownIsStored
  <2>1. HeldIsSafe /\ WiresFit
    BY DEF SyncInv, Inv
  <2>2. ASSUME NEW r \in Peer, NEW o \in Of("offer", p, r) PROVE o.version[p] <= stored[p][p]
    <3>1. PICK i \in DOMAIN wire[p][r] : o = wire[p][r][i] /\ o.type = "offer"
      BY <2>2 DEF Of, Messages
    <3>2. wire[p][r] \in Seq(Fit(p, r, stored))
      BY <2>1 DEF WiresFit
    <3>3. o \in Fit(p, r, stored)
      BY <3>1, <3>2, SeqElement
    <3> QED BY <3>1, <3>3 DEF Fit, Safe
  <2> QED BY <2>1, <2>2 DEF HeldIsSafe, InMemory
<1> QED BY <1>1, AlwaysSyncInv, PTL

\* Only a peer that canShare lets have the document is told of it; another hears at most that it is not served.
THEOREM OnlySharersHearCorrect == Spec => []OnlySharersHear
<1>1. SyncInv => OnlySharersHear
  <2> SUFFICES ASSUME SyncInv, NEW p \in Peer, NEW q \in Peer, q \notin Shares[p], NEW msg \in Messages(p, q)
               PROVE  msg.type \in {"establish", "vacant"}
    BY DEF OnlySharersHear
  <2>1. wire[p][q] \in Seq(Fit(p, q, stored))
    BY DEF SyncInv, Inv, WiresFit
  <2>2. PICK i \in DOMAIN wire[p][q] : msg = wire[p][q][i]
    BY DEF Messages
  <2>3. msg \in Fit(p, q, stored)
    BY <2>1, <2>2, SeqElement
  <2> QED BY <2>3 DEF Fit
<1> QED BY <1>1, AlwaysSyncInv, PTL

\* What a program records of its peers is true: a cursor it quotes covers only what it took in, and a peer on a live link
\* holds what compaction trims up to, but for a dismiss under way.
THEOREM RecordsCorrect == Spec => []RecordsAreTrue
<1>1. SyncInv => RecordsAreTrue
  <2> SUFFICES ASSUME SyncInv PROVE TypeOK /\ CursorHeld /\ HeldIsHeld
    BY DEF RecordsAreTrue
  <2>1. \A p \in Peer : Knows(model[p], doc[p])
    BY KnowsOf
  <2>2. CursorHeld
    BY <2>1 DEF CursorHeld, Knows, QuotesHeld, At, InMemory
  <2>3. HeldIsHeld
    <3> SUFFICES ASSUME NEW p \in Peer, NEW q \in Peer, At(p, q).held # None, end[p][q] = "on",
                        end[q][p] \in {"on", "opening"}, Of("dismiss", q, p) = {}
                 PROVE  InMemory(q) /\ Reaches(doc[q], At(p, q).held)
      BY DEF HeldIsHeld
    <3>1. Dismissing(q, p, 0) \/ Holds(q, At(p, q).held)
      BY DEF SyncInv, RecordsInv, HeldTrue
    <3>2. ~Dismissing(q, p, 0)
      BY DEF Dismissing, Of, Messages
    <3> QED BY <2>1, <3>1, <3>2 DEF Holds, Knows, EntryFits, InMemory
  <2> QED BY <2>2, <2>3, TypesAreTypes
<1> QED BY <1>1, AlwaysSyncInv, PTL

\* Once the store has confirmed our writes, nothing owed to a peer with a channel is held back.
THEOREM OwedCorrect == Spec => []OwedOnlyWhileHeld
<1>1. Init => SyncInv /\ OwedOnlyWhileHeld
  BY InitHolds
<1>2. SyncInv /\ OwedOnlyWhileHeld /\ [Next]_vars => SyncInv' /\ OwedOnlyWhileHeld'
  BY NextHolds, StutterHolds DEF SyncInv, Kept
<1> QED BY <1>1, <1>2, PTL DEF Spec

\* A peer that refused our operations is sent no content until it reconnects, by any path.
THEOREM RefusalCorrect == Spec => [][SendsNothingRefused]_vars
<1>1. SyncInv /\ [Next]_vars => [SendsNothingRefused]_vars
  BY NextHolds DEF Kept
<1> QED BY <1>1, AlwaysSyncInv, PTL DEF Spec

\* Whoever waits for the document to be synced with a peer is released only when all the peer had, when their link came up,
\* has arrived.
THEOREM SyncedCorrect == Spec => SyncedHasArrived
<1>1. SyncInv /\ [Next]_vars => [SyncedArrived]_vars
  BY NextHolds DEF Kept
<1>2. Spec => [][SyncedArrived]_vars
  BY <1>1, AlwaysSyncInv, PTL DEF Spec
<1> QED BY <1>2, PTL DEF SyncedHasArrived, SyncedArrived
=============================================================================
