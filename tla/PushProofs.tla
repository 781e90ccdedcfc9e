------------------------------ MODULE PushProofs ------------------------------
(***************************************************************************)
(* A push leaves no hole and no advance is forgotten: what a program takes *)
(* a peer to hold once all has arrived it holds or offers under way bring, *)
(* each starting from what those before it leave; and all a program has is *)
(* sent or owed to each peer that takes it in, or the peer will ask.       *)
(*                                                                         *)
(* A lemma per handler says what it may do to the records offers start     *)
(* from (Pushed) and whom it speaks to (Speaks).  PushInv has what is      *)
(* under way between two peers, and each of its parts is kept by a step of *)
(* either one's program, and by what happens to links.                     *)
(***************************************************************************)
EXTENDS SyncProofs

-----------------------------------------------------------------------------
(* What is under way.                                                      *)

\* b takes in what a offers it over a link that is up at both ends.
Taking(a, b) == end[a][b] = "on" /\ end[b][a] = "on" /\ b \in Shares[a] /\ a \in Shares[b] /\ TakesIn(model[b])

\* A message of a type in T is said.
Tells(s, T) == \E i \in DOMAIN s : s[i].type \in T
Under(t, a, b) == Tells(wire[a][b], {t})

\* At d there are n operations of w, or one of the offers at S on wire W brings them.
Brings(d, W, S, w, n) == n <= d[w] \/ \E i \in S : n <= W[i].version[w]
Reached(d, W, S, v) == v # None => \A w \in Peer : Brings(d, W, S, w, v[w])

\* Offers on wire W, each of which starts from what there is, d at first, once those before it are taken.
Sound(d, W, S) ==
  \A i \in S : /\ i \in DOMAIN W /\ W[i].type = "offer"
               /\ \A w \in Peer : Brings(d, W, {j \in S : j < i}, w, W[i].from[w])

\* What a takes b to hold once all is there, and where the offer it owes will start, b has or sound offers bring.
Chain(r, d, W) == \E S \in SUBSET DOMAIN W : Sound(d, W, S) /\ Reached(d, W, S, r.will) /\ Reached(d, W, S, r.owed)
Chained(a, b) == Chain(At(a, b), doc[b], wire[a][b])

BaselineTrue(a, b) ==
  Taking(a, b) /\ a \in Accepts[b] /\ ~Under("dismiss", b, a) /\ ~Under("interest", b, a) => Chained(a, b)

\* What is offered is held, unless it was dismissed since.
OfferTrue(a, b) ==
  \A i \in DOMAIN wire[a][b] : wire[a][b][i].type = "offer" => Holds(a, wire[a][b][i].version) \/ Dismissing(a, b, i)

\* Only who vetoes refuses.
RefusalTrue(a, b) == a \in Accepts[b] => ~At(a, b).refuses /\ ~Under("refuse", b, a)

\* Offers start nowhere for a peer the document is not shared with, of a document not held, and over a link just made.
UnaskedTrue(a, b) ==
  b \notin Shares[a] \/ model[a].entry.mode # "held" \/ (end[a][b] = "on" /\ end[b][a] = "opening") => Unasked(model[a], b)

\* After a dismiss or a vacant, one that takes offers in has asked anew.
AskedAgain(a, b) ==
  TakesIn(model[a]) /\ b \in Shares[a] =>
    \A i \in DOMAIN wire[a][b] : wire[a][b][i].type \in {"dismiss", "vacant"} =>
      \E j \in DOMAIN wire[a][b] : j > i /\ wire[a][b][j].type = "interest"

\* An end that is opening is yet to read the other's `establish`.
Opening(a, b) == end[b][a] = "opening" => wire[a][b] # <<>> /\ wire[a][b][1].type = "establish"

\* All at d is sent to the peer of a record, or an offer is owed to it.
UpToDate(r, d) ==
  r.status \in {"pending", "synced"} /\ (r.owed # None \/ (r.will # None /\ Reaches(r.will, d)))

\* b will have asked, or all that a has is sent to it or owed.
AdvanceTrue(a, b) ==
  /\ model[a].entry.mode = "held" /\ end[a][b] = "on" /\ end[b][a] = "opening" /\ b \in Shares[a] => Under("present", a, b)
  /\ Taking(a, b) /\ model[a].entry.mode = "held" /\ ~At(a, b).refuses =>
       Under("interest", b, a) \/ Under("present", a, b) \/ UpToDate(At(a, b), doc[a])

PairTrue(a, b) ==
  BaselineTrue(a, b) /\ OfferTrue(a, b) /\ RefusalTrue(a, b) /\ UnaskedTrue(a, b) /\ AskedAgain(a, b) /\ Opening(a, b)
    /\ AdvanceTrue(a, b)

PushInv == \A a, b \in Peer : a # b => PairTrue(a, b)

-----------------------------------------------------------------------------
(* What a handler does to the records offers start from.                   *)

\* v is nowhere past all of B.
StartsFrom(v, B) == v # None => \A w \in Peer : \E u \in B : u # None /\ v[w] <= u[w]
Starts(r, o, B) == StartsFrom(r.will, B) /\ StartsFrom(r.owed, B) /\ StartsFrom(o, B)

\* A document that stays held, and a peer tracked throughout.
Stays(m, n, x) == m.entry.mode = "held" /\ n.entry.mode = "held" /\ x \in m.tracked /\ x \in n.tracked

\* What the record of x may become, and the offer o to it, when p's program went from m to n taking msg, of type t, from q;
\* c and d are what was and is in memory.
Pushed(p, m, n, x, o, c, d, q, t, msg) ==
  LET r == m.docs[x]
      s == n.docs[x]
  IN  /\ o # None => n.entry.mode = "held"
      /\ x # q \/ t \notin {"establish", "interest", "offer", "dismiss"} => Starts(s, o, {r.will, r.owed})
      /\ x = q /\ t = "offer" => Starts(s, o, {r.will, r.owed, msg.version})
      /\ x = q /\ (t = "establish" \/ (t = "dismiss" /\ x \in m.tracked)) => s.will = None /\ s.owed = None /\ o = None
      /\ (x \notin Shares[p] \/ m.entry.mode # "held" => Unasked(m, x)) =>
           (x \notin Shares[p] \/ n.entry.mode # "held" => Unasked(n, x))
      /\ s.refuses => r.refuses \/ (x = q /\ t = "refuse")
      /\ Stays(m, n, x) /\ r.refuses => s.refuses \/ (x = q /\ t \in {"establish", "dismiss"})
      /\ Stays(m, n, x) /\ x \in Shares[p] /\ ~r.refuses =>
           /\ UpToDate(r, c) /\ (x # q \/ t \notin {"establish", "interest", "dismiss", "vacant"}) => UpToDate(s, d)
           /\ x = q /\ t = "interest" => Starts(s, o, {TheyHold(msg)}) /\ UpToDate(s, d)

\* Whom p's program then speaks to.
Speaks(p, m, n, x, said, q, t) ==
  /\ TakesIn(n) /\ ~TakesIn(m) /\ x \in Sharers(p, m) => Tells(said, {"interest"})
  /\ n.entry.mode = "held" /\ m.entry.mode # "held" /\ x \in Sharers(p, m) => Tells(said, {"present"})
  /\ x \in Shares[p] /\ TakesIn(n) => ~Tells(said, {"dismiss", "vacant"})
  /\ Tells(said, {"refuse"}) => x \notin Accepts[p]
  /\ x = q /\ t = "present" /\ TakesIn(m) /\ x \in Sharers(p, m) => Tells(said, {"interest"})
  /\ x = q /\ t = "establish" /\ m.entry.mode = "held" /\ x \in Shares[p] => Tells(said, {"present"})

Pushes(p, m, reply, c, d, q, t, msg) ==
  \A x \in Peer : /\ Pushed(p, m, reply.model, x, reply.offers[x], c, d, q, t, msg)
                  /\ Speaks(p, m, reply.model, x, reply.says[x], q, t)

-----------------------------------------------------------------------------
(* Records.                                                                *)

LEMMA StartsSelf ==
  ASSUME NEW r \in PeerDoc, NEW B, {r.will, r.owed} \subseteq B, NEW v \in B \cup {None}, v \in MaybeVersion
  PROVE  StartsFrom(v, B) /\ StartsFrom(None, B)
BY DEF StartsFrom, MaybeVersion, Version

\* A record that is the same, without an offer.
LEMMA SamePushed ==
  ASSUME NEW p \in Peer, NEW m \in Model, NEW n, NEW x \in Peer, NEW c, NEW d, NEW q, NEW t, NEW msg,
         n.docs[x] = m.docs[x], m.entry.mode = "held" => n.entry.mode = "held" /\ c = d,
         x = q => /\ t # "establish" /\ (t = "dismiss" => x \notin m.tracked)
                  /\ t = "interest" => x \notin m.tracked \/ x \notin Shares[p] \/ m.entry.mode # "held"
  PROVE  Pushed(p, m, n, x, None, c, d, q, t, msg)
<1> DEFINE r == m.docs[x]
<1>1. r \in PeerDoc /\ r.will \in MaybeVersion /\ r.owed \in MaybeVersion
  BY ModelFacts
<1>2. \A B : {r.will, r.owed} \subseteq B => Starts(r, None, B)
  BY <1>1, StartsSelf DEF Starts
<1>3. Starts(r, None, {r.will, r.owed}) /\ Starts(r, None, {r.will, r.owed, msg.version})
  BY <1>2
<1> QED BY <1>3 DEF Pushed, Stays, Unasked

\* Records forgotten.
LEMMA ForgottenPushed ==
  ASSUME NEW p \in Peer, NEW m, NEW n, NEW x \in Peer, NEW c, NEW d, NEW q, NEW t, NEW msg,
         n.docs[x].will = None, n.docs[x].owed = None, ~n.docs[x].refuses,
         Stays(m, n, x) => x = q /\ t \in {"establish", "dismiss"}
  PROVE  Pushed(p, m, n, x, None, c, d, q, t, msg)
<1>1. \A B : Starts(n.docs[x], None, B)
  BY DEF Starts, StartsFrom
<1> QED BY <1>1 DEF Pushed, Unasked

\* One that changes neither what an offer would start from nor, but for a refusal taken, who refuses.
LEMMA KeptPushed ==
  ASSUME NEW p \in Peer, NEW m \in Model, NEW n, NEW x \in Peer, NEW c, NEW d, NEW q, NEW t, NEW msg,
         t \notin {"establish", "interest", "dismiss"},
         n.docs[x].will = m.docs[x].will, n.docs[x].owed = m.docs[x].owed,
         n.docs[x].refuses = m.docs[x].refuses \/ (x = q /\ t = "refuse" /\ n.docs[x].refuses),
         n.docs[x].status = m.docs[x].status \/ n.docs[x].status = "synced" \/ (x = q /\ t = "vacant"),
         m.entry.mode = "held" => n.entry.mode = "held" /\ c = d
  PROVE  Pushed(p, m, n, x, None, c, d, q, t, msg)
<1> DEFINE r == m.docs[x]
           s == n.docs[x]
<1>1. r \in PeerDoc /\ r.will \in MaybeVersion /\ r.owed \in MaybeVersion /\ s.will = r.will /\ s.owed = r.owed
  BY ModelFacts
<1>2. \A B : {r.will, r.owed} \subseteq B => Starts(s, None, B)
  BY <1>1, StartsSelf DEF Starts
<1>3. Starts(s, None, {r.will, r.owed}) /\ Starts(s, None, {r.will, r.owed, msg.version})
  BY <1>2
<1> QED BY <1>3 DEF Pushed, Stays, Unasked, UpToDate

\* A program that says nothing, and still takes in what it took in.
LEMMA SilentSpeaks ==
  ASSUME NEW p, NEW m, NEW n, NEW x \in Peer, NEW q, NEW t,
         TakesIn(n) => TakesIn(m), n.entry.mode = "held" => m.entry.mode = "held",
         x = q => /\ t = "present" => x \notin Sharers(p, m) \/ ~TakesIn(m)
                  /\ t = "establish" => m.entry.mode # "held" \/ x \notin Shares[p]
  PROVE  Speaks(p, m, n, x, Silent[x], q, t)
BY DEF Speaks, Silent, Tells

LEMMA TellsOne == \A msg, T : Tells(<<msg>>, T) <=> msg.type \in T
BY DEF Tells

LEMMA TellsTo ==
  ASSUME NEW Q, NEW msg, NEW x \in Peer, NEW T PROVE Tells(To(Q, <<msg>>)[x], T) <=> x \in Q /\ msg.type \in T
<1>1. To(Q, <<msg>>)[x] = IF x \in Q THEN <<msg>> ELSE <<>>
  BY DEF To
<1>2. ~Tells(<<>>, T) /\ (Tells(<<msg>>, T) <=> msg.type \in T)
  BY TellsOne DEF Tells
<1> QED BY <1>1, <1>2

LEMMA OnlyPushes ==
  ASSUME NEW p, NEW m, NEW n, NEW c, NEW d, NEW q, NEW t, NEW msg,
         \A x \in Peer : Pushed(p, m, n, x, None, c, d, q, t, msg) /\ Speaks(p, m, n, x, Silent[x], q, t)
  PROVE  Pushes(p, m, Only(n), c, d, q, t, msg)
BY DEF Pushes, Only, NoOffers

LEMMA SayingPushes ==
  ASSUME NEW p, NEW m, NEW n, NEW says, NEW c, NEW d, NEW q, NEW t, NEW msg,
         \A x \in Peer : Pushed(p, m, n, x, None, c, d, q, t, msg) /\ Speaks(p, m, n, x, says[x], q, t)
  PROVE  Pushes(p, m, Saying(n, says), c, d, q, t, msg)
BY DEF Pushes, Saying, NoOffers

\* Nothing done.
LEMMA SamePushes ==
  ASSUME NEW p \in Peer, NEW m \in Model, NEW c, NEW d, m.entry.mode = "held" => c = d, NEW q, NEW t, NEW msg,
         t # "establish", t = "dismiss" => q \notin m.tracked,
         t = "present" => q \notin Sharers(p, m) \/ ~TakesIn(m),
         t = "interest" => q \notin m.tracked \/ q \notin Shares[p] \/ m.entry.mode # "held"
  PROVE  Pushes(p, m, Only(m), c, d, q, t, msg)
BY SamePushed, SilentSpeaks, OnlyPushes

\* One record set.
LEMMA SetRecord ==
  ASSUME NEW m \in Model, NEW q \in Peer, NEW r \in PeerDoc
  PROVE  LET n == SetPeerDoc(m, q, r) IN
           /\ n \in Model /\ n.tracked = m.tracked /\ n.entry = m.entry
           /\ \A x \in Peer \ {q} : n.docs[x] = m.docs[x]
           /\ n.docs[q] \in {r, m.docs[q]}
           /\ q \in m.tracked /\ r.status # "none" => n.docs[q] = r
BY DEF Model, SyncModel, SetPeerDoc

LEMMA SetKnown ==
  ASSUME NEW m \in Model, NEW q \in Peer, NEW r \in PeerDoc, q \in m.tracked, r.status # "none",
         NEW n, n = SetPeerDoc(m, q, r)
  PROVE  /\ n.tracked = m.tracked /\ n.entry = m.entry /\ n.docs[q] = r
         /\ \A x \in Peer \ {q} : n.docs[x] = m.docs[x]
BY SetRecord

\* A record that turns synced, or is the same, on a model whose entry is the same.
LEMMA TurnedPushed ==
  ASSUME NEW p, NEW m, NEW n, NEW k, NEW x \in Peer, NEW o, NEW c, NEW d, NEW q, NEW t, NEW msg,
         Pushed(p, m, n, x, o, c, d, q, t, msg),
         k.entry.mode = n.entry.mode, k.tracked = n.tracked,
         k.docs[x].will = n.docs[x].will, k.docs[x].owed = n.docs[x].owed, k.docs[x].refuses = n.docs[x].refuses,
         k.docs[x].status \in {n.docs[x].status, "synced"}
  PROVE  Pushed(p, m, k, x, o, c, d, q, t, msg)
<1> DEFINE s == n.docs[x]
           u == k.docs[x]
<1>1. \A B : Starts(s, o, B) => Starts(u, o, B)
  BY DEF Starts
<1>2. UpToDate(s, d) => UpToDate(u, d)
  BY DEF UpToDate
<1>3. (Stays(m, k, x) <=> Stays(m, n, x)) /\ (Unasked(n, x) <=> Unasked(k, x))
  BY DEF Stays, Unasked
<1>4. u.will = s.will /\ u.owed = s.owed /\ u.refuses = s.refuses /\ s = n.docs[x] /\ u = k.docs[x]
  OBVIOUS
<1> HIDE DEF s, u
<1> QED BY <1>1, <1>2, <1>3, <1>4 DEF Pushed

-----------------------------------------------------------------------------
(* One lemma per handler.                                                  *)

\* What a push does to a record, and to whom it offers.
LEMMA PushRecords ==
  ASSUME NEW p \in Peer, NEW m \in Model, NEW except, NEW x \in Peer
  PROVE  LET n == Push(p, m, except).model o == Push(p, m, except).offers[x] IN
           /\ n.entry = m.entry /\ n.tracked = m.tracked /\ Push(p, m, except).says = Silent
           /\ n.docs[x].status = m.docs[x].status /\ n.docs[x].refuses = m.docs[x].refuses
           /\ n.docs[x].will = m.docs[x].will /\ n.docs[x].owed \in {m.docs[x].owed, m.docs[x].will}
           /\ m.docs[x].owed # None => n.docs[x].owed = m.docs[x].owed
           /\ o \in {m.docs[x].will, None} /\ (o # None => x \in Shares[p])
           /\ n.docs[x] # m.docs[x] => o # None
           /\ x \in except => o = None
           /\ x \in Sharers(p, m) \ except /\ ~m.docs[x].refuses /\ m.docs[x].status \in {"pending", "synced"}
              /\ m.docs[x].will # None => n.docs[x].owed # None
<1> DEFINE to == {q \in ContentRecipients(p, m) \ except :
                    m.docs[q].status \in {"pending", "synced"} /\ m.docs[q].will # None}
           docs == [q \in Peer |-> IF q \in to /\ m.docs[q].owed = None
                                   THEN [m.docs[q] EXCEPT !.owed = m.docs[q].will] ELSE m.docs[q]]
           n == [m EXCEPT !.docs = docs]
           o == [q \in Peer |-> IF q \in to THEN m.docs[q].will ELSE None]
<1>1. n.docs = docs /\ n.entry = m.entry /\ n.tracked = m.tracked
  BY DEF Model, SyncModel
<1>2. Push(p, m, except) = [model |-> n, offers |-> o, says |-> Silent]
  BY ModelFacts DEF Push, Offering, Model, SyncModel
<1>3. x \in to => x \in Shares[p] /\ x \notin except /\ m.docs[x].will # None
  BY DEF ContentRecipients, Sharers
<1>4. x \in Sharers(p, m) \ except /\ ~m.docs[x].refuses /\ m.docs[x].status \in {"pending", "synced"} /\ m.docs[x].will # None
        => x \in to
  BY DEF ContentRecipients
<1>5. m.docs[x] \in PeerDoc
  BY ModelFacts
<1>6. docs[x] = (IF x \in to /\ m.docs[x].owed = None THEN [m.docs[x] EXCEPT !.owed = m.docs[x].will] ELSE m.docs[x])
      /\ o[x] = (IF x \in to THEN m.docs[x].will ELSE None)
  OBVIOUS
<1> HIDE DEF to, docs, n, o
<1>7. /\ docs[x].status = m.docs[x].status /\ docs[x].refuses = m.docs[x].refuses /\ docs[x].will = m.docs[x].will
      /\ docs[x].owed = IF x \in to /\ m.docs[x].owed = None THEN m.docs[x].will ELSE m.docs[x].owed
  BY <1>5, <1>6 DEF PeerDoc
<1>8. Push(p, m, except).model = n /\ Push(p, m, except).offers[x] = o[x] /\ Push(p, m, except).says = Silent
  BY <1>2
<1>9. n.docs[x] = docs[x]
  BY <1>1
<1>10. docs[x] # m.docs[x] => x \in to
  BY <1>6
<1>11. \/ o[x] = m.docs[x].will /\ x \in to
       \/ o[x] = None /\ x \notin to
  BY <1>6
<1> QED BY <1>1, <1>3, <1>4, <1>7, <1>8, <1>9, <1>10, <1>11

\* A push to those who have asked: whatever was in memory, it is owed to all that were up to date.
LEMMA PushPushed ==
  ASSUME NEW p \in Peer, NEW m \in Model, NEW except, NEW x \in Peer, m.entry.mode = "held",
         NEW k \in Model, k.docs = m.docs, k.tracked = m.tracked, k.entry.mode = m.entry.mode,
         x \notin except,
         NEW c, NEW d, NEW q, NEW t, NEW msg, x = q => t \notin {"establish", "interest", "dismiss"}
  PROVE  LET reply == Push(p, m, except) IN
           Pushed(p, k, reply.model, x, reply.offers[x], c, d, q, t, msg)
<1> DEFINE n == Push(p, m, except).model
           o == Push(p, m, except).offers[x]
           r == m.docs[x]
           s == n.docs[x]
<1>1. /\ n.entry = m.entry /\ n.tracked = m.tracked
      /\ s.status = r.status /\ s.refuses = r.refuses /\ s.will = r.will /\ s.owed \in {r.owed, r.will}
      /\ r.owed # None => s.owed = r.owed
      /\ o \in {r.will, None} /\ (o # None => x \in Shares[p])
      /\ x \in Sharers(p, m) /\ ~r.refuses /\ r.status \in {"pending", "synced"} /\ r.will # None => s.owed # None
  BY PushRecords
<1> HIDE DEF n, o
<1>2. r \in PeerDoc /\ r.will \in MaybeVersion /\ r.owed \in MaybeVersion
  BY ModelFacts
<1>3. \A B : {r.will, r.owed} \subseteq B => Starts(s, o, B)
  <2> SUFFICES ASSUME NEW B, {r.will, r.owed} \subseteq B PROVE Starts(s, o, B)
    OBVIOUS
  <2>1. StartsFrom(r.will, B) /\ StartsFrom(r.owed, B) /\ StartsFrom(None, B)
    BY <1>2, StartsSelf
  <2> QED BY <1>1, <2>1 DEF Starts
<1>4. Starts(s, o, {r.will, r.owed}) /\ Starts(s, o, {r.will, r.owed, msg.version})
  BY <1>3
<1>5. k.docs[x] = r /\ (Unasked(m, x) => Unasked(n, x) /\ o = None) /\ (Unasked(k, x) <=> Unasked(m, x))
  BY <1>1 DEF Unasked
<1>6. Stays(k, n, x) /\ x \in Shares[p] /\ ~r.refuses /\ UpToDate(r, c) => UpToDate(s, d)
  BY <1>1 DEF Stays, UpToDate, Sharers
<1>7. o # None => n.entry.mode = "held"
  BY <1>1, <1>5
<1>8. (x \notin Shares[p] \/ k.entry.mode # "held" => Unasked(k, x)) =>
           (x \notin Shares[p] \/ n.entry.mode # "held" => Unasked(n, x))
  BY <1>1, <1>5
<1> HIDE DEF r, s
<1>9. Pushed(p, k, n, x, o, c, d, q, t, msg)
  <2>1. s.refuses = r.refuses
    BY <1>1
  <2>2. k.docs[x] = r /\ n.docs[x] = s
    BY <1>5 DEF r, s
  <2> QED BY <1>4, <1>6, <1>7, <1>8, <2>1, <2>2 DEF Pushed
<1> QED BY <1>9 DEF n, o

LEMMA OnPeerAvailablePushes ==
  ASSUME NEW p \in Peer, NEW m \in Model, NEW q \in Peer, NEW d, NEW msg
  PROVE  Pushes(p, m, OnPeerAvailable(p, m, q), d, d, q, "establish", msg)
<1> DEFINE forgotten == [Unknown EXCEPT !.status = m.docs[q].status, !.cursor = m.docs[q].cursor]
           n == [m EXCEPT !.tracked = @ \cup {q}, !.docs[q] = forgotten]
           says == To(IF m.entry.mode \in {"held", "deferred"} THEN {q} \cap Shares[p] ELSE {}, <<Present>>)
<1>1. n.entry = m.entry /\ \A x \in Peer : n.docs[x] = IF x = q THEN forgotten ELSE m.docs[x]
  BY DEF Model, SyncModel
<1>2. forgotten.owed = None /\ forgotten.will = None /\ ~forgotten.refuses
  BY DEF Unknown
<1> HIDE DEF n, forgotten
<1>3. ASSUME NEW x \in Peer PROVE Pushed(p, m, n, x, None, d, d, q, "establish", msg)
  <2>1. CASE x = q
    BY <1>1, <1>2, <2>1, ForgottenPushed
  <2>2. CASE x # q
    BY <1>1, <2>2, SamePushed
  <2> QED BY <2>1, <2>2
<1>4. ASSUME NEW x \in Peer PROVE Speaks(p, m, n, x, says[x], q, "establish")
  <2>1. says[x] = (IF m.entry.mode \in {"held", "deferred"} /\ x = q /\ x \in Shares[p] THEN <<Present>> ELSE <<>>)
    BY DEF To
  <2>2. \A T : ~Tells(<<>>, T)
    BY DEF Tells
  <2> HIDE DEF says
  <2> QED BY <1>1, <2>1, <2>2, TellsOne DEF Speaks, TakesIn, Present
<1>5. OnPeerAvailable(p, m, q) = Saying(n, says)
  BY DEF OnPeerAvailable, n, forgotten
<1> HIDE DEF says
<1> QED BY <1>3, <1>4, <1>5, SayingPushes

LEMMA OnPeerDepartedPushes ==
  ASSUME NEW p \in Peer, NEW m \in Model, NEW q \in Peer, NEW d, NEW z, NEW t, t = "none", NEW msg
  PROVE  Pushes(p, m, OnPeerDeparted(m, q), d, d, z, t, msg)
<1> DEFINE n == [m EXCEPT !.tracked = @ \ {q}, !.docs[q] = Unknown]
<1>1. /\ n.entry = m.entry /\ n.tracked = m.tracked \ {q}
      /\ \A x \in Peer : n.docs[x] = IF x = q THEN Unknown ELSE m.docs[x]
  BY DEF Model, SyncModel
<1>2. OnPeerDeparted(m, q) = Only(n)
  BY DEF OnPeerDeparted
<1> HIDE DEF n
<1>3. ASSUME NEW x \in Peer PROVE Pushed(p, m, n, x, None, d, d, z, t, msg)
  <2>1. CASE x = q
    <3>1. ~Stays(m, n, x) /\ n.docs[x].will = None /\ n.docs[x].owed = None /\ ~n.docs[x].refuses
      BY <1>1, <2>1 DEF Stays, Unknown
    <3> QED BY <3>1, ForgottenPushed
  <2>2. CASE x # q
    BY <1>1, <2>2, SamePushed
  <2> QED BY <2>1, <2>2
<1>4. \A x \in Peer : Speaks(p, m, n, x, Silent[x], z, t)
  BY <1>1, SilentSpeaks DEF TakesIn
<1> QED BY <1>2, <1>3, <1>4, OnlyPushes

\* The form of an interest, and of what all are told.
LEMMA InterestType == \A m, x, r : InterestTo(m, x, r).type = "interest"
BY DEF InterestTo

LEMMA TellsJoined ==
  ASSUME NEW S, NEW u \in Seq(S), NEW v \in Seq(S), NEW T
  PROVE  Tells(u \o v, T) <=> Tells(u, T) \/ Tells(v, T)
<1>1. /\ Len(u) \in Nat /\ Len(v) \in Nat /\ DOMAIN u = 1 .. Len(u) /\ DOMAIN v = 1 .. Len(v)
      /\ DOMAIN (u \o v) = 1 .. Len(u) + Len(v)
      /\ \A i \in 1 .. Len(u) : (u \o v)[i] = u[i]
      /\ \A i \in 1 .. Len(u) + Len(v) : i > Len(u) => (u \o v)[i] = v[i - Len(u)]
      /\ \A i \in 1 .. Len(v) : (u \o v)[Len(u) + i] = v[i]
  BY ConcatProperties
<1> DEFINE both == u \o v
<1> HIDE DEF both
<1>2. ASSUME Tells(both, T) PROVE Tells(u, T) \/ Tells(v, T)
  <2>1. PICK i \in DOMAIN both : both[i].type \in T
    BY <1>2 DEF Tells
  <2>2. CASE i <= Len(u)
    BY <1>1, <2>1, <2>2 DEF Tells, both
  <2>3. CASE i > Len(u)
    <3>1. i - Len(u) \in DOMAIN v /\ both[i] = v[i - Len(u)]
      BY <1>1, <2>1, <2>3 DEF both
    <3> QED BY <2>1, <3>1 DEF Tells
  <2>4. i \in Int
    BY <1>1, <2>1 DEF both
  <2> QED BY <1>1, <2>2, <2>3, <2>4
<1>3. ASSUME Tells(u, T) PROVE Tells(both, T)
  BY <1>1, <1>3 DEF Tells, both
<1>4. ASSUME Tells(v, T) PROVE Tells(both, T)
  <2>1. PICK i \in DOMAIN v : v[i].type \in T
    BY <1>4 DEF Tells
  <2>2. Len(u) + i \in DOMAIN both /\ both[Len(u) + i] = v[i]
    BY <1>1, <2>1 DEF both
  <2> QED BY <2>1, <2>2 DEF Tells
<1> QED BY <1>2, <1>3, <1>4 DEF both

LEMMA AskAllTells ==
  ASSUME NEW p \in Peer, NEW m, NEW before \in {<<>>, <<Present>>}, NEW x \in Peer
  PROVE  LET says == AskAll(p, m, before)[x] IN
           /\ x \in Sharers(p, m) => Tells(says, {"interest"}) /\ (before # <<>> => Tells(says, {"present"}))
           /\ \A T : Tells(says, T) => "interest" \in T \/ "present" \in T
<1> DEFINE i == InterestTo(m, x, TRUE)
           S == {Present, i}
           one == <<i>>
           both == before \o one
<1>1. i.type = "interest" /\ Present.type = "present"
  BY InterestType DEF Present
<1>2. before \in Seq(S)
  <2>1. Present \in S
    OBVIOUS
  <2> HIDE DEF S
  <2> QED BY <2>1, OneSeq, EmptySeq
<1>3. one \in Seq(S)
  <2>1. i \in S
    OBVIOUS
  <2> HIDE DEF S, i
  <2> QED BY <2>1, OneSeq
<1>4. \A T : Tells(one, T) <=> i.type \in T
  BY TellsOne
<1>5. AskAll(p, m, before)[x] = IF x \in Sharers(p, m) THEN both ELSE <<>>
  BY DEF AskAll
<1> HIDE DEF i, S, one
<1>6. \A T : Tells(both, T) <=> Tells(before, T) \/ i.type \in T
  BY <1>2, <1>3, <1>4, TellsJoined
<1> HIDE DEF both
<1>7. \A T : ~Tells(<<>>, T)
  BY DEF Tells
<1>8. \A T : Tells(<<Present>>, T) <=> "present" \in T
  BY <1>1, TellsOne
<1>9. /\ x \in Sharers(p, m) => Tells(both, {"interest"}) /\ (before # <<>> => Tells(both, {"present"}))
      /\ \A T : Tells(both, T) => "interest" \in T \/ "present" \in T
  BY <1>1, <1>6, <1>7, <1>8
<1> QED BY <1>5, <1>7, <1>9

LEMMA OnDocEnsurePushes ==
  ASSUME NEW p \in Peer, NEW m \in Model, NEW v \in Version, NEW suspended, m.entry.mode # "held",
         NEW c, NEW q, NEW t, t = "none", NEW msg
  PROVE  Pushes(p, m, OnDocEnsure(p, m, v, suspended), c, v, q, t, msg)
<1> DEFINE n == [m EXCEPT !.entry = Held(v)]
           k == [m EXCEPT !.entry = Absent]
<1>1. n.docs = m.docs /\ n.tracked = m.tracked /\ n.entry.mode = "held" /\ ~n.entry.leaving
  BY DEF Model, SyncModel, Held, Absent
<1>2. k.docs = m.docs /\ k.tracked = m.tracked /\ k.entry.mode = "absent"
  BY DEF Model, SyncModel, Absent
<1> HIDE DEF n, k
<1>3. Pushes(p, m, Only(k), c, v, q, t, msg)
  <2>1. \A x \in Peer : Pushed(p, m, k, x, None, c, v, q, t, msg)
    BY <1>2, SamePushed
  <2>2. \A x \in Peer : Speaks(p, m, k, x, Silent[x], q, t)
    BY <1>2, SilentSpeaks DEF TakesIn
  <2> QED BY <2>1, <2>2, OnlyPushes
<1>4. Pushes(p, m, Saying(n, AskAll(p, n, <<Present>>)), c, v, q, t, msg)
  <2>1. \A x \in Peer : Pushed(p, m, n, x, None, c, v, q, t, msg)
    BY <1>1, SamePushed
  <2>2. ASSUME NEW x \in Peer PROVE Speaks(p, m, n, x, AskAll(p, n, <<Present>>)[x], q, t)
    <3> DEFINE said == AskAll(p, n, <<Present>>)[x]
    <3>1. /\ x \in Sharers(p, n) => Tells(said, {"interest"}) /\ Tells(said, {"present"})
          /\ \A T : Tells(said, T) => "interest" \in T \/ "present" \in T
      BY AskAllTells
    <3>2. ~Tells(said, {"dismiss", "vacant"}) /\ ~Tells(said, {"refuse"})
      BY <3>1
    <3> HIDE DEF said
    <3>3. Speaks(p, m, n, x, said, q, t)
      BY <1>1, <3>1, <3>2 DEF Speaks, Sharers
    <3> QED BY <3>3 DEF said
  <2> QED BY <2>1, <2>2, SayingPushes
<1> QED BY <1>3, <1>4 DEF OnDocEnsure, n, k

LEMMA OnDocDeferPushes ==
  ASSUME NEW p \in Peer, NEW m \in Model, NEW d, NEW q, NEW t, t = "present", NEW msg, m.entry.mode = "absent"
  PROVE  Pushes(p, m, OnDocDefer(p, m), d, d, q, t, msg)
<1> DEFINE n == [m EXCEPT !.entry = [Absent EXCEPT !.mode = "deferred"]]
           says == To(Sharers(p, m), <<Present>>)
<1>1. n.docs = m.docs /\ n.tracked = m.tracked /\ n.entry.mode = "deferred"
  BY DEF Model, SyncModel, Absent
<1>2. OnDocDefer(p, m) = Saying(n, says)
  BY DEF OnDocDefer
<1> HIDE DEF n
<1>3. \A x \in Peer : Pushed(p, m, n, x, None, d, d, q, t, msg)
  BY <1>1, SamePushed
<1>4. ASSUME NEW x \in Peer PROVE Speaks(p, m, n, x, says[x], q, t)
  <2>1. says[x] = <<Present>> \/ says[x] = <<>>
    BY DEF To
  <2>2. \A T : Tells(says[x], T) => "present" \in T
    BY <2>1, TellsOne DEF Tells, Present
  <2> HIDE DEF says
  <2> QED BY <1>1, <2>2 DEF Speaks, TakesIn
<1> HIDE DEF says
<1> QED BY <1>2, <1>3, <1>4, SayingPushes

LEMMA OnDocAdvancedPushes ==
  ASSUME NEW p \in Peer, NEW m \in Model, m.entry.mode \in {"held", "absent"}, NEW v \in Version,
         NEW c, NEW q, NEW t, t = "none", NEW msg
  PROVE  Pushes(p, m, OnDocAdvanced(p, m, v), c, v, q, t, msg)
<1>1. CASE m.entry.mode = "absent"
  BY <1>1, SamePushes DEF OnDocAdvanced
<1>2. CASE m.entry.mode = "held"
  <2> DEFINE n == [m EXCEPT !.entry.version = v]
             reply == Push(p, n, {})
  <2>1. n \in Model /\ n.docs = m.docs /\ n.tracked = m.tracked /\ n.entry.mode = "held" /\ n.entry.leaving = m.entry.leaving
    BY <1>2 DEF Model, SyncModel, Entry
  <2>2. OnDocAdvanced(p, m, v) = reply
    BY <1>2 DEF OnDocAdvanced
  <2> HIDE DEF n
  <2>3. \A x \in Peer : Pushed(p, m, reply.model, x, reply.offers[x], c, v, q, t, msg)
    BY <1>2, <2>1, PushPushed
  <2>4. ASSUME NEW x \in Peer PROVE Speaks(p, m, reply.model, x, reply.says[x], q, t)
    <3>1. reply.says = Silent /\ reply.model.entry = n.entry
      BY <2>1, PushRecords
    <3> HIDE DEF reply
    <3> QED BY <1>2, <2>1, <3>1, SilentSpeaks DEF TakesIn
  <2> HIDE DEF reply
  <2> QED BY <2>2, <2>3, <2>4 DEF Pushes
<1> QED BY <1>1, <1>2

LEMMA OnDocUnloadingPushes ==
  ASSUME NEW p \in Peer, NEW m \in Model, NEW leaving \in BOOLEAN, NEW d, NEW q, NEW t, t = "none", NEW msg
  PROVE  Pushes(p, m, OnDocUnloading(p, m, leaving), d, d, q, t, msg)
<1> DEFINE n == [m EXCEPT !.entry.leaving = leaving]
           says == AskAll(p, n, <<>>)
<1>1. n.docs = m.docs /\ n.tracked = m.tracked /\ n.entry.mode = m.entry.mode /\ n.entry.leaving = leaving
  BY DEF Model, SyncModel, Entry
<1>2. OnDocUnloading(p, m, leaving) =
        IF m.entry.mode # "held" \/ m.entry.leaving = leaving THEN Only(m)
        ELSE IF leaving THEN Only(n) ELSE Saying(n, says)
  BY DEF OnDocUnloading
<1>3. ASSUME NEW x \in Peer PROVE (x \in Sharers(p, n) => Tells(says[x], {"interest"}))
                                  /\ \A T : Tells(says[x], T) => "interest" \in T \/ "present" \in T
  BY AskAllTells
<1> HIDE DEF n, says
<1>4. \A x \in Peer : Pushed(p, m, n, x, None, d, d, q, t, msg)
  BY <1>1, SamePushed
<1>5. ASSUME m.entry.mode = "held", leaving PROVE Pushes(p, m, Only(n), d, d, q, t, msg)
  <2>1. \A x \in Peer : Speaks(p, m, n, x, Silent[x], q, t)
    BY <1>1, <1>5, SilentSpeaks DEF TakesIn
  <2> QED BY <1>4, <2>1, OnlyPushes
<1>6. ASSUME m.entry.mode = "held" PROVE Pushes(p, m, Saying(n, says), d, d, q, t, msg)
  <2>1. ASSUME NEW x \in Peer PROVE Speaks(p, m, n, x, says[x], q, t)
    <3>1. ~Tells(says[x], {"dismiss", "vacant"}) /\ ~Tells(says[x], {"refuse"})
      BY <1>3
    <3>2. x \in Sharers(p, m) => Tells(says[x], {"interest"})
      BY <1>1, <1>3 DEF Sharers
    <3> QED BY <1>6, <3>1, <3>2 DEF Speaks
  <2> QED BY <1>4, <2>1, SayingPushes
<1>7. Pushes(p, m, Only(m), d, d, q, t, msg)
  BY SamePushes
<1> QED BY <1>2, <1>5, <1>6, <1>7

LEMMA OnDocLeavePushes ==
  ASSUME NEW p \in Peer, NEW m \in Model, NEW as, NEW c, NEW d, NEW q, NEW t, t = "none", NEW msg
  PROVE  Pushes(p, m, OnDocLeave(p, m, as), c, d, q, t, msg)
<1> DEFINE unloaded == [Absent EXCEPT !.mode = "unloaded", !.suspended = m.entry.mode = "absent" \/ m.entry.suspended]
           e == IF as = "unload" THEN unloaded ELSE Absent
           n == [ForgetPeerStates(m) EXCEPT !.entry = e, !.reconciled = IF as = "suspend" THEN @ ELSE {}]
           says == To(IF m.entry.mode \in {"absent", "unloaded"} THEN {} ELSE Sharers(p, m), <<Dismiss>>)
<1>1. e.mode # "held"
  BY DEF Absent
<1>2. n.entry = e /\ \A x \in Peer : n.docs[x] = Unknown
  BY DEF Model, SyncModel, ForgetPeerStates
<1>3. OnDocLeave(p, m, as) = Saying(n, says)
  BY DEF OnDocLeave
<1> HIDE DEF n, e
<1>4. ASSUME NEW x \in Peer PROVE Pushed(p, m, n, x, None, c, d, q, t, msg)
  <2>1. n.docs[x].will = None /\ n.docs[x].owed = None /\ ~n.docs[x].refuses /\ ~Stays(m, n, x)
    BY <1>1, <1>2 DEF Unknown, Stays
  <2> QED BY <2>1, ForgottenPushed
<1>5. ASSUME NEW x \in Peer PROVE Speaks(p, m, n, x, says[x], q, t)
  <2>1. says[x] = <<Dismiss>> \/ says[x] = <<>>
    BY DEF To
  <2>2. ~Tells(says[x], {"refuse"})
    BY <2>1, TellsOne DEF Tells, Dismiss
  <2> HIDE DEF says
  <2> QED BY <1>1, <1>2, <2>2 DEF Speaks, TakesIn
<1> HIDE DEF says
<1> QED BY <1>3, <1>4, <1>5, SayingPushes

LEMMA OnDocPublishablePushes ==
  ASSUME NEW p \in Peer, NEW m \in Model, Owes(m), NEW d, NEW q, NEW t, t = "none", NEW msg
  PROVE  Pushes(p, m, OnDocPublishable(p, m), d, d, q, t, msg)
<1>1. CASE m.entry.mode = "absent"
  BY <1>1, SamePushes DEF OnDocPublishable
<1>2. CASE m.entry.mode # "absent"
  <2> DEFINE o == [x \in Peer |-> IF x \in ContentRecipients(p, m) THEN m.docs[x].owed ELSE None]
  <2>1. OnDocPublishable(p, m) = [model |-> m, offers |-> o, says |-> Silent]
    BY <1>2 DEF OnDocPublishable, Offering
  <2>2. ASSUME NEW x \in Peer PROVE Pushed(p, m, m, x, o[x], d, d, q, t, msg)
    <3> DEFINE r == m.docs[x]
    <3>1. r \in PeerDoc /\ r.will \in MaybeVersion /\ r.owed \in MaybeVersion /\ o[x] \in {r.owed, None}
      BY ModelFacts
    <3>2. o[x] # None => m.entry.mode = "held"
      BY <3>1 DEF Owes
    <3> HIDE DEF o
    <3>3. Starts(r, o[x], {r.will, r.owed})
      <4>1. \A v \in {r.will, r.owed, None} : StartsFrom(v, {r.will, r.owed})
        BY <3>1, StartsSelf DEF MaybeVersion
      <4> QED BY <3>1, <4>1 DEF Starts
    <3> QED BY <3>2, <3>3 DEF Pushed
  <2>3. \A x \in Peer : Speaks(p, m, m, x, Silent[x], q, t)
    BY SilentSpeaks
  <2> HIDE DEF o
  <2> DEFINE reply == OnDocPublishable(p, m)
  <2>4. reply.model = m /\ reply.offers = o /\ reply.says = Silent
    BY <2>1
  <2> HIDE DEF reply
  <2>5. Pushes(p, m, reply, d, d, q, t, msg)
    BY <2>2, <2>3, <2>4 DEF Pushes
  <2> QED BY <2>5 DEF reply
<1> QED BY <1>1, <1>2

-----------------------------------------------------------------------------
(* One lemma per handler: the messages.                                    *)

\* A peer found to have nothing for us: a record at most turns synced.
LEMMA OnPeerSyncedSame ==
  ASSUME NEW m \in Model, NEW q \in Peer, NEW v \in Version
  PROVE  LET n == OnPeerSynced(m, q, v) IN
           /\ n.tracked = m.tracked /\ n.entry = m.entry
           /\ \A x \in Peer : /\ n.docs[x].will = m.docs[x].will /\ n.docs[x].owed = m.docs[x].owed
                              /\ n.docs[x].refuses = m.docs[x].refuses
                              /\ n.docs[x].status \in {m.docs[x].status, "synced"}
<1> DEFINE r == [m.docs[q] EXCEPT !.status = "synced", !.cursor = v]
           k == SetPeerDoc(m, q, r)
<1>1. /\ r \in PeerDoc /\ r.will = m.docs[q].will /\ r.owed = m.docs[q].owed /\ r.refuses = m.docs[q].refuses
      /\ r.status = "synced"
  BY ModelFacts DEF PeerDoc
<1>2. OnPeerSynced(m, q, v) = IF m.entry.mode \in {"absent", "unloaded"} THEN m ELSE k
  BY DEF OnPeerSynced
<1> HIDE DEF r
<1>3. /\ k.tracked = m.tracked /\ k.entry = m.entry /\ \A x \in Peer \ {q} : k.docs[x] = m.docs[x]
      /\ k.docs[q] \in {r, m.docs[q]}
  BY <1>1, SetRecord
<1> HIDE DEF k
<1> QED BY <1>1, <1>2, <1>3

LEMMA OnlySyncedPushes ==
  ASSUME NEW p \in Peer, NEW m \in Model, NEW q \in Peer, NEW v \in Version, NEW d, NEW t, t = "offer", NEW msg
  PROVE  Pushes(p, m, Only(OnPeerSynced(m, q, v)), d, d, q, t, msg)
<1> DEFINE n == OnPeerSynced(m, q, v)
<1>1. /\ n.tracked = m.tracked /\ n.entry = m.entry
      /\ \A x \in Peer : /\ n.docs[x].will = m.docs[x].will /\ n.docs[x].owed = m.docs[x].owed
                         /\ n.docs[x].refuses = m.docs[x].refuses
                         /\ n.docs[x].status \in {m.docs[x].status, "synced"}
  BY OnPeerSyncedSame
<1> HIDE DEF n
<1>2. \A x \in Peer : Pushed(p, m, n, x, None, d, d, q, t, msg)
  BY <1>1, KeptPushed
<1>3. \A x \in Peer : Speaks(p, m, n, x, Silent[x], q, t)
  BY <1>1, SilentSpeaks DEF TakesIn
<1>4. Pushes(p, m, Only(n), d, d, q, t, msg)
  BY <1>2, <1>3, OnlyPushes
<1> QED BY <1>4 DEF n

LEMMA SyncedPushes ==
  ASSUME NEW p \in Peer, NEW m \in Model, NEW q \in Peer, NEW v \in Version, NEW d, NEW t, NEW msg,
         NEW reply \in Reply, Pushes(p, m, reply, d, d, q, t, msg)
  PROVE  Pushes(p, m, [reply EXCEPT !.model = OnPeerSynced(@, q, v)], d, d, q, t, msg)
<1> DEFINE n == reply.model
           k == OnPeerSynced(n, q, v)
           next == [reply EXCEPT !.model = OnPeerSynced(@, q, v)]
<1>1. n \in Model /\ next.model = k /\ next.offers = reply.offers /\ next.says = reply.says
  BY DEF Reply
<1> HIDE DEF n, next
<1>2. /\ k.tracked = n.tracked /\ k.entry = n.entry
      /\ \A x \in Peer : /\ k.docs[x].will = n.docs[x].will /\ k.docs[x].owed = n.docs[x].owed
                         /\ k.docs[x].refuses = n.docs[x].refuses
                         /\ k.docs[x].status \in {n.docs[x].status, "synced"}
  BY <1>1, OnPeerSyncedSame
<1> HIDE DEF k
<1>3. ASSUME NEW x \in Peer
      PROVE  /\ Pushed(p, m, k, x, next.offers[x], d, d, q, t, msg)
             /\ Speaks(p, m, k, x, next.says[x], q, t)
  <2>1. Pushed(p, m, n, x, next.offers[x], d, d, q, t, msg) /\ Speaks(p, m, n, x, next.says[x], q, t)
    BY <1>1 DEF Pushes, n
  <2>2. Pushed(p, m, k, x, next.offers[x], d, d, q, t, msg)
    BY <1>2, <2>1, TurnedPushed
  <2> QED BY <1>2, <2>1, <2>2 DEF Speaks, TakesIn
<1>4. Pushes(p, m, next, d, d, q, t, msg)
  BY <1>1, <1>3 DEF Pushes
<1> QED BY <1>4 DEF next

\* What the sender of an offer will hold: what it was to hold, and what it offers.
LEMMA ImportedPushed ==
  ASSUME NEW p \in Peer, NEW m \in Model, NEW q \in Peer, NEW n, NEW c \in Version, NEW d \in Version, NEW msg,
         msg.version \in Version, q \in Shares[p], m.entry.mode = "held", n.entry.mode = "held",
         \A w \in Peer : d[w] \in {c[w], msg.version[w]},
         NEW s, s = n.docs[q], s.owed = m.docs[q].owed, s.refuses = m.docs[q].refuses, s.status \in {"pending", "synced"},
         s.will = (IF m.docs[q].will = None THEN msg.version ELSE Join(m.docs[q].will, msg.version))
  PROVE  Pushed(p, m, n, q, None, c, d, q, "offer", msg)
<1> DEFINE r == m.docs[q]
<1>1. r \in PeerDoc /\ r.will \in MaybeVersion /\ r.owed \in MaybeVersion
  BY ModelFacts
<1>2. Starts(s, None, {r.will, r.owed, msg.version})
  <2> DEFINE B == {r.will, r.owed, msg.version}
  <2>1. StartsFrom(None, B) /\ StartsFrom(r.owed, B)
    BY <1>1, StartsSelf
  <2>2. StartsFrom(s.will, B)
    <3>1. CASE r.will = None
      <4>1. s.will = msg.version /\ msg.version # None /\ \A w \in Peer : msg.version[w] \in Nat
        BY <3>1, NoneAssumption DEF Version
      <4>2. msg.version \in B
        OBVIOUS
      <4>3. ASSUME NEW w \in Peer PROVE s.will[w] <= msg.version[w]
        BY <4>1
      <4> HIDE DEF B
      <4> QED BY <4>1, <4>2, <4>3 DEF StartsFrom
    <3>2. CASE r.will # None
      <4>1. r.will \in Version /\ s.will = Join(r.will, msg.version)
        BY <1>1, <3>2 DEF MaybeVersion
      <4> HIDE DEF r
      <4>2. ASSUME NEW w \in Peer PROVE s.will[w] \in {r.will[w], msg.version[w]} /\ s.will[w] \in Nat
        BY <4>1 DEF Join, Version
      <4>3. ASSUME NEW w \in Peer PROVE \E u \in B : u # None /\ s.will[w] <= u[w]
        BY <3>2, <4>2, NoneAssumption
      <4> QED BY <4>3 DEF StartsFrom
    <3> QED BY <3>1, <3>2
  <2> QED BY <2>1, <2>2 DEF Starts
<1>3. ASSUME UpToDate(r, c) PROVE UpToDate(s, d)
  <2>1. CASE r.owed # None
    BY <2>1 DEF UpToDate
  <2>2. CASE r.owed = None
    <3>1. r.will \in Version /\ Reaches(r.will, c)
      BY <1>1, <1>3, <2>2 DEF UpToDate, MaybeVersion
    <3>2. s.will = Join(r.will, msg.version) /\ r.will # None
      BY <3>1, NoneAssumption
    <3> HIDE DEF r
    <3>3. ASSUME NEW w \in Peer PROVE d[w] <= s.will[w]
      <4>1. r.will[w] \in Nat /\ msg.version[w] \in Nat /\ c[w] \in Nat /\ c[w] <= r.will[w]
        BY <3>1 DEF Version, Reaches
      <4>2. s.will[w] = IF r.will[w] < msg.version[w] THEN msg.version[w] ELSE r.will[w]
        BY <3>2 DEF Join
      <4>3. CASE d[w] = c[w]
        BY <4>1, <4>2, <4>3
      <4>4. CASE d[w] = msg.version[w]
        BY <4>1, <4>2, <4>4
      <4> QED BY <4>3, <4>4
    <3>4. s.will \in Version
      BY <3>1, <3>2, VersionFacts
    <3> QED BY <3>3, <3>4, NoneAssumption DEF UpToDate, Reaches
  <2> QED BY <2>1, <2>2
<1>4. s.refuses = r.refuses
  OBVIOUS
<1> HIDE DEF r
<1> QED BY <1>2, <1>3, <1>4 DEF Pushed, r

LEMMA OnDocImportedPushes ==
  ASSUME NEW p \in Peer, NEW m \in Model, NEW q \in m.tracked, q \in Shares[p], TakesIn(m), NEW c \in Version, NEW d \in Version,
         NEW changed, ~changed => d = c, NEW msg, msg.version \in Version,
         \A w \in Peer : d[w] \in {c[w], msg.version[w]}
  PROVE  LET will == IF m.docs[q].will = None THEN msg.version ELSE Join(m.docs[q].will, msg.version)
         IN  Pushes(p, m, OnDocImported(p, m, q, d, changed, msg.version, will), c, d, q, "offer", msg)
<1> DEFINE will == IF m.docs[q].will = None THEN msg.version ELSE Join(m.docs[q].will, msg.version)
           bumped == [m EXCEPT !.entry.version = d]
           relay == IF changed THEN Push(p, bumped, {q}) ELSE Only(bumped)
           k == relay.model
           r == k.docs[q]
           rs == [r EXCEPT !.status = "synced", !.cursor = msg.version, !.will = will]
           rp == [r EXCEPT !.status = "pending", !.will = will]
           synced == SetPeerDoc(k, q, rs)
           pending == SetPeerDoc(k, q, rp)
           asks == To({q}, <<InterestTo(pending, q, FALSE)>>)
<1>0. q \in Peer /\ m.entry.mode = "held" /\ ~m.entry.leaving /\ m.entry \in Entry
  BY ModelFacts DEF TakesIn
<1>1. /\ bumped \in Model /\ bumped.docs = m.docs /\ bumped.tracked = m.tracked
      /\ bumped.entry.mode = "held" /\ bumped.entry.leaving = m.entry.leaving
  BY <1>0 DEF Model, SyncModel, Entry
<1>2. OnDocImported(p, m, q, d, changed, msg.version, will) =
        IF Reaches(d, msg.version) THEN Offering(synced, relay.offers)
        ELSE [model |-> pending, offers |-> relay.offers, says |-> asks]
  BY <1>0 DEF OnDocImported
<1> HIDE DEF bumped
<1>3. /\ k \in Model /\ k.tracked = m.tracked /\ k.entry.mode = "held" /\ k.entry.leaving = m.entry.leaving
      /\ k.docs[q] = m.docs[q] /\ relay.offers[q] = None
  <2>1. CASE changed
    <3>1. relay = Push(p, bumped, {q})
      BY <2>1
    <3>2. k \in Model
      BY <1>1, <3>1, PushAnswers DEF Answers, Reply
    <3>3. LET n == Push(p, bumped, {q}).model o == Push(p, bumped, {q}).offers[q] IN
            n.entry = bumped.entry /\ n.tracked = bumped.tracked /\ o = None /\ n.docs[q] = bumped.docs[q]
      BY <1>0, <1>1, PushRecords
    <3> QED BY <1>1, <3>1, <3>2, <3>3
  <2>2. CASE ~changed
    BY <1>0, <1>1, <2>2 DEF Only, NoOffers
  <2> QED BY <2>1, <2>2
<1>4. ASSUME NEW x \in Peer, x # q PROVE Pushed(p, m, k, x, relay.offers[x], c, d, q, "offer", msg)
  <2>1. CASE changed
    <3>1. relay = Push(p, bumped, {q}) /\ x \notin {q}
      BY <1>4, <2>1
    <3>2. Pushed(p, m, Push(p, bumped, {q}).model, x, Push(p, bumped, {q}).offers[x], c, d, q, "offer", msg)
      BY <1>0, <1>1, <1>4, <3>1, PushPushed
    <3> QED BY <3>1, <3>2
  <2>2. CASE ~changed
    <3>1. k = bumped /\ relay.offers[x] = None
      BY <2>2 DEF Only, NoOffers
    <3>2. Pushed(p, m, bumped, x, None, c, d, q, "offer", msg)
      BY <1>1, <1>4, <2>2, SamePushed
    <3> QED BY <3>1, <3>2
  <2> QED BY <2>1, <2>2
<1>5. will \in Version /\ msg.version \in MaybeVersion
  BY <1>0, ModelFacts, VersionFacts DEF MaybeVersion
<1>6. /\ rs \in PeerDoc /\ rs.owed = m.docs[q].owed /\ rs.refuses = m.docs[q].refuses /\ rs.status = "synced" /\ rs.will = will
      /\ rp \in PeerDoc /\ rp.owed = m.docs[q].owed /\ rp.refuses = m.docs[q].refuses /\ rp.status = "pending" /\ rp.will = will
  <2>1. r \in PeerDoc /\ r = m.docs[q]
    BY <1>0, <1>3, ModelFacts
  <2> HIDE DEF r, will
  <2> QED BY <1>5, <2>1 DEF PeerDoc, MaybeVersion
<1> HIDE DEF k, rs, rp, relay
<1>7. ASSUME NEW u \in {rs, rp}, NEW n, n = SetPeerDoc(k, q, u)
      PROVE  /\ n.tracked = k.tracked /\ n.entry = k.entry /\ n.docs[q] = u
             /\ \A x \in Peer : Pushed(p, m, n, x, relay.offers[x], c, d, q, "offer", msg)
  <2>1. /\ n.tracked = k.tracked /\ n.entry = k.entry /\ n.docs[q] = u
        /\ \A x \in Peer \ {q} : n.docs[x] = k.docs[x]
    <3>1. u \in PeerDoc /\ u.status # "none" /\ q \in k.tracked /\ k \in Model
      BY <1>0, <1>3, <1>6, <1>7
    <3> QED BY <1>0, <1>7, <3>1, SetKnown
  <2>2. Pushed(p, m, n, q, None, c, d, q, "offer", msg)
    <3>1. /\ u.owed = m.docs[q].owed /\ u.refuses = m.docs[q].refuses /\ u.status \in {"pending", "synced"}
          /\ u.will = (IF m.docs[q].will = None THEN msg.version ELSE Join(m.docs[q].will, msg.version))
      BY <1>6
    <3>2. n.entry.mode = "held" /\ u = n.docs[q]
      BY <1>3, <2>1
    <3> HIDE DEF will
    <3> QED BY <1>0, <3>1, <3>2, ImportedPushed
  <2>3. ASSUME NEW x \in Peer, x # q PROVE Pushed(p, m, n, x, relay.offers[x], c, d, q, "offer", msg)
    <3>1. Pushed(p, m, k, x, relay.offers[x], c, d, q, "offer", msg)
      BY <1>4, <2>3
    <3>2. n.docs[x] = k.docs[x] /\ n.entry.mode = k.entry.mode
      BY <2>1, <2>3
    <3> QED BY <2>1, <3>1, <3>2, TurnedPushed
  <2>4. \A x \in Peer : Pushed(p, m, n, x, relay.offers[x], c, d, q, "offer", msg)
    BY <1>3, <2>2, <2>3
  <2> QED BY <2>1, <2>4
<1>8. ASSUME NEW n, n.entry = k.entry, NEW said, said = <<>> \/ \E i : i.type = "interest" /\ said = <<i>>, NEW x \in Peer
      PROVE  Speaks(p, m, n, x, said, q, "offer")
  <2>1. \A T : Tells(said, T) => "interest" \in T
    BY <1>8, TellsOne DEF Tells
  <2>2. TakesIn(n) /\ n.entry.mode = "held"
    BY <1>0, <1>3, <1>8 DEF TakesIn
  <2> QED BY <1>0, <2>1, <2>2 DEF Speaks, TakesIn
<1>9. ASSUME NEW x \in Peer PROVE asks[x] = <<>> \/ \E i : i.type = "interest" /\ asks[x] = <<i>>
  <2>1. asks[x] = IF x \in {q} THEN <<InterestTo(pending, q, FALSE)>> ELSE <<>>
    BY DEF To
  <2> HIDE DEF asks, pending
  <2> QED BY <2>1, InterestType
<1>10. Silent \in [Peer -> {<<>>}]
  BY DEF Silent
<1> HIDE DEF asks
<1>11. Pushes(p, m, Offering(synced, relay.offers), c, d, q, "offer", msg)
  <2>1. synced.entry = k.entry /\ \A x \in Peer : Pushed(p, m, synced, x, relay.offers[x], c, d, q, "offer", msg)
    BY <1>7
  <2> HIDE DEF synced
  <2>2. \A x \in Peer : Speaks(p, m, synced, x, Silent[x], q, "offer")
    BY <1>8, <1>10, <2>1
  <2> QED BY <2>1, <2>2 DEF Pushes, Offering
<1>12. Pushes(p, m, [model |-> pending, offers |-> relay.offers, says |-> asks], c, d, q, "offer", msg)
  <2>1. pending.entry = k.entry /\ \A x \in Peer : Pushed(p, m, pending, x, relay.offers[x], c, d, q, "offer", msg)
    BY <1>7
  <2> HIDE DEF pending
  <2>2. \A x \in Peer : Speaks(p, m, pending, x, asks[x], q, "offer")
    BY <1>8, <1>9, <2>1
  <2> DEFINE reply == [model |-> pending, offers |-> relay.offers, says |-> asks]
  <2>3. reply.model = pending /\ reply.offers = relay.offers /\ reply.says = asks
    OBVIOUS
  <2> HIDE DEF reply
  <2>4. Pushes(p, m, reply, c, d, q, "offer", msg)
    BY <2>1, <2>2, <2>3 DEF Pushes
  <2> QED BY <2>4 DEF reply
<1> HIDE DEF synced, pending
<1> QED BY <1>2, <1>11, <1>12

LEMMA TellsInterest ==
  ASSUME NEW Q, NEW m, NEW y, NEW f, NEW x \in Peer, NEW T
  PROVE  Tells(To(Q, <<InterestTo(m, y, f)>>)[x], T) <=> x \in Q /\ "interest" \in T
<1> DEFINE j == InterestTo(m, y, f)
<1>1. j.type = "interest"
  BY InterestType
<1> HIDE DEF j
<1>2. Tells(To(Q, <<j>>)[x], T) <=> x \in Q /\ "interest" \in T
  BY <1>1, TellsTo
<1> QED BY <1>2 DEF j

LEMMA OnPresentPushes ==
  ASSUME NEW p \in Peer, NEW m \in Model, NEW d, NEW q \in Peer, NEW t, t = "present", NEW msg
  PROVE  Pushes(p, m, OnPresent(p, m, q), d, d, q, t, msg)
<1> DEFINE k == ReloadOnDemand(p, m)
           says == To({q}, <<InterestTo(m, q, TRUE)>>)
<1>1. \/ OnPresent(p, m, q) = Only(m) /\ (q \notin Sharers(p, m) \/ ~TakesIn(m))
      \/ OnPresent(p, m, q) = Only(k) /\ m.entry.mode = "unloaded"
      \/ OnPresent(p, m, q) = Saying(m, says)
  BY DEF OnPresent, TakesIn
<1>2. CASE OnPresent(p, m, q) = Only(m) /\ (q \notin Sharers(p, m) \/ ~TakesIn(m))
  BY <1>2, SamePushes
<1>3. CASE OnPresent(p, m, q) = Only(k) /\ m.entry.mode = "unloaded"
  <2>1. k.docs = m.docs /\ k.tracked = m.tracked /\ k.entry.mode = m.entry.mode
    BY ReloadSame
  <2> HIDE DEF k
  <2>2. \A x \in Peer : Pushed(p, m, k, x, None, d, d, q, t, msg)
    BY <1>3, <2>1, SamePushed
  <2>3. \A x \in Peer : Speaks(p, m, k, x, Silent[x], q, t)
    BY <1>3, <2>1, SilentSpeaks DEF TakesIn
  <2> QED BY <1>3, <2>2, <2>3, OnlyPushes
<1>4. CASE OnPresent(p, m, q) = Saying(m, says)
  <2>1. \A x \in Peer : Pushed(p, m, m, x, None, d, d, q, t, msg)
    BY SamePushed
  <2>2. ASSUME NEW x \in Peer PROVE Speaks(p, m, m, x, says[x], q, t)
    <3> DEFINE Q == {q}
    <3>0. \A T : Tells(To(Q, <<InterestTo(m, q, TRUE)>>)[x], T) <=> x \in Q /\ "interest" \in T
      <4> HIDE DEF Q
      <4> QED BY TellsInterest
    <3>1. \A T : Tells(says[x], T) <=> x = q /\ "interest" \in T
      BY <3>0
    <3> HIDE DEF says
    <3> QED BY <3>1 DEF Speaks
  <2> HIDE DEF says
  <2> QED BY <1>4, <2>1, <2>2, SayingPushes
<1> QED BY <1>1, <1>2, <1>3, <1>4

\* An interest: what is owed starts from what its sender holds.
LEMMA AskedPushed ==
  ASSUME NEW p \in Peer, NEW m \in Model, NEW n, NEW q \in Peer, NEW o, NEW d, NEW i \in Interest,
         q \in Shares[p], m.entry.mode = "held", n.entry.mode = "held",
         NEW s, s = n.docs[q], s.status = "pending", s.will = None, s.refuses = m.docs[q].refuses,
         o = (IF m.docs[q].refuses THEN None ELSE TheyHold(i)),
         s.owed = (IF m.docs[q].refuses THEN m.docs[q].owed ELSE TheyHold(i))
  PROVE  Pushed(p, m, n, q, o, d, d, q, "interest", i)
<1>1. TheyHold(i) \in Version
  BY DEF Interest, TheyHold
<1>2. TheyHold(i) # None
  BY <1>1, NoneAssumption
<1>3. StartsFrom(TheyHold(i), {TheyHold(i)}) /\ StartsFrom(None, {TheyHold(i)})
  <2> DEFINE v == TheyHold(i)
  <2>1. v \in Version
    BY <1>1
  <2> HIDE DEF v
  <2>2. ASSUME NEW w \in Peer PROVE v[w] <= v[w]
    BY <2>1 DEF Version
  <2>3. StartsFrom(v, {v}) /\ StartsFrom(None, {v})
    BY <1>2, <2>2 DEF StartsFrom, v
  <2> QED BY <2>3 DEF v
<1> DEFINE r == m.docs[q]
<1>4. ~r.refuses => Starts(s, o, {TheyHold(i)}) /\ UpToDate(s, d)
  BY <1>2, <1>3 DEF Starts, UpToDate
<1>5. s.refuses = r.refuses
  OBVIOUS
<1> HIDE DEF r
<1> QED BY <1>4, <1>5 DEF Pushed, r

LEMMA OnInterestPushes ==
  ASSUME NEW p \in Peer, NEW m \in Model, NEW d, NEW q \in Peer, NEW i \in Interest
  PROVE  Pushes(p, m, OnInterest(p, m, q, i), d, d, q, "interest", i)
<1> DEFINE answered == q \in ContentRecipients(p, m)
           r == [m.docs[q] EXCEPT !.status = "pending", !.held = TheyHold(i),
                     !.will = None, !.owed = IF answered THEN TheyHold(i) ELSE @]
           k == ReloadOnDemand(p, m)
           n == SetPeerDoc(m, q, r)
           o == [NoOffers EXCEPT ![q] = IF answered THEN TheyHold(i) ELSE None]
           says == To(IF i.reciprocate /\ ~m.entry.leaving THEN {q} ELSE {}, <<InterestTo(m, q, FALSE)>>)
           asked == [model |-> n, offers |-> o, says |-> says]
           vacant == To({q}, <<Vacant>>)
<1>1. \/ OnInterest(p, m, q, i) = Only(m) /\ (q \notin m.tracked \/ m.entry.mode # "held")
      \/ OnInterest(p, m, q, i) = Saying(m, vacant) /\ q \notin Shares[p]
      \/ OnInterest(p, m, q, i) = Only(k) /\ m.entry.mode = "unloaded"
      \/ OnInterest(p, m, q, i) = asked /\ q \in m.tracked /\ q \in Shares[p] /\ m.entry.mode = "held"
  BY ModelFacts DEF OnInterest, Entry
<1>2. CASE OnInterest(p, m, q, i) = Only(m) /\ (q \notin m.tracked \/ m.entry.mode # "held")
  BY <1>2, SamePushes
<1>3. CASE OnInterest(p, m, q, i) = Saying(m, vacant) /\ q \notin Shares[p]
  <2>1. \A x \in Peer : Pushed(p, m, m, x, None, d, d, q, "interest", i)
    BY <1>3, SamePushed
  <2>2. ASSUME NEW x \in Peer PROVE Speaks(p, m, m, x, vacant[x], q, "interest")
    <3>1. \A T : Tells(vacant[x], T) <=> x = q /\ "vacant" \in T
      BY TellsTo DEF Vacant
    <3> HIDE DEF vacant
    <3> QED BY <1>3, <3>1 DEF Speaks
  <2> HIDE DEF vacant
  <2> QED BY <1>3, <2>1, <2>2, SayingPushes
<1>4. CASE OnInterest(p, m, q, i) = Only(k) /\ m.entry.mode = "unloaded"
  <2>1. k.docs = m.docs /\ k.tracked = m.tracked /\ k.entry.mode = m.entry.mode
    BY ReloadSame
  <2> HIDE DEF k
  <2>2. \A x \in Peer : Pushed(p, m, k, x, None, d, d, q, "interest", i)
    BY <1>4, <2>1, SamePushed
  <2>3. \A x \in Peer : Speaks(p, m, k, x, Silent[x], q, "interest")
    BY <1>4, <2>1, SilentSpeaks DEF TakesIn
  <2> QED BY <1>4, <2>2, <2>3, OnlyPushes
<1>5. CASE OnInterest(p, m, q, i) = asked /\ q \in m.tracked /\ q \in Shares[p] /\ m.entry.mode = "held"
  <2>1. answered <=> ~m.docs[q].refuses
    BY <1>5 DEF ContentRecipients, Sharers
  <2>2. /\ r \in PeerDoc /\ r.status = "pending" /\ r.will = None /\ r.refuses = m.docs[q].refuses
        /\ r.owed = IF m.docs[q].refuses THEN m.docs[q].owed ELSE TheyHold(i)
    <3>1. TheyHold(i) \in Version /\ m.docs[q] \in PeerDoc
      BY ModelFacts DEF Interest, TheyHold
    <3> HIDE DEF answered
    <3> QED BY <2>1, <3>1 DEF PeerDoc
  <2>3. \A x \in Peer : o[x] = IF x = q /\ ~m.docs[q].refuses THEN TheyHold(i) ELSE None
    BY <2>1 DEF NoOffers
  <2> HIDE DEF r, o
  <2>4. /\ n.tracked = m.tracked /\ n.entry = m.entry /\ n.docs[q] = r
        /\ \A x \in Peer \ {q} : n.docs[x] = m.docs[x]
    BY <1>5, <2>2, SetRecord
  <2> HIDE DEF n
  <2>5. ASSUME NEW x \in Peer PROVE Pushed(p, m, n, x, o[x], d, d, q, "interest", i)
    <3>1. CASE x = q
      <4>1. o[q] = IF m.docs[q].refuses THEN None ELSE TheyHold(i)
        BY <2>3
      <4>2. n.entry.mode = "held" /\ r = n.docs[q]
        BY <1>5, <2>4
      <4>3. Pushed(p, m, n, q, o[q], d, d, q, "interest", i)
        BY <1>5, <2>2, <4>1, <4>2, AskedPushed
      <4> QED BY <3>1, <4>3
    <3>2. CASE x # q
      BY <2>3, <2>4, <3>2, SamePushed
    <3> QED BY <3>1, <3>2
  <2>6. ASSUME NEW x \in Peer PROVE Speaks(p, m, n, x, says[x], q, "interest")
    <3> DEFINE Q == IF i.reciprocate /\ ~m.entry.leaving THEN {q} ELSE {}
    <3>0. \A T : Tells(To(Q, <<InterestTo(m, q, FALSE)>>)[x], T) <=> x \in Q /\ "interest" \in T
      <4> HIDE DEF Q
      <4> QED BY TellsInterest
    <3>1. \A T : Tells(says[x], T) => "interest" \in T
      BY <3>0
    <3> HIDE DEF says
    <3> QED BY <2>4, <3>1 DEF Speaks, TakesIn
  <2> HIDE DEF says
  <2>7. asked.model = n /\ asked.offers = o /\ asked.says = says
    OBVIOUS
  <2> HIDE DEF asked
  <2>8. Pushes(p, m, asked, d, d, q, "interest", i)
    BY <2>5, <2>6, <2>7 DEF Pushes
  <2> QED BY <1>5, <2>8
<1> QED BY <1>1, <1>2, <1>3, <1>4, <1>5

LEMMA OnOfferVetoedPushes ==
  ASSUME NEW p \in Peer, NEW m \in Model, NEW d, NEW q \in Peer, q \notin Accepts[p], NEW t, t = "offer", NEW msg
  PROVE  Pushes(p, m, OnOfferVetoed(p, m, q), d, d, q, t, msg)
<1> DEFINE says == To({q} \cap Shares[p], <<Refuse>>)
<1>1. OnOfferVetoed(p, m, q) \in {Only(m), Saying(m, says)}
  BY DEF OnOfferVetoed
<1>2. Pushes(p, m, Only(m), d, d, q, t, msg)
  BY SamePushes
<1>3. \A x \in Peer : Pushed(p, m, m, x, None, d, d, q, t, msg)
  BY SamePushed
<1>4. ASSUME NEW x \in Peer PROVE Speaks(p, m, m, x, says[x], q, t)
  <2>1. \A T : Tells(says[x], T) => x = q /\ "refuse" \in T
    BY TellsTo DEF Refuse
  <2> HIDE DEF says
  <2> QED BY <2>1 DEF Speaks
<1> HIDE DEF says
<1> QED BY <1>1, <1>2, <1>3, <1>4, SayingPushes

\* An accept, a refusal and a vacant: what an offer would start from stays.
LEMMA OnAcceptPushes ==
  ASSUME NEW p \in Peer, NEW m \in Model, NEW d, NEW q \in Peer, NEW v \in Version, NEW t, t = "accept", NEW msg
  PROVE  Pushes(p, m, OnAccept(m, q, v), d, d, q, t, msg)
<1> DEFINE r == [m.docs[q] EXCEPT !.held = v]
           n == SetPeerDoc(m, q, r)
<1>1. /\ r \in PeerDoc /\ r.will = m.docs[q].will /\ r.owed = m.docs[q].owed /\ r.refuses = m.docs[q].refuses
      /\ r.status = m.docs[q].status
  BY ModelFacts DEF PeerDoc
<1> HIDE DEF r
<1>2. n.entry = m.entry /\ n.docs[q] \in {r, m.docs[q]} /\ \A x \in Peer \ {q} : n.docs[x] = m.docs[x]
  BY <1>1, SetRecord
<1> HIDE DEF n
<1>3. \A x \in Peer : Pushed(p, m, n, x, None, d, d, q, t, msg)
  BY <1>1, <1>2, KeptPushed
<1>4. \A x \in Peer : Speaks(p, m, n, x, Silent[x], q, t)
  BY <1>2, SilentSpeaks DEF TakesIn
<1> QED BY <1>3, <1>4, OnlyPushes DEF OnAccept, n, r

LEMMA OnRefusePushes ==
  ASSUME NEW p \in Peer, NEW m \in Model, NEW d, NEW q \in Peer, NEW t, t = "refuse", NEW msg
  PROVE  Pushes(p, m, OnRefuse(m, q), d, d, q, t, msg)
<1> DEFINE r == [m.docs[q] EXCEPT !.refuses = TRUE]
           n == SetPeerDoc(m, q, r)
<1>1. /\ r \in PeerDoc /\ r.will = m.docs[q].will /\ r.owed = m.docs[q].owed /\ r.refuses
      /\ r.status = m.docs[q].status
  <2>1. m.docs[q] \in PeerDoc
    BY ModelFacts
  <2> QED BY <2>1 DEF PeerDoc
<1> HIDE DEF r
<1>2. n.entry = m.entry /\ n.docs[q] \in {r, m.docs[q]} /\ \A x \in Peer \ {q} : n.docs[x] = m.docs[x]
  BY <1>1, SetRecord
<1> HIDE DEF n
<1>3. \A x \in Peer : Pushed(p, m, n, x, None, d, d, q, t, msg)
  BY <1>1, <1>2, KeptPushed
<1>4. \A x \in Peer : Speaks(p, m, n, x, Silent[x], q, t)
  BY <1>2, SilentSpeaks DEF TakesIn
<1> QED BY <1>3, <1>4, OnlyPushes DEF OnRefuse, n, r

LEMMA OnVacantPushes ==
  ASSUME NEW p \in Peer, NEW m \in Model, NEW d, NEW q \in Peer, NEW t, t = "vacant", NEW msg
  PROVE  Pushes(p, m, OnVacant(m, q), d, d, q, t, msg)
<1> DEFINE r == [m.docs[q] EXCEPT !.status = "vacant"]
           k == SetPeerDoc(m, q, r)
           n == IF m.entry.mode \in {"absent", "unloaded"} THEN m ELSE k
<1>1. /\ r \in PeerDoc /\ r.will = m.docs[q].will /\ r.owed = m.docs[q].owed /\ r.refuses = m.docs[q].refuses
  BY ModelFacts DEF PeerDoc
<1> HIDE DEF r
<1>2. k.entry = m.entry /\ k.docs[q] \in {r, m.docs[q]} /\ \A x \in Peer \ {q} : k.docs[x] = m.docs[x]
  BY <1>1, SetRecord
<1> HIDE DEF k
<1>3. n.entry = m.entry /\ n.docs[q] \in {r, m.docs[q]} /\ \A x \in Peer \ {q} : n.docs[x] = m.docs[x]
  BY <1>2
<1> HIDE DEF n
<1>4. \A x \in Peer : Pushed(p, m, n, x, None, d, d, q, t, msg)
  BY <1>1, <1>3, KeptPushed
<1>5. \A x \in Peer : Speaks(p, m, n, x, Silent[x], q, t)
  BY <1>3, SilentSpeaks DEF TakesIn
<1>6. Pushes(p, m, Only(n), d, d, q, t, msg)
  BY <1>4, <1>5, OnlyPushes
<1> QED BY <1>6 DEF OnVacant, n, k, r

LEMMA OnDismissPushes ==
  ASSUME NEW p \in Peer, NEW m \in Model, NEW d, NEW q \in Peer, NEW t, t = "dismiss", NEW msg
  PROVE  Pushes(p, m, OnDismiss(m, q), d, d, q, t, msg)
<1>1. CASE q \notin m.tracked
  BY <1>1, SamePushes DEF OnDismiss
<1>2. CASE q \in m.tracked
  <2> DEFINE n == [m EXCEPT !.docs[q] = Unknown]
  <2>1. n.entry = m.entry /\ n.tracked = m.tracked /\ \A x \in Peer : n.docs[x] = IF x = q THEN Unknown ELSE m.docs[x]
    BY DEF Model, SyncModel
  <2>2. OnDismiss(m, q) = Only(n)
    BY <1>2 DEF OnDismiss
  <2> HIDE DEF n
  <2>3. ASSUME NEW x \in Peer PROVE Pushed(p, m, n, x, None, d, d, q, t, msg)
    <3>1. CASE x = q
      <4>1. n.docs[x].will = None /\ n.docs[x].owed = None /\ ~n.docs[x].refuses
        BY <2>1, <3>1 DEF Unknown
      <4>2. Stays(m, n, x) => x = q /\ t \in {"establish", "dismiss"}
        BY <3>1
      <4> QED BY <4>1, <4>2, ForgottenPushed, Zenon
    <3>2. CASE x # q
      BY <2>1, <3>2, SamePushed
    <3> QED BY <3>1, <3>2
  <2>4. \A x \in Peer : Speaks(p, m, n, x, Silent[x], q, t)
    BY <2>1, SilentSpeaks DEF TakesIn
  <2> QED BY <2>2, <2>3, <2>4, OnlyPushes
<1> QED BY <1>1, <1>2

LEMMA OnDeclareVacantPushes ==
  ASSUME NEW p \in Peer, NEW m \in Model, ~TakesIn(m), NEW d, NEW q \in Peer, NEW t, t = "present", NEW msg
  PROVE  Pushes(p, m, OnDeclareVacant(m, q), d, d, q, t, msg)
<1> DEFINE says == To({q} \cap m.tracked, <<Vacant>>)
<1>1. OnDeclareVacant(m, q) = Saying(m, says)
  BY DEF OnDeclareVacant
<1>2. \A x \in Peer : Pushed(p, m, m, x, None, d, d, q, t, msg)
  BY SamePushed
<1>3. ASSUME NEW x \in Peer PROVE Speaks(p, m, m, x, says[x], q, t)
  <2>1. \A T : Tells(says[x], T) => "vacant" \in T
    BY TellsTo DEF Vacant
  <2> HIDE DEF says
  <2> QED BY <2>1 DEF Speaks
<1> HIDE DEF says
<1> QED BY <1>1, <1>2, <1>3, SayingPushes

-----------------------------------------------------------------------------
(* A turn of a program.                                                    *)

\* p's program takes an input of its own, t being "none", or the next message from q, of type t.  Its document only grows,
\* and an offer that connects to it is merged.
Turn(p, q, t, reply) ==
  /\ Pushes(p, model[p], reply, doc[p], doc'[p], q, t, Head(wire[q][p]))
  /\ \/ t = "none" /\ Acts(p, reply)
     \/ /\ t # "none" /\ p # q
        /\ \E first : /\ Reads(p, q, t, reply, first)
                      /\ \A x \in Peer : ~Tells(first[x], {"dismiss", "vacant", "refuse"})
  /\ t \in {"establish", "interest"} => reply.model.entry.mode = model[p].entry.mode
  /\ t = "offer" /\ q \in Accepts[p] /\ q \in model[p].tracked /\ TakesIn(model[p]) =>
       LET o == Head(wire[q][p]) IN Reaches(doc[p], o.from) => Reaches(doc'[p], o.version)

\* What p says to b, past what is under way, and what becomes of the record of b.
Told(p, b, reply, s) ==
  LET d == doc'[p]
      o == reply.offers[b]
      n == reply.model.docs[b]
      f == model'[p].docs[b]
  IN  /\ s \in Seq(Message) /\ wire'[p][b] = wire[p][b] \o s
      /\ end'[p][b] # "on" => s = <<>>
      /\ \A T : end'[p][b] = "on" /\ Tells(reply.says[b], T) => Tells(s, T)
      /\ \A T \in SUBSET {"dismiss", "vacant", "refuse"} : Tells(s, T) => Tells(reply.says[b], T)
      /\ \A i \in DOMAIN s : /\ s[i].type # "establish"
                             /\ s[i].type = "offer" => o # None /\ d \in Version /\ s[i] = Offer(o, d)
      /\ f.status = n.status /\ f.refuses = n.refuses
      /\ \/ f.will = n.will /\ f.owed = n.owed
         \/ f.will = d /\ f.owed = None /\ o # None /\ d \in Version /\ (end'[p][b] = "on" => Tells(s, {"offer"}))

\* What the shell sends changes, in what an offer will start from.
LEMMA OnOffersSentPushed ==
  ASSUME NEW m \in Model, NEW sent, NEW v, NEW n, n = OnOffersSent(m, sent, v), NEW x \in Peer
  PROVE  /\ n.docs[x].status = m.docs[x].status /\ n.docs[x].refuses = m.docs[x].refuses
         /\ \/ n.docs[x].will = m.docs[x].will /\ n.docs[x].owed = m.docs[x].owed
            \/ x \in sent /\ n.docs[x].will = v /\ n.docs[x].owed = None
<1> DEFINE docs == [q \in Peer |-> IF q \in sent \cap m.tracked /\ m.docs[q].status # "none"
                                   THEN [m.docs[q] EXCEPT !.will = v, !.owed = None] ELSE m.docs[q]]
<1>1. n = [m EXCEPT !.docs = docs]
  BY ModelFacts DEF OnOffersSent, Model, SyncModel
<1>2. n.docs = docs
  BY <1>1 DEF Model, SyncModel
<1>3. m.docs[x] \in PeerDoc
  BY ModelFacts
<1>4. docs[x] = IF x \in sent \cap m.tracked /\ m.docs[x].status # "none"
                THEN [m.docs[x] EXCEPT !.will = v, !.owed = None] ELSE m.docs[x]
  OBVIOUS
<1> HIDE DEF docs
<1> QED BY <1>2, <1>3, <1>4 DEF PeerDoc

LEMMA RunTold ==
  ASSUME SyncInv, NEW p \in Peer, NEW q \in Peer, NEW reply, NEW first, NEW w, NEW C, NEW V,
         Step(p, q, reply, first, w, C, V), NEW b \in Peer, ~Tells(first[b], {"dismiss", "vacant", "refuse"})
  PROVE  \E s : Told(p, b, reply, s)
<1> DEFINE d == doc'[p]
           o == reply.offers[b]
           sent == OffersSent(p, reply.offers, d, stored'[p])
           offer == IF b \in sent THEN <<Offer(o, d)>> ELSE <<>>
           says == reply.says[b]
           f1 == first[b]
           s == IF end'[p][b] = "on" THEN f1 \o offer \o says ELSE <<>>
           Z == {msg \in Message : /\ msg.type # "establish"
                                   /\ msg.type = "offer" => o # None /\ d \in Version /\ msg = Offer(o, d)}
<1>0. Alone(p, q, reply, w) /\ Types
  BY StepShape DEF SyncInv, Inv
<1>1. /\ model' = [model EXCEPT ![p] = OnOffersSent(reply.model, sent, d)]
      /\ wire' = [w EXCEPT ![p] = [x \in Peer |-> IF end'[p][x] = "on"
                     THEN @[x] \o first[x] \o (IF x \in sent THEN <<Offer(reply.offers[x], d)>> ELSE <<>>) \o reply.says[x]
                     ELSE @[x]]]
  BY DEF Step, Run
<1>2. /\ reply.model \in Model /\ o \in MaybeVersion
      /\ says \in Seq(Said(p, b)) /\ f1 \in Seq(Said(p, b))
  BY DEF Step, Answers, Reply
<1>3. b \in sent => d \in Version /\ o \in Version
  <2>1. b \in sent => d # None /\ o # None
    BY DEF OffersSent, GateOpen
  <2> QED BY <1>2, <2>1 DEF MaybeVersion, Step
<1>4. model'[p] = OnOffersSent(reply.model, sent, d)
  BY <1>0, <1>1 DEF Types
<1>5. w[p] = wire[p] /\ w \in [Peer -> [Peer -> Seq(Message)]] /\ wire[p][b] \in Seq(Message)
  BY <1>0 DEF Alone, Types
<1>6. wire'[p][b] = IF end'[p][b] = "on" THEN wire[p][b] \o f1 \o offer \o says ELSE wire[p][b]
  BY <1>1, <1>5
<1>7. Said(p, b) \subseteq Z /\ Z \subseteq Message
  BY DEF Said
<1>8. offer \in Seq(Z) /\ (Tells(offer, {"offer"}) <=> b \in sent) /\ \A T : Tells(offer, T) => "offer" \in T
  <2>1. CASE b \in sent
    <3>1. Offer(o, d) \in Z /\ Offer(o, d).type = "offer"
      BY <1>3, <2>1, NoneAssumption DEF Offer, Message
    <3>2. \A T : Tells(<<Offer(o, d)>>, T) <=> "offer" \in T
      BY <3>1, TellsOne
    <3> HIDE DEF Z, d, o
    <3> QED BY <2>1, <3>1, <3>2
  <2>2. CASE b \notin sent
    <3>1. offer = <<>>
      BY <2>2
    <3> HIDE DEF offer, Z
    <3> QED BY <2>2, <3>1, EmptySeq DEF Tells
  <2> QED BY <2>1, <2>2
<1> HIDE DEF Z, offer, says, f1, sent
<1>9. says \in Seq(Z) /\ f1 \in Seq(Z)
  BY <1>2, <1>7, SeqMonotonic
<1> DEFINE fo == f1 \o offer
           all == fo \o says
<1>10. fo \in Seq(Z) /\ \A T : Tells(fo, T) <=> Tells(f1, T) \/ Tells(offer, T)
  BY <1>8, <1>9, TellsJoined, ConcatProperties
<1>11. all \in Seq(Z) /\ \A T : Tells(all, T) <=> Tells(fo, T) \/ Tells(says, T)
  <2> HIDE DEF fo
  <2> QED BY <1>9, <1>10, TellsJoined, ConcatProperties
<1>12. s = (IF end'[p][b] = "on" THEN all ELSE <<>>)
  OBVIOUS
<1>13. wire'[p][b] = wire[p][b] \o s
  <2>1. f1 \in Seq(Message) /\ offer \in Seq(Message) /\ says \in Seq(Message)
    BY <1>7, <1>8, <1>9, SeqMonotonic
  <2>2. CASE end'[p][b] = "on"
    <3>1. wire'[p][b] = ((wire[p][b] \o f1) \o offer) \o says
      BY <1>6, <2>2
    <3>2. Joined(Joined(Joined(wire[p][b], f1), offer), says) = Joined(wire[p][b], Joined(Joined(f1, offer), says))
      <4> DEFINE W == wire[p][b]
      <4>1. W \in Seq(Message)
        BY <1>5
      <4> HIDE DEF W
      <4>2. Joined(Joined(Joined(W, f1), offer), says) = Joined(W, Joined(Joined(f1, offer), says))
        BY <2>1, <4>1, JoinedAssociative
      <4> QED BY <4>2 DEF W
    <3>3. wire'[p][b] = wire[p][b] \o ((f1 \o offer) \o says)
      BY <3>1, <3>2 DEF Joined
    <3> QED BY <2>2, <3>3
  <2>3. CASE end'[p][b] # "on"
    BY <1>5, <1>6, <2>3, ConcatEmptySeq
  <2> QED BY <2>2, <2>3
<1> HIDE DEF s, all, fo
<1>14. s \in Seq(Z) /\ s \in Seq(Message)
  <2>1. s \in Seq(Z)
    BY <1>11, <1>12, EmptySeq
  <2> QED BY <1>7, <2>1, SeqMonotonic
<1>15. ~Tells(<<>>, {}) /\ \A T : ~Tells(<<>>, T)
  BY DEF Tells
<1>16. \A T : end'[p][b] = "on" /\ Tells(says, T) => Tells(s, T)
  BY <1>11, <1>12
<1>17. \A T \in SUBSET {"dismiss", "vacant", "refuse"} : Tells(s, T) => Tells(says, T)
  <2> SUFFICES ASSUME NEW T \in SUBSET {"dismiss", "vacant", "refuse"}, Tells(s, T), ~Tells(says, T) PROVE FALSE
    OBVIOUS
  <2>1. Tells(all, T)
    BY <1>12, <1>15
  <2>2. Tells(f1, T) \/ Tells(offer, T)
    BY <1>10, <1>11, <2>1
  <2>3. Tells(f1, T)
    BY <1>8, <2>2
  <2>4. Tells(f1, {"dismiss", "vacant", "refuse"})
    BY <2>3 DEF Tells
  <2> QED BY <2>4 DEF f1
<1>18. \A i \in DOMAIN s : /\ s[i].type # "establish"
                           /\ s[i].type = "offer" => o # None /\ d \in Version /\ s[i] = Offer(o, d)
  <2>1. \A i \in DOMAIN s : s[i] \in Z
    BY <1>14, SeqElement
  <2> QED BY <2>1 DEF Z
<1>19. end'[p][b] = "on" /\ b \in sent => Tells(s, {"offer"})
  BY <1>8, <1>10, <1>11, <1>12
<1>20. b \in sent => o # None /\ d \in Version
  BY <1>3, NoneAssumption
<1>21. end'[p][b] # "on" => s = <<>>
  BY <1>12
<1> DEFINE m0 == reply.model
           n0 == model'[p]
<1>22. m0 \in Model /\ n0 = OnOffersSent(m0, sent, d)
  BY <1>2, <1>4
<1> HIDE DEF m0, n0, d
<1>23. /\ n0.docs[b].status = m0.docs[b].status /\ n0.docs[b].refuses = m0.docs[b].refuses
       /\ \/ n0.docs[b].will = m0.docs[b].will /\ n0.docs[b].owed = m0.docs[b].owed
          \/ b \in sent /\ n0.docs[b].will = d /\ n0.docs[b].owed = None
  BY <1>22, OnOffersSentPushed
<1> HIDE DEF o
<1>24. Told(p, b, reply, s)
  BY <1>13, <1>14, <1>16, <1>17, <1>18, <1>19, <1>20, <1>21, <1>23 DEF Told, m0, n0, d, o, says
<1> QED BY <1>24

\* The message p takes, if any, and the end it opens.
Delivers(p, q, t) ==
  /\ \A a \in Peer \ {p}, b \in Peer :
       wire'[a][b] = IF t # "none" /\ a = q /\ b = p THEN Tail(wire[q][p]) ELSE wire[a][b]
  /\ \A b \in Peer : end'[p][b] = IF t = "establish" /\ b = q THEN "on" ELSE end[p][b]
  /\ t # "none" => p # q /\ Arrives(p, q, t)

\* What a turn of p's leaves alone, and what it says.
Frame(p, q, t, reply) ==
  /\ \A a \in Peer \ {p} : model'[a] = model[a] /\ doc'[a] = doc[a] /\ end'[a] = end[a]
  /\ Delivers(p, q, t)
  /\ reply.model \in Model /\ model'[p].entry = reply.model.entry /\ model'[p].tracked = reply.model.tracked
  /\ \A b \in Peer : reply.offers[b] \in MaybeVersion /\ (b \notin Shares[p] => reply.offers[b] = None)
  /\ InMemory(p) /\ doc'[p] # None => Reaches(doc'[p], doc[p])
  /\ \A b \in Peer : \E s :
       /\ Told(p, b, reply, s)
       /\ b \in Shares[p] /\ end[p][b] = "on" /\ model[p].entry.mode = "held" /\ model'[p].entry.mode # "held" =>
            Tells(s, {"dismiss"})

LEMMA TakenMoves ==
  ASSUME SyncInv, NEW p \in Peer, NEW q \in Peer, wire[q][p] # <<>> PROVE Taken(p, q) # wire
<1>1. wire[q][p] \in Seq(Message) /\ Taken(p, q)[q][p] = Tail(wire[q][p])
  BY DEF SyncInv, Inv, Types, Taken
<1> DEFINE u == wire[q][p]
           v == Tail(u)
<1>2. Len(v) = Len(u) - 1 /\ Len(u) \in Nat \ {0}
  <2>1. u \in Seq(Message) /\ u # <<>>
    BY <1>1
  <2> HIDE DEF u
  <2> QED BY <2>1, TailAt
<1> HIDE DEF u, v
<1>3. v # u
  BY <1>2
<1> QED BY <1>1, <1>3 DEF u, v

LEMMA StepFrame ==
  ASSUME SyncInv, NEW p \in Peer, NEW q \in Peer, NEW t, NEW reply, NEW first, NEW w, NEW C, NEW V,
         Step(p, q, reply, first, w, C, V), t = "none" => q = p,
         t # "none" => Arrives(p, q, t) /\ w = Taken(p, q),
         \A x \in Peer : ~Tells(first[x], {"dismiss", "vacant", "refuse"})
  PROVE  Frame(p, q, t, reply)
<1>1. Alone(p, q, reply, w) /\ Ran(p, reply, w) /\ Types
  BY StepShape DEF SyncInv, Inv
<1>2. ASSUME t = "none" PROVE Delivers(p, q, t)
  <2>1. TakesNone(w, C, V)
    BY <1>2 DEF Step, TakesHead
  <2>2. w = wire /\ end' = end
    BY <2>1 DEF TakesNone
  <2>3. /\ \A a \in Peer \ {p}, b \in Peer :
             wire'[a][b] = IF t # "none" /\ a = q /\ b = p THEN Tail(wire[q][p]) ELSE wire[a][b]
        /\ \A b \in Peer : end'[p][b] = IF t = "establish" /\ b = q THEN "on" ELSE end[p][b]
    BY <1>1, <1>2, <2>2 DEF Alone
  <2> QED BY <1>2, <2>3 DEF Delivers
<1>3. ASSUME t # "none" PROVE Delivers(p, q, t)
  <2>1. wire[q][p] # <<>> /\ w = Taken(p, q) /\ Head(wire[q][p]).type = t
    BY <1>3 DEF Arrives
  <2>2. TakesHead(p, q, reply, w, C, V)
    BY <2>1, TakenMoves DEF Step, TakesNone
  <2>3. \A a, b \in Peer : w[a][b] = IF a = q /\ b = p THEN Tail(wire[q][p]) ELSE wire[a][b]
    BY <1>1, <2>1 DEF Taken, Types
  <2>4. /\ p # q
        /\ t = "establish" => end' = [end EXCEPT ![p][q] = "on"]
        /\ t # "establish" => end' = end
    BY <2>1, <2>2 DEF TakesHead
  <2>5. \A b \in Peer : end'[p][b] = IF t = "establish" /\ b = q THEN "on" ELSE end[p][b]
    <3>1. p \in DOMAIN end /\ DOMAIN end[p] = Peer
      BY <1>1 DEF Types
    <3> QED BY <2>4, <3>1
  <2>6. \A a \in Peer \ {p}, b \in Peer :
          wire'[a][b] = IF t # "none" /\ a = q /\ b = p THEN Tail(wire[q][p]) ELSE wire[a][b]
    <3>1. \A a \in Peer \ {p} : wire'[a] = w[a]
      BY <1>1 DEF Alone
    <3> QED BY <1>3, <2>3, <3>1
  <2>7. p # q /\ Arrives(p, q, t)
    BY <1>3, <2>4
  <2> QED BY <2>5, <2>6, <2>7 DEF Delivers
<1>4. Delivers(p, q, t)
  BY <1>2, <1>3
<1>5. \A a \in Peer \ {p} : model'[a] = model[a] /\ doc'[a] = doc[a] /\ end'[a] = end[a]
  BY <1>1 DEF Alone
<1>6. /\ reply.model \in Model /\ model'[p].entry = reply.model.entry /\ model'[p].tracked = reply.model.tracked
      /\ \A b \in Peer : reply.offers[b] \in MaybeVersion /\ (b \notin Shares[p] => reply.offers[b] = None)
  BY <1>1 DEF Step, Answers, Reply, Ran
<1>7. InMemory(p) /\ doc'[p] # None => Reaches(doc'[p], doc[p])
  BY DEF Step, Remains, InMemory
<1>8. ASSUME NEW b \in Peer
      PROVE  \E s : /\ Told(p, b, reply, s)
                    /\ b \in Shares[p] /\ end[p][b] = "on" /\ model[p].entry.mode = "held"
                         /\ model'[p].entry.mode # "held" => Tells(s, {"dismiss"})
  <2>1. PICK s : Told(p, b, reply, s)
    BY RunTold
  <2>2. ASSUME b \in Shares[p], end[p][b] = "on", model[p].entry.mode = "held", model'[p].entry.mode # "held"
        PROVE  Tells(s, {"dismiss"})
    <3>1. b \in Sharers(p, model[p])
      BY <2>2 DEF Sharers, SyncInv, RecordsInv, LinkTrue
    <3>2. reply.says[b] = <<Dismiss>>
      BY <1>6, <2>2, <3>1 DEF Step, Keeps
    <3>3. Tells(<<Dismiss>>, {"dismiss"})
      BY TellsOne DEF Dismiss
    <3>4. end'[p][b] = "on"
      BY <1>4, <2>2 DEF Delivers
    <3> QED BY <2>1, <3>2, <3>3, <3>4 DEF Told
  <2> QED BY <2>1, <2>2
<1> QED BY <1>4, <1>5, <1>6, <1>7, <1>8 DEF Frame

LEMMA TurnFrame ==
  ASSUME SyncInv, NEW p \in Peer, NEW q \in Peer, NEW t, NEW reply, Turn(p, q, t, reply) PROVE Frame(p, q, t, reply)
<1>1. CASE t # "none"
  <2>1. PICK first : /\ Reads(p, q, t, reply, first)
                     /\ \A x \in Peer : ~Tells(first[x], {"dismiss", "vacant", "refuse"})
    BY <1>1 DEF Turn
  <2> DEFINE C == Claims(q, t, Head(wire[q][p]))
             V == States(q, t, Head(wire[q][p]))
             w == Taken(p, q)
  <2>2. Step(p, q, reply, first, w, C, V) /\ Arrives(p, q, t) /\ w = Taken(p, q)
    BY <2>1 DEF Reads
  <2> HIDE DEF C, V, w
  <2> QED BY <1>1, <2>1, <2>2, StepFrame
<1>2. CASE t = "none"
  <2>1. Step(p, p, reply, Silent, wire, {}, {})
    BY <1>2 DEF Turn, Acts
  <2>2. \A x \in Peer : ~Tells(Silent[x], {"dismiss", "vacant", "refuse"})
    BY DEF Silent, Tells
  <2>3. Frame(p, p, t, reply)
    <3> DEFINE C == {}
               first == Silent
    <3>1. Step(p, p, reply, first, wire, C, C) /\ \A x \in Peer : ~Tells(first[x], {"dismiss", "vacant", "refuse"})
      BY <2>1, <2>2
    <3> HIDE DEF C, first
    <3> QED BY <1>2, <3>1, StepFrame
  <2> QED BY <1>2, <2>3 DEF Frame, Delivers
<1> QED BY <1>1, <1>2

-----------------------------------------------------------------------------
(* What a turn of p's does to the wires between p and b.                   *)

LEMMA TailTells ==
  ASSUME NEW S, NEW s \in Seq(S), s # <<>>, NEW T
  PROVE  (Tells(Tail(s), T) => Tells(s, T)) /\ (Tells(s, T) => s[1].type \in T \/ Tells(Tail(s), T))
<1> DEFINE v == Tail(s)
<1>1. /\ Len(s) \in Nat \ {0} /\ DOMAIN s = 1..Len(s) /\ DOMAIN v = 1..Len(s) - 1
      /\ \A i \in DOMAIN v : i + 1 \in DOMAIN s /\ v[i] = s[i + 1]
  BY TailAt
<1> HIDE DEF v
<1>2. Tells(v, T) => Tells(s, T)
  BY <1>1 DEF Tells
<1>3. ASSUME NEW i \in DOMAIN s, s[i].type \in T, i # 1 PROVE Tells(v, T)
  <2>1. i - 1 \in DOMAIN v /\ v[i - 1] = s[(i - 1) + 1] /\ (i - 1) + 1 = i
    BY <1>1, <1>3
  <2> QED BY <1>3, <2>1 DEF Tells
<1>4. Tells(s, T) => s[1].type \in T \/ Tells(v, T)
  BY <1>3 DEF Tells
<1> QED BY <1>2, <1>4 DEF v

\* To b: what was under way stays, and s is added.
LEMMA OwnWire ==
  ASSUME SyncInv, NEW p \in Peer, NEW b \in Peer, NEW reply, NEW s, Told(p, b, reply, s)
  PROVE  /\ wire[p][b] \in Seq(Message) /\ wire'[p][b] \in Seq(Message) /\ s \in Seq(Message)
         /\ Len(wire[p][b]) \in Nat /\ DOMAIN wire[p][b] = 1..Len(wire[p][b])
         /\ Len(s) \in Nat /\ DOMAIN s = 1..Len(s) /\ DOMAIN wire'[p][b] = 1..Len(wire[p][b]) + Len(s)
         /\ \A i \in DOMAIN wire[p][b] : i \in DOMAIN wire'[p][b] /\ wire'[p][b][i] = wire[p][b][i]
         /\ \A i \in DOMAIN s : Len(wire[p][b]) + i \in DOMAIN wire'[p][b] /\ wire'[p][b][Len(wire[p][b]) + i] = s[i]
         /\ \A i \in DOMAIN wire'[p][b] \ DOMAIN wire[p][b] :
              i - Len(wire[p][b]) \in DOMAIN s /\ wire'[p][b][i] = s[i - Len(wire[p][b])]
         /\ \A T : Tells(wire'[p][b], T) <=> Tells(wire[p][b], T) \/ Tells(s, T)
<1> DEFINE W == wire[p][b]
           X == wire'[p][b]
<1>1. W \in Seq(Message) /\ s \in Seq(Message) /\ X = W \o s
  BY DEF SyncInv, Inv, Types, Told
<1> HIDE DEF W, X
<1>2. /\ X \in Seq(Message) /\ Len(W) \in Nat /\ Len(s) \in Nat
      /\ DOMAIN W = 1..Len(W) /\ DOMAIN s = 1..Len(s) /\ DOMAIN X = 1..Len(W) + Len(s)
      /\ \A i \in DOMAIN W : X[i] = W[i]
      /\ \A i \in DOMAIN s : X[Len(W) + i] = s[i]
      /\ \A i \in DOMAIN X \ DOMAIN W : i - Len(W) \in DOMAIN s /\ X[i] = s[i - Len(W)]
  BY <1>1, ConcatAt
<1>3. \A T : Tells(X, T) <=> Tells(W, T) \/ Tells(s, T)
  BY <1>1, TellsJoined
<1>4. /\ \A i \in DOMAIN W : i \in DOMAIN X
      /\ \A i \in DOMAIN s : Len(W) + i \in DOMAIN X
  BY <1>2
<1> QED BY <1>1, <1>2, <1>3, <1>4 DEF W, X

\* From b: the message taken goes.
Took(p, q, t, b) == t # "none" /\ b = q

LEMMA OtherWire ==
  ASSUME SyncInv, NEW p \in Peer, NEW q \in Peer, NEW t, Delivers(p, q, t), NEW b \in Peer \ {p}
  PROVE  /\ ~Took(p, q, t, b) => wire'[b][p] = wire[b][p]
         /\ Took(p, q, t, b) =>
              /\ wire[b][p] # <<>> /\ wire'[b][p] = Tail(wire[b][p])
              /\ 1 \in DOMAIN wire[b][p] /\ wire[b][p][1] = Head(wire[q][p]) /\ wire[b][p][1].type = t
              /\ DOMAIN wire[b][p] = 1..Len(wire[b][p]) /\ Len(wire[b][p]) \in Nat
              /\ DOMAIN wire'[b][p] = 1..Len(wire[b][p]) - 1
              /\ \A i \in DOMAIN wire'[b][p] : i + 1 \in DOMAIN wire[b][p] /\ wire'[b][p][i] = wire[b][p][i + 1]
         /\ \A T : Tells(wire'[b][p], T) => Tells(wire[b][p], T)
         /\ \A T : Tells(wire[b][p], T) /\ ~(Took(p, q, t, b) /\ t \in T) => Tells(wire'[b][p], T)
<1> DEFINE U == wire[b][p]
           X == wire'[b][p]
<1>1. U \in Seq(Message)
  BY DEF SyncInv, Inv, Types
<1>2. ~Took(p, q, t, b) => X = U
  BY DEF Delivers, Took
<1>3. Took(p, q, t, b) => U # <<>> /\ X = Tail(U) /\ U = wire[q][p] /\ Head(U).type = t
  BY DEF Delivers, Took, Arrives
<1> HIDE DEF U, X
<1>4. U # <<>> => /\ Len(U) \in Nat \ {0} /\ U[1] = Head(U) /\ DOMAIN U = 1..Len(U)
                  /\ DOMAIN Tail(U) = 1..Len(U) - 1
                  /\ \A i \in DOMAIN Tail(U) : i + 1 \in DOMAIN U /\ Tail(U)[i] = U[i + 1]
  <2> DEFINE v == Tail(U)
  <2>1. U # <<>> => /\ Len(U) \in Nat \ {0} /\ U[1] = Head(U) /\ DOMAIN U = 1..Len(U)
                    /\ DOMAIN v = 1..Len(U) - 1
                    /\ \A i \in DOMAIN v : i + 1 \in DOMAIN U /\ v[i] = U[i + 1]
    BY <1>1, TailAt
  <2> QED BY <2>1
<1>5. Took(p, q, t, b) =>
              /\ U # <<>> /\ X = Tail(U)
              /\ 1 \in DOMAIN U /\ U[1] = Head(wire[q][p]) /\ U[1].type = t
              /\ DOMAIN U = 1..Len(U) /\ Len(U) \in Nat
              /\ DOMAIN X = 1..Len(U) - 1
              /\ \A i \in DOMAIN X : i + 1 \in DOMAIN U /\ X[i] = U[i + 1]
  BY <1>3, <1>4
<1>6. \A T : Took(p, q, t, b) =>
               (Tells(X, T) => Tells(U, T)) /\ (Tells(U, T) => t \in T \/ Tells(X, T))
  BY <1>1, <1>3, <1>5, TailTells
<1>7. \A T : Tells(X, T) => Tells(U, T)
  BY <1>2, <1>6
<1>8. \A T : Tells(U, T) /\ ~(Took(p, q, t, b) /\ t \in T) => Tells(X, T)
  BY <1>2, <1>6
<1> QED BY <1>2, <1>5, <1>7, <1>8 DEF U, X

-----------------------------------------------------------------------------
(* Refusals, and offers that start nowhere.                                *)

LEMMA RefusalOwn ==
  ASSUME SyncInv, PushInv, NEW p \in Peer, NEW q \in Peer, NEW t, NEW reply, Turn(p, q, t, reply), NEW b \in Peer \ {p}
  PROVE  RefusalTrue(p, b)'
<1>1. Frame(p, q, t, reply) /\ Delivers(p, q, t)
  BY TurnFrame DEF Frame
<1>2. SUFFICES ASSUME p \in Accepts[b] PROVE ~model'[p].docs[b].refuses /\ ~Tells(wire'[b][p], {"refuse"})
  BY DEF RefusalTrue, At, Under
<1>3. ~model[p].docs[b].refuses /\ ~Tells(wire[b][p], {"refuse"})
  BY <1>2 DEF PushInv, PairTrue, RefusalTrue, At, Under
<1>4. ~Tells(wire'[b][p], {"refuse"})
  BY <1>1, <1>3, OtherWire
<1>5. PICK s : Told(p, b, reply, s)
  BY <1>1 DEF Frame
<1>6. model'[p].docs[b].refuses => b = q /\ t = "refuse"
  BY <1>3, <1>5 DEF Told, Turn, Pushes, Pushed
<1>7. ~(b = q /\ t = "refuse")
  <2> SUFFICES ASSUME b = q, t = "refuse" PROVE FALSE
    OBVIOUS
  <2>1. Took(p, q, t, b)
    BY DEF Took
  <2>2. 1 \in DOMAIN wire[b][p] /\ wire[b][p][1].type = "refuse"
    BY <1>1, <2>1, OtherWire
  <2> QED BY <1>3, <2>2 DEF Tells
<1> QED BY <1>4, <1>6, <1>7

LEMMA RefusalTaken ==
  ASSUME SyncInv, PushInv, NEW p \in Peer, NEW q \in Peer, NEW t, NEW reply, Turn(p, q, t, reply), NEW a \in Peer \ {p}
  PROVE  RefusalTrue(a, p)'
<1>1. Frame(p, q, t, reply)
  BY TurnFrame
<1>2. SUFFICES ASSUME a \in Accepts[p] PROVE ~model'[a].docs[p].refuses /\ ~Tells(wire'[p][a], {"refuse"})
  BY DEF RefusalTrue, At, Under
<1>3. ~model[a].docs[p].refuses /\ ~Tells(wire[p][a], {"refuse"}) /\ model'[a] = model[a]
  BY <1>1, <1>2 DEF PushInv, PairTrue, RefusalTrue, At, Under, Frame
<1>4. PICK s : Told(p, a, reply, s)
  BY <1>1 DEF Frame
<1>5. ~Tells(s, {"refuse"})
  BY <1>2, <1>4 DEF Told, Turn, Pushes, Speaks
<1> QED BY <1>3, <1>4, <1>5, OwnWire

LEMMA UnaskedOwn ==
  ASSUME SyncInv, PushInv, NEW p \in Peer, NEW q \in Peer, NEW t, NEW reply, Turn(p, q, t, reply), NEW b \in Peer \ {p}
  PROVE  UnaskedTrue(p, b)'
<1>1. Frame(p, q, t, reply) /\ Delivers(p, q, t)
  BY TurnFrame DEF Frame
<1>2. PICK s : Told(p, b, reply, s)
  BY <1>1 DEF Frame
<1> DEFINE m == model[p]
           n == reply.model
           o == reply.offers[b]
<1>3. UnaskedTrue(p, b)
  BY DEF PushInv, PairTrue
<1>4. n.entry = model'[p].entry
  BY <1>1 DEF Frame
<1>5. Pushed(p, m, n, b, o, doc[p], doc'[p], q, t, Head(wire[q][p]))
  BY DEF Turn, Pushes
<1>6. Unasked(n, b) /\ o = None => Unasked(model'[p], b)
  BY <1>2 DEF Told, Unasked
<1>7. CASE b \notin Shares[p] \/ n.entry.mode # "held"
  <2>1. o = None
    BY <1>1, <1>5, <1>7 DEF Frame, Pushed
  <2>2. Unasked(n, b)
    BY <1>3, <1>5, <1>7 DEF Pushed, UnaskedTrue
  <2> QED BY <1>6, <2>1, <2>2 DEF UnaskedTrue
<1>8. CASE end'[p][b] = "on" /\ end'[b][p] = "opening"
  <2>1. end[b][p] = "opening"
    BY <1>1, <1>8 DEF Frame
  <2>2. CASE t = "establish" /\ b = q
    <3>1. n.docs[b].will = None /\ n.docs[b].owed = None /\ o = None
      BY <1>5, <2>2 DEF Pushed
    <3> QED BY <1>6, <3>1 DEF UnaskedTrue, Unasked
  <2>3. CASE ~(t = "establish" /\ b = q)
    <3>1. end[p][b] = "on"
      BY <1>1, <1>8, <2>3 DEF Delivers
    <3>2. Unasked(m, b)
      BY <1>3, <2>1, <3>1 DEF UnaskedTrue
    <3>3. ~Took(p, q, t, b)
      <4> SUFFICES ASSUME Took(p, q, t, b) PROVE FALSE
        OBVIOUS
      <4>1. 1 \in DOMAIN wire[b][p] /\ WireTrue(b, p)
        BY <1>1, OtherWire DEF SyncInv, RecordsInv
      <4> QED BY <2>1, <3>1, <4>1 DEF WireTrue
    <3>4. Starts(n.docs[b], o, {m.docs[b].will, m.docs[b].owed})
      BY <1>5, <3>3 DEF Pushed, Took
    <3>5. n.docs[b].will = None /\ n.docs[b].owed = None /\ o = None
      BY <3>2, <3>4 DEF Starts, StartsFrom, Unasked
    <3> QED BY <1>6, <3>5 DEF UnaskedTrue, Unasked
  <2> QED BY <2>2, <2>3
<1> QED BY <1>4, <1>7, <1>8 DEF UnaskedTrue

LEMMA UnaskedTaken ==
  ASSUME SyncInv, PushInv, NEW p \in Peer, NEW q \in Peer, NEW t, NEW reply, Turn(p, q, t, reply), NEW a \in Peer \ {p}
  PROVE  UnaskedTrue(a, p)'
<1>1. Frame(p, q, t, reply)
  BY TurnFrame
<1>2. model'[a] = model[a] /\ end'[a][p] = end[a][p] /\ (end'[p][a] = "opening" => end[p][a] = "opening")
  BY <1>1 DEF Frame, Delivers
<1>3. UnaskedTrue(a, p)
  BY DEF PushInv, PairTrue
<1> QED BY <1>2, <1>3 DEF UnaskedTrue, Unasked

-----------------------------------------------------------------------------
(* Dismissed peers ask anew, and an opening end is yet to read.            *)

LEMMA AgainOwn ==
  ASSUME SyncInv, PushInv, NEW p \in Peer, NEW q \in Peer, NEW t, NEW reply, Turn(p, q, t, reply), NEW b \in Peer \ {p}
  PROVE  AskedAgain(p, b)'
<1> DEFINE W == wire[p][b]
           X == wire'[p][b]
           m == model[p]
           n == reply.model
<1>1. Frame(p, q, t, reply) /\ Delivers(p, q, t)
  BY TurnFrame DEF Frame
<1>2. PICK s : Told(p, b, reply, s)
  BY <1>1 DEF Frame
<1>3. /\ Len(W) \in Nat /\ DOMAIN W = 1..Len(W) /\ Len(s) \in Nat /\ DOMAIN s = 1..Len(s) /\ DOMAIN X = 1..Len(W) + Len(s)
      /\ \A i \in DOMAIN W : i \in DOMAIN X /\ X[i] = W[i]
      /\ \A i \in DOMAIN s : Len(W) + i \in DOMAIN X /\ X[Len(W) + i] = s[i]
      /\ \A i \in DOMAIN X \ DOMAIN W : i - Len(W) \in DOMAIN s /\ X[i] = s[i - Len(W)]
  BY <1>2, OwnWire
<1>4. n.entry = model'[p].entry
  BY <1>1 DEF Frame
<1>5. SUFFICES ASSUME TakesIn(n), b \in Shares[p], NEW i \in DOMAIN X, X[i].type \in {"dismiss", "vacant"}
               PROVE  \E j \in DOMAIN X : j > i /\ X[j].type = "interest"
  BY <1>4 DEF AskedAgain, TakesIn
<1>6. Speaks(p, m, n, b, reply.says[b], q, t)
  BY DEF Turn, Pushes
<1>7. ~Tells(s, {"dismiss", "vacant"})
  BY <1>2, <1>5, <1>6 DEF Speaks, Told
<1> HIDE DEF X
<1>8. i \in DOMAIN W /\ W[i].type \in {"dismiss", "vacant"}
  BY <1>3, <1>5, <1>7 DEF Tells
<1>9. CASE TakesIn(m)
  <2>1. AskedAgain(p, b)
    BY DEF PushInv, PairTrue
  <2>2. PICK j \in DOMAIN W : j > i /\ W[j].type = "interest"
    BY <1>5, <1>8, <1>9, <2>1 DEF AskedAgain
  <2> HIDE DEF W
  <2> QED BY <1>3, <2>2
<1>10. CASE ~TakesIn(m)
  <2>1. end[p][b] = "on" /\ b \in m.tracked
    BY <1>8 DEF SyncInv, RecordsInv, WireTrue, LinkTrue
  <2>2. end'[p][b] = "on" /\ b \in Sharers(p, m)
    BY <1>1, <1>5, <2>1 DEF Delivers, Sharers
  <2>3. Tells(s, {"interest"})
    BY <1>2, <1>5, <1>6, <1>10, <2>2 DEF Speaks, Told
  <2>4. PICK j \in DOMAIN s : s[j].type = "interest"
    BY <2>3 DEF Tells
  <2> HIDE DEF W
  <2>5. Len(W) + j \in DOMAIN X /\ X[Len(W) + j].type = "interest" /\ Len(W) + j > i
    BY <1>3, <1>8, <2>4
  <2> QED BY <2>5
<1> QED BY <1>9, <1>10

LEMMA AgainTaken ==
  ASSUME SyncInv, PushInv, NEW p \in Peer, NEW q \in Peer, NEW t, NEW reply, Turn(p, q, t, reply), NEW a \in Peer \ {p}
  PROVE  AskedAgain(a, p)'
<1> DEFINE W == wire[a][p]
           X == wire'[a][p]
<1>1. Frame(p, q, t, reply) /\ Delivers(p, q, t)
  BY TurnFrame DEF Frame
<1>2. AskedAgain(a, p) /\ model'[a] = model[a]
  BY <1>1 DEF PushInv, PairTrue, Frame
<1>3. CASE ~Took(p, q, t, a)
  <2>1. X = W
    BY <1>1, <1>3, OtherWire
  <2> QED BY <1>2, <2>1 DEF AskedAgain, TakesIn
<1>4. CASE Took(p, q, t, a)
  <2>1. /\ DOMAIN W = 1..Len(W) /\ Len(W) \in Nat /\ DOMAIN X = 1..Len(W) - 1
        /\ \A i \in DOMAIN X : i + 1 \in DOMAIN W /\ X[i] = W[i + 1]
    BY <1>1, <1>4, OtherWire
  <2>2. SUFFICES ASSUME TakesIn(model[a]), p \in Shares[a], NEW i \in DOMAIN X, X[i].type \in {"dismiss", "vacant"}
                 PROVE  \E j \in DOMAIN X : j > i /\ X[j].type = "interest"
    BY <1>2 DEF AskedAgain, TakesIn
  <2>3. PICK j \in DOMAIN W : j > i + 1 /\ W[j].type = "interest"
    BY <1>2, <2>1, <2>2 DEF AskedAgain
  <2> HIDE DEF W, X
  <2>4. j - 1 \in DOMAIN X /\ j - 1 > i /\ X[j - 1] = W[(j - 1) + 1] /\ (j - 1) + 1 = j
    BY <2>1, <2>3
  <2> QED BY <2>3, <2>4
<1> QED BY <1>3, <1>4

LEMMA OpeningOwn ==
  ASSUME SyncInv, PushInv, NEW p \in Peer, NEW q \in Peer, NEW t, NEW reply, Turn(p, q, t, reply), NEW b \in Peer \ {p}
  PROVE  Opening(p, b)'
<1>1. Frame(p, q, t, reply)
  BY TurnFrame
<1>2. PICK s : Told(p, b, reply, s)
  BY <1>1 DEF Frame
<1>3. Opening(p, b) /\ end'[b][p] = end[b][p]
  BY <1>1 DEF PushInv, PairTrue, Frame
<1> DEFINE W == wire[p][b]
           X == wire'[p][b]
<1>4. /\ Len(W) \in Nat /\ DOMAIN W = 1..Len(W) /\ W \in Seq(Message)
      /\ \A i \in DOMAIN W : i \in DOMAIN X /\ X[i] = W[i]
  BY <1>2, OwnWire
<1>5. SUFFICES ASSUME end[b][p] = "opening" PROVE X # <<>> /\ X[1].type = "establish"
  BY <1>3 DEF Opening
<1>6. W # <<>> /\ W[1].type = "establish"
  BY <1>3, <1>5 DEF Opening
<1> HIDE DEF W, X
<1>7. 1 \in DOMAIN W
  BY <1>4, <1>6
<1> QED BY <1>4, <1>6, <1>7

\* An end that is opening takes nothing but `establish`.
LEMMA OpeningTakes ==
  ASSUME SyncInv, PushInv, NEW p \in Peer, NEW q \in Peer, NEW t, NEW reply, Turn(p, q, t, reply), NEW a \in Peer \ {p},
         end'[p][a] = "opening"
  PROVE  end[p][a] = "opening" /\ ~Took(p, q, t, a) /\ wire'[a][p] = wire[a][p]
<1>1. Frame(p, q, t, reply) /\ Delivers(p, q, t)
  BY TurnFrame DEF Frame
<1>2. end[p][a] = "opening" /\ ~(t = "establish" /\ a = q)
  BY <1>1 DEF Delivers
<1>3. Opening(a, p)
  BY DEF PushInv, PairTrue
<1>4. ~Took(p, q, t, a)
  BY <1>1, <1>2, <1>3, OtherWire DEF Opening, Took
<1> QED BY <1>1, <1>2, <1>4, OtherWire

LEMMA OpeningTaken ==
  ASSUME SyncInv, PushInv, NEW p \in Peer, NEW q \in Peer, NEW t, NEW reply, Turn(p, q, t, reply), NEW a \in Peer \ {p}
  PROVE  Opening(a, p)'
<1>1. Opening(a, p)
  BY DEF PushInv, PairTrue
<1> QED BY <1>1, OpeningTakes DEF Opening

-----------------------------------------------------------------------------
(* What is offered is held.                                                *)

\* What p holds it holds after its turn, or it says that it dismisses.
LEMMA HoldsOrDismisses ==
  ASSUME SyncInv, SyncInv', NEW p \in Peer, NEW q \in Peer, NEW t, NEW reply, Turn(p, q, t, reply),
         NEW v \in Version, Holds(p, v)
  PROVE  model'[p].entry.mode = "held" => Reaches(doc'[p], v)
<1>1. Frame(p, q, t, reply)
  BY TurnFrame
<1>2. Knows(model[p], doc[p]) /\ Knows(model'[p], doc'[p]) /\ doc[p] \in MaybeVersion /\ doc'[p] \in MaybeVersion
  BY DEF SyncInv, RecordsInv, Inv, Types
<1>3. ASSUME model'[p].entry.mode = "held" PROVE Reaches(doc'[p], v)
  <2>1. doc[p] # None /\ doc'[p] # None /\ Reaches(doc[p], v)
    BY <1>2, <1>3 DEF Holds, Knows, EntryFits
  <2>2. doc[p] \in Version /\ doc'[p] \in Version /\ Reaches(doc'[p], doc[p])
    BY <1>1, <1>2, <2>1 DEF MaybeVersion, Frame, InMemory
  <2> QED BY <2>1, <2>2, ReachesTransitive
<1> QED BY <1>3

LEMMA OfferOwn ==
  ASSUME SyncInv, SyncInv', PushInv, NEW p \in Peer, NEW q \in Peer, NEW t, NEW reply, Turn(p, q, t, reply),
         NEW b \in Peer \ {p}
  PROVE  OfferTrue(p, b)'
<1> DEFINE W == wire[p][b]
           X == wire'[p][b]
<1>1. Frame(p, q, t, reply) /\ Delivers(p, q, t)
  BY TurnFrame DEF Frame
<1>2. PICK s : /\ Told(p, b, reply, s)
               /\ b \in Shares[p] /\ end[p][b] = "on" /\ model[p].entry.mode = "held" /\ model'[p].entry.mode # "held" =>
                    Tells(s, {"dismiss"})
  BY <1>1 DEF Frame
<1>3. /\ Len(W) \in Nat /\ DOMAIN W = 1..Len(W) /\ Len(s) \in Nat /\ DOMAIN s = 1..Len(s) /\ DOMAIN X = 1..Len(W) + Len(s)
      /\ \A i \in DOMAIN W : i \in DOMAIN X /\ X[i] = W[i]
      /\ \A i \in DOMAIN s : Len(W) + i \in DOMAIN X /\ X[Len(W) + i] = s[i]
      /\ \A i \in DOMAIN X \ DOMAIN W : i - Len(W) \in DOMAIN s /\ X[i] = s[i - Len(W)]
      /\ W \in Seq(Message)
  BY <1>2, OwnWire
<1>4. SUFFICES ASSUME NEW i \in DOMAIN X, X[i].type = "offer"
               PROVE  (model'[p].entry.mode = "held" /\ Reaches(doc'[p], X[i].version))
                      \/ \E j \in DOMAIN X : j > i /\ X[j].type = "dismiss"
  BY DEF OfferTrue, Holds, Dismissing
<1>5. OfferTrue(p, b)
  BY DEF PushInv, PairTrue
<1> HIDE DEF X
<1>6. CASE i \in DOMAIN W
  <2>1. W[i].type = "offer" /\ X[i] = W[i] /\ W[i] \in Message
    BY <1>3, <1>4, <1>6, SeqElement
  <2>2. W[i].version \in Version
    BY <2>1 DEF Message
  <2>3. Holds(p, W[i].version) \/ Dismissing(p, b, i)
    BY <1>5, <1>6, <2>1 DEF OfferTrue
  <2>4. CASE Dismissing(p, b, i)
    <3>1. PICK j \in DOMAIN W : j > i /\ W[j].type = "dismiss"
      BY <2>4 DEF Dismissing
    <3> HIDE DEF W
    <3> QED BY <1>3, <3>1
  <2>5. CASE Holds(p, W[i].version) /\ model'[p].entry.mode = "held"
    BY <2>1, <2>2, <2>5, HoldsOrDismisses
  <2>6. CASE Holds(p, W[i].version) /\ model'[p].entry.mode # "held"
    <3>1. end[p][b] = "on"
      BY <1>6, <2>1 DEF SyncInv, RecordsInv, WireTrue
    <3>2. b \in Shares[p]
      <4>1. W \in Seq(Fit(p, b, stored))
        BY DEF SyncInv, Inv, WiresFit
      <4>2. W[i] \in Fit(p, b, stored)
        BY <1>6, <4>1, SeqElement
      <4> QED BY <2>1, <4>2 DEF Fit
    <3>3. Tells(s, {"dismiss"})
      BY <1>2, <2>6, <3>1, <3>2 DEF Holds
    <3>4. PICK j \in DOMAIN s : s[j].type = "dismiss"
      BY <3>3 DEF Tells
    <3> HIDE DEF W
    <3>5. Len(W) + j \in DOMAIN X /\ X[Len(W) + j].type = "dismiss" /\ Len(W) + j > i
      BY <1>3, <1>6, <3>4
    <3> QED BY <3>5
  <2> QED BY <2>3, <2>4, <2>5, <2>6
<1>7. CASE i \notin DOMAIN W
  <2> DEFINE k == i - Len(W)
  <2>1. k \in DOMAIN s /\ X[i] = s[k]
    BY <1>3, <1>7
  <2> HIDE DEF k
  <2>2. reply.offers[b] # None /\ doc'[p] \in Version /\ X[i] = Offer(reply.offers[b], doc'[p])
    BY <1>2, <1>4, <2>1 DEF Told
  <2>3. reply.model.entry.mode = "held"
    BY <2>2 DEF Turn, Pushes, Pushed
  <2>4. model'[p].entry.mode = "held"
    BY <1>1, <2>3 DEF Frame
  <2>5. X[i].version = doc'[p] /\ Reaches(doc'[p], doc'[p])
    BY <2>2 DEF Offer, Reaches, Version
  <2> QED BY <2>4, <2>5
<1> QED BY <1>6, <1>7

LEMMA OfferTaken ==
  ASSUME SyncInv, PushInv, NEW p \in Peer, NEW q \in Peer, NEW t, NEW reply, Turn(p, q, t, reply), NEW a \in Peer \ {p}
  PROVE  OfferTrue(a, p)'
<1> DEFINE W == wire[a][p]
           X == wire'[a][p]
<1>1. Frame(p, q, t, reply) /\ Delivers(p, q, t)
  BY TurnFrame DEF Frame
<1>2. OfferTrue(a, p) /\ model'[a] = model[a] /\ doc'[a] = doc[a]
  BY <1>1 DEF PushInv, PairTrue, Frame
<1>3. SUFFICES ASSUME NEW i \in DOMAIN X, X[i].type = "offer"
               PROVE  Holds(a, X[i].version) \/ \E j \in DOMAIN X : j > i /\ X[j].type = "dismiss"
  BY <1>2 DEF OfferTrue, Holds, Dismissing
<1>4. CASE ~Took(p, q, t, a)
  <2>1. X = W
    BY <1>1, <1>4, OtherWire
  <2> QED BY <1>2, <1>3, <2>1 DEF OfferTrue, Dismissing
<1>5. CASE Took(p, q, t, a)
  <2>1. /\ DOMAIN W = 1..Len(W) /\ Len(W) \in Nat /\ DOMAIN X = 1..Len(W) - 1
        /\ \A k \in DOMAIN X : k + 1 \in DOMAIN W /\ X[k] = W[k + 1]
    BY <1>1, <1>5, OtherWire
  <2>2. Holds(a, X[i].version) \/ Dismissing(a, p, i + 1)
    BY <1>2, <1>3, <2>1 DEF OfferTrue
  <2>3. CASE Dismissing(a, p, i + 1)
    <3>1. PICK j \in DOMAIN W : j > i + 1 /\ W[j].type = "dismiss"
      BY <2>3 DEF Dismissing
    <3> HIDE DEF W, X
    <3>2. j - 1 \in DOMAIN X /\ j - 1 > i /\ X[j - 1] = W[(j - 1) + 1] /\ (j - 1) + 1 = j
      BY <1>3, <2>1, <3>1
    <3> QED BY <3>1, <3>2
  <2> QED BY <2>2, <2>3
<1> QED BY <1>4, <1>5

-----------------------------------------------------------------------------
(* An advance is sent, owed or asked for.                                  *)

LEMMA PresentOwn ==
  ASSUME SyncInv, PushInv, NEW p \in Peer, NEW q \in Peer, NEW t, NEW reply, Turn(p, q, t, reply), NEW b \in Peer \ {p},
         model'[p].entry.mode = "held", end'[p][b] = "on", b \in Shares[p],
         end'[b][p] = "opening" \/ (t = "establish" /\ b = q) \/ model[p].entry.mode # "held"
  PROVE  Tells(wire'[p][b], {"present"})
<1> DEFINE m == model[p]
           n == reply.model
<1>1. Frame(p, q, t, reply) /\ Delivers(p, q, t)
  BY TurnFrame DEF Frame
<1>2. PICK s : Told(p, b, reply, s)
  BY <1>1 DEF Frame
<1>3. n.entry = model'[p].entry /\ end'[b][p] = end[b][p]
  BY <1>1 DEF Frame
<1>4. Speaks(p, m, n, b, reply.says[b], q, t)
  BY DEF Turn, Pushes
<1>5. CASE t = "establish" /\ b = q
  <2>1. m.entry.mode = "held"
    BY <1>3, <1>5 DEF Turn
  <2>2. Tells(s, {"present"})
    BY <1>2, <1>4, <1>5, <2>1 DEF Speaks, Told
  <2> QED BY <1>2, <2>2, OwnWire
<1>6. CASE ~(t = "establish" /\ b = q)
  <2>1. end[p][b] = "on"
    BY <1>1, <1>6 DEF Delivers
  <2>2. CASE m.entry.mode = "held"
    <3>1. Tells(wire[p][b], {"present"})
      BY <1>3, <1>6, <2>1, <2>2 DEF PushInv, PairTrue, AdvanceTrue, Under
    <3> QED BY <1>2, <3>1, OwnWire
  <2>3. CASE m.entry.mode # "held"
    <3>1. b \in Sharers(p, m)
      BY <2>1 DEF SyncInv, RecordsInv, LinkTrue, Sharers
    <3>2. Tells(s, {"present"})
      BY <1>2, <1>3, <1>4, <2>3, <3>1 DEF Speaks, Told
    <3> QED BY <1>2, <3>2, OwnWire
  <2> QED BY <2>2, <2>3
<1> QED BY <1>5, <1>6

\* What is not taken is under way still.
LEMMA StillUnder ==
  ASSUME SyncInv, NEW p \in Peer, NEW q \in Peer, NEW t, Delivers(p, q, t), NEW b \in Peer \ {p}, NEW e,
         Tells(wire[b][p], {e}), ~(b = q /\ t = e /\ t # "none")
  PROVE  Tells(wire'[b][p], {e})
<1> DEFINE T == {e}
<1>1. Tells(wire[b][p], T) /\ ~(Took(p, q, t, b) /\ t \in T)
  BY DEF Took
<1> HIDE DEF T
<1>2. Tells(wire'[b][p], T)
  BY <1>1, OtherWire
<1> QED BY <1>2 DEF T

LEMMA AdvanceOwn ==
  ASSUME SyncInv, SyncInv', PushInv, NEW p \in Peer, NEW q \in Peer, NEW t, NEW reply, Turn(p, q, t, reply),
         NEW b \in Peer \ {p}
  PROVE  AdvanceTrue(p, b)'
<1> DEFINE m == model[p]
           n == reply.model
           d == doc'[p]
           r == m.docs[b]
           u == n.docs[b]
           f == model'[p].docs[b]
<1>1. Frame(p, q, t, reply) /\ Delivers(p, q, t)
  BY TurnFrame DEF Frame
<1>2. SUFFICES ASSUME end'[p][b] = "on", end'[b][p] = "on", b \in Shares[p], p \in Shares[b], TakesIn(model'[b]),
                      model'[p].entry.mode = "held", ~f.refuses,
                      ~Tells(wire'[b][p], {"interest"}), ~Tells(wire'[p][b], {"present"})
               PROVE  UpToDate(f, d)
  BY PresentOwn DEF AdvanceTrue, Taking, Under, At, TakesIn, UpToDate
<1>3. PICK s : Told(p, b, reply, s)
  BY <1>1 DEF Frame
<1>4. ~(t = "establish" /\ b = q) /\ m.entry.mode = "held" /\ n.entry.mode = "held"
  BY <1>1, <1>2, PresentOwn DEF Frame
<1>5. end[p][b] = "on" /\ end[b][p] = "on" /\ TakesIn(model[b])
  BY <1>1, <1>2, <1>4 DEF Frame, Delivers
<1>6. Stays(m, n, b)
  <2>1. b \in m.tracked
    BY <1>5 DEF SyncInv, RecordsInv, LinkTrue
  <2>2. b \in model'[p].tracked
    BY <1>2 DEF SyncInv, RecordsInv, LinkTrue
  <2> QED BY <1>1, <1>4, <2>1, <2>2 DEF Stays, Frame
<1>7. Pushed(p, m, n, b, reply.offers[b], doc[p], d, q, t, Head(wire[q][p]))
  BY DEF Turn, Pushes
<1>8. ~(b = q /\ t \in {"dismiss", "vacant"})
  <2> SUFFICES ASSUME b = q, t \in {"dismiss", "vacant"} PROVE FALSE
    OBVIOUS
  <2>1. Took(p, q, t, b)
    BY DEF Took
  <2>2. 1 \in DOMAIN wire[b][p] /\ wire[b][p][1].type = t
    BY <1>1, <2>1, OtherWire
  <2>3. \E j \in DOMAIN wire[b][p] : wire[b][p][j].type = "interest"
    BY <1>2, <1>5, <2>2 DEF PushInv, PairTrue, AskedAgain
  <2>4. Tells(wire[b][p], {"interest"})
    BY <2>3 DEF Tells
  <2>5. Tells(wire'[b][p], {"interest"})
    BY <1>1, <2>4, StillUnder
  <2> QED BY <1>2, <2>5
<1>9. ~u.refuses
  BY <1>2, <1>3 DEF Told
<1>10. ~r.refuses
  BY <1>4, <1>6, <1>7, <1>8, <1>9 DEF Pushed
<1>11. UpToDate(u, d)
  <2>1. CASE b = q /\ t = "interest"
    BY <1>2, <1>6, <1>7, <1>10, <2>1 DEF Pushed
  <2>2. CASE ~(b = q /\ t = "interest")
    <3>1. ~Tells(wire[b][p], {"interest"})
      BY <1>1, <1>2, <2>2, StillUnder
    <3>2. ~Tells(wire[p][b], {"present"})
      BY <1>2, <1>3, OwnWire
    <3>3. AdvanceTrue(p, b)
      BY DEF PushInv, PairTrue
    <3>4. UpToDate(r, doc[p])
      BY <1>2, <1>4, <1>5, <1>10, <3>1, <3>2, <3>3 DEF AdvanceTrue, Taking, Under, At
    <3> QED BY <1>2, <1>4, <1>6, <1>7, <1>8, <1>10, <2>2, <3>4 DEF Pushed
  <2> QED BY <2>1, <2>2
<1>12. d \in Version => Reaches(d, d) /\ d # None
  BY NoneAssumption DEF Reaches, Version
<1> QED BY <1>3, <1>11, <1>12 DEF UpToDate, Told

LEMMA AdvanceTaken ==
  ASSUME SyncInv, PushInv, NEW p \in Peer, NEW q \in Peer, NEW t, NEW reply, Turn(p, q, t, reply), NEW a \in Peer \ {p}
  PROVE  AdvanceTrue(a, p)'
<1> DEFINE m == model[p]
           n == reply.model
<1>1. Frame(p, q, t, reply) /\ Delivers(p, q, t)
  BY TurnFrame DEF Frame
<1>2. model'[a] = model[a] /\ doc'[a] = doc[a] /\ end'[a] = end[a] /\ n.entry = model'[p].entry
  BY <1>1 DEF Frame
<1>3. AdvanceTrue(a, p)
  BY DEF PushInv, PairTrue
<1>4. ASSUME model[a].entry.mode = "held", end[a][p] = "on", end'[p][a] = "opening", p \in Shares[a]
      PROVE  Tells(wire'[a][p], {"present"})
  <2>1. end[p][a] = "opening" /\ wire'[a][p] = wire[a][p]
    BY <1>4, OpeningTakes
  <2> QED BY <1>3, <1>4, <2>1 DEF AdvanceTrue, Under
<1>5. ASSUME end[a][p] = "on", end'[p][a] = "on", p \in Shares[a], a \in Shares[p], TakesIn(n), model[a].entry.mode = "held",
             ~At(a, p).refuses, ~Tells(wire'[p][a], {"interest"}), ~Tells(wire'[a][p], {"present"})
      PROVE  UpToDate(At(a, p), doc[a])
  <2>1. PICK s : Told(p, a, reply, s)
    BY <1>1 DEF Frame
  <2>2. ~Tells(s, {"interest"}) /\ ~Tells(wire[p][a], {"interest"})
    BY <1>5, <2>1, OwnWire
  <2>3. ~Tells(reply.says[a], {"interest"})
    BY <1>5, <2>1, <2>2 DEF Told
  <2>4. Speaks(p, m, n, a, reply.says[a], q, t)
    BY DEF Turn, Pushes
  <2>5. ~(t = "establish" /\ a = q)
    <3> SUFFICES ASSUME t = "establish", a = q PROVE FALSE
      OBVIOUS
    <3>1. Took(p, q, t, a)
      BY DEF Took
    <3>2. 1 \in DOMAIN wire[a][p] /\ wire[a][p][1].type = "establish"
      BY <1>1, <3>1, OtherWire
    <3>3. end[p][a] = "opening"
      BY <3>2 DEF SyncInv, RecordsInv, WireTrue
    <3>4. Tells(wire[a][p], {"present"})
      BY <1>3, <1>5, <3>3 DEF AdvanceTrue, Under
    <3>5. Tells(wire'[a][p], {"present"})
      BY <1>1, <3>4, StillUnder
    <3> QED BY <1>5, <3>5
  <2>6. end[p][a] = "on"
    BY <1>1, <1>5, <2>5 DEF Delivers
  <2>7. a \in Sharers(p, m)
    BY <1>5, <2>6 DEF SyncInv, RecordsInv, LinkTrue, Sharers
  <2>8. TakesIn(m)
    BY <1>5, <2>3, <2>4, <2>7 DEF Speaks
  <2>9. ~(a = q /\ t = "present")
    BY <2>3, <2>4, <2>7, <2>8 DEF Speaks
  <2>10. ~Tells(wire[a][p], {"present"})
    BY <1>1, <1>5, <2>9, StillUnder
  <2> QED BY <1>3, <1>5, <2>2, <2>6, <2>8, <2>10 DEF AdvanceTrue, Taking, Under
<1> QED BY <1>2, <1>4, <1>5 DEF AdvanceTrue, Taking, Under, At, TakesIn, UpToDate

-----------------------------------------------------------------------------
(* Chains of offers.                                                       *)

LEMMA NoChain == ASSUME NEW r, r.will = None, r.owed = None, NEW d, NEW W PROVE Chain(r, d, W)
<1>1. Sound(d, W, {}) /\ Reached(d, W, {}, r.will) /\ Reached(d, W, {}, r.owed)
  BY DEF Sound, Reached
<1> QED BY <1>1 DEF Chain

\* What starts nowhere past what is reached is reached.
LEMMA StartsReached ==
  ASSUME NEW d \in Version, NEW W, NEW S, \A i \in S : W[i].version \in Version,
         NEW B \in SUBSET MaybeVersion, \A u \in B : Reached(d, W, S, u),
         NEW v \in MaybeVersion, StartsFrom(v, B)
  PROVE  Reached(d, W, S, v)
<1> SUFFICES ASSUME v # None, NEW w \in Peer PROVE Brings(d, W, S, w, v[w])
  BY DEF Reached
<1>1. PICK u \in B : u # None /\ v[w] <= u[w]
  BY DEF StartsFrom
<1>2. Brings(d, W, S, w, u[w]) /\ u \in Version /\ v \in Version
  BY <1>1 DEF Reached, MaybeVersion
<1>3. u[w] \in Nat /\ v[w] \in Nat /\ d[w] \in Nat /\ \A i \in S : W[i].version[w] \in Nat
  BY <1>2 DEF Version
<1>4. CASE u[w] <= d[w]
  <2>1. v[w] <= d[w]
    BY <1>1, <1>3, <1>4
  <2> QED BY <2>1 DEF Brings
<1>5. ASSUME NEW i \in S, u[w] <= W[i].version[w] PROVE Brings(d, W, S, w, v[w])
  <2>1. v[w] <= W[i].version[w]
    BY <1>1, <1>3, <1>5
  <2> QED BY <2>1 DEF Brings
<1> QED BY <1>2, <1>4, <1>5 DEF Brings

\* What offers of a chain carry.
LEMMA SoundVersions ==
  ASSUME NEW d, NEW W \in Seq(Message), NEW S, Sound(d, W, S)
  PROVE  \A i \in S : i \in DOMAIN W /\ W[i].type = "offer" /\ W[i].version \in Version /\ W[i].from \in Version
<1>1. ASSUME NEW i \in S PROVE W[i] \in Message /\ i \in DOMAIN W /\ W[i].type = "offer"
  BY SeqElement DEF Sound
<1> QED BY <1>1 DEF Message

\* A chain grows by offers said past it, from o to v, where o is reached.
LEMMA OffersJoin ==
  ASSUME NEW d, NEW W \in Seq(Message), NEW X \in Seq(Message), NEW S, Sound(d, W, S),
         \A i \in DOMAIN W : i \in DOMAIN X /\ X[i] = W[i],
         NEW N \in SUBSET (DOMAIN X \ DOMAIN W), NEW o, NEW v \in Version, N # {} => o # None /\ Reached(d, W, S, o),
         \A i \in N : X[i] = Offer(o, v)
  PROVE  /\ Sound(d, X, S \cup N) /\ S \cup N \in SUBSET DOMAIN X
         /\ \A u : Reached(d, W, S, u) => Reached(d, X, S \cup N, u)
         /\ N # {} => Reached(d, X, S \cup N, v)
<1> DEFINE R == S \cup N
<1>1. \A i \in S : i \in DOMAIN W /\ i \in DOMAIN X /\ X[i] = W[i] /\ X[i].type = "offer"
  BY DEF Sound
<1>2. ASSUME NEW T, NEW Q, T \subseteq S, T \subseteq Q, NEW w, NEW k, Brings(d, W, T, w, k) PROVE Brings(d, X, Q, w, k)
  BY <1>1, <1>2 DEF Brings
<1>3. \A u : Reached(d, W, S, u) => Reached(d, X, R, u)
  BY <1>2 DEF Reached
<1>4. \A j \in S : \A i \in N : j < i
  BY <1>1
<1>5. ASSUME NEW i \in R
      PROVE  /\ i \in DOMAIN X /\ X[i].type = "offer"
             /\ \A w \in Peer : Brings(d, X, {j \in R : j < i}, w, X[i].from[w])
  <2> DEFINE Q == {j \in R : j < i}
             T == {j \in S : j < i}
  <2>1. CASE i \in S
    <3>1. \A w \in Peer : Brings(d, W, T, w, X[i].from[w])
      BY <1>1, <2>1 DEF Sound
    <3>2. T \subseteq S /\ T \subseteq Q
      OBVIOUS
    <3> HIDE DEF Q, T
    <3>3. \A w \in Peer : Brings(d, X, Q, w, X[i].from[w])
      BY <1>2, <3>1, <3>2
    <3> QED BY <1>1, <2>1, <3>3 DEF Q
  <2>2. CASE i \in N
    <3>1. X[i].from = o /\ o # None /\ X[i].type = "offer"
      BY <2>2 DEF Offer
    <3>2. S \subseteq Q
      BY <1>4, <2>2
    <3>3. \A w \in Peer : Brings(d, W, S, w, o[w])
      BY <2>2, <3>1 DEF Reached
    <3> HIDE DEF Q
    <3>4. \A w \in Peer : Brings(d, X, Q, w, o[w])
      BY <1>2, <3>2, <3>3
    <3> QED BY <2>2, <3>1, <3>4 DEF Q
  <2> QED BY <2>1, <2>2
<1>6. R \in SUBSET DOMAIN X
  BY <1>1
<1>7. ASSUME NEW i \in N PROVE Reached(d, X, R, v)
  <2>1. X[i].version = v
    BY DEF Offer
  <2>2. \A w \in Peer : v[w] <= X[i].version[w]
    BY <2>1 DEF Version
  <2> QED BY <2>2 DEF Reached, Brings
<1> HIDE DEF R
<1>8. Sound(d, X, R)
  BY <1>5 DEF Sound
<1> QED BY <1>3, <1>6, <1>7, <1>8 DEF R

LEMMA ToldRecord ==
  ASSUME NEW p, NEW b, NEW reply, NEW s, Told(p, b, reply, s)
  PROVE  LET f == model'[p].docs[b]
             n == reply.model.docs[b]
             d == doc'[p]
         IN  \/ f.will = n.will /\ f.owed = n.owed
             \/ f.will = d /\ f.owed = None /\ reply.offers[b] # None /\ d \in Version
                  /\ (end'[p][b] = "on" => Tells(s, {"offer"}))
BY Zenon DEF Told

\* So it does by what p says, where that starts from what is reached.
LEMMA ChainGrows ==
  ASSUME SyncInv, NEW p \in Peer, NEW b \in Peer, NEW reply, NEW s, Told(p, b, reply, s), end'[p][b] = "on",
         NEW e \in Version, reply.model \in Model, reply.offers[b] \in MaybeVersion,
         NEW S \in SUBSET DOMAIN wire[p][b], Sound(e, wire[p][b], S), NEW B \in SUBSET MaybeVersion,
         \A v \in B : Reached(e, wire[p][b], S, v), Starts(reply.model.docs[b], reply.offers[b], B)
  PROVE  Chain(model'[p].docs[b], e, wire'[p][b])
<1> DEFINE W == wire[p][b]
           X == wire'[p][b]
           N == {i \in DOMAIN X \ DOMAIN W : X[i].type = "offer"}
           R == S \cup N
           d == doc'[p]
           o == reply.offers[b]
           n == reply.model.docs[b]
           f == model'[p].docs[b]
<1>1. /\ W \in Seq(Message) /\ X \in Seq(Message)
      /\ \A i \in DOMAIN W : i \in DOMAIN X /\ X[i] = W[i]
      /\ \A i \in DOMAIN X \ DOMAIN W : i - Len(W) \in DOMAIN s /\ X[i] = s[i - Len(W)]
      /\ \A i \in DOMAIN s : Len(W) + i \in DOMAIN X \ DOMAIN W /\ X[Len(W) + i] = s[i]
  <2>1. /\ W \in Seq(Message) /\ X \in Seq(Message) /\ Len(W) \in Nat /\ DOMAIN W = 1..Len(W) /\ DOMAIN s = 1..Len(s)
        /\ Len(s) \in Nat
        /\ \A i \in DOMAIN W : i \in DOMAIN X /\ X[i] = W[i]
        /\ \A i \in DOMAIN X \ DOMAIN W : i - Len(W) \in DOMAIN s /\ X[i] = s[i - Len(W)]
        /\ \A i \in DOMAIN s : Len(W) + i \in DOMAIN X /\ X[Len(W) + i] = s[i]
    BY OwnWire
  <2>2. \A i \in DOMAIN s : Len(W) + i \notin DOMAIN W
    BY <2>1
  <2> QED BY <2>1, <2>2
<1>2. \A i \in S : W[i].version \in Version
  BY <1>1, SoundVersions
<1>3. \A v \in MaybeVersion : StartsFrom(v, B) => Reached(e, W, S, v)
  BY <1>2, StartsReached
<1>4. Reached(e, W, S, o) /\ Reached(e, W, S, n.will) /\ Reached(e, W, S, n.owed)
  <2>1. n.will \in MaybeVersion /\ n.owed \in MaybeVersion
    BY ModelFacts
  <2> QED BY <1>3, <2>1 DEF Starts
<1>5. \A i \in N : o # None /\ X[i] = Offer(o, d) /\ d \in Version
  <2>1. \A j \in DOMAIN s : s[j].type = "offer" => o # None /\ d \in Version /\ s[j] = Offer(o, d)
    BY DEF Told
  <2>2. \A i \in N : X[i].type = "offer" /\ i - Len(W) \in DOMAIN s /\ X[i] = s[i - Len(W)]
    BY <1>1
  <2> QED BY <2>1, <2>2
<1>6. Sound(e, W, S) /\ N \in SUBSET (DOMAIN X \ DOMAIN W) /\ S \in SUBSET DOMAIN W
  OBVIOUS
<1>7. Tells(s, {"offer"}) => N # {}
  <2> SUFFICES ASSUME NEW k \in DOMAIN s, s[k].type = "offer" PROVE N # {}
    BY DEF Tells
  <2>1. Len(W) + k \in N
    BY <1>1
  <2> QED BY <2>1
<1>8. \/ f.will = n.will /\ f.owed = n.owed
      \/ f.will = d /\ f.owed = None /\ d \in Version /\ Tells(s, {"offer"})
  <2>1. \/ f.will = n.will /\ f.owed = n.owed
        \/ f.will = d /\ f.owed = None /\ o # None /\ d \in Version /\ (end'[p][b] = "on" => Tells(s, {"offer"}))
    BY ToldRecord
  <2> HIDE DEF f, n, o, d
  <2> QED BY <2>1
<1> HIDE DEF R, X, W, N, d, o, n, f
<1>9. CASE d \in Version
  <2>0. /\ N # {} => o # None /\ Reached(e, W, S, o)
        /\ \A i \in N : X[i] = Offer(o, d)
        /\ \A i \in DOMAIN W : i \in DOMAIN X /\ X[i] = W[i]
    BY <1>1, <1>4, <1>5
  <2>1. /\ Sound(e, X, R) /\ R \in SUBSET DOMAIN X
        /\ \A u : Reached(e, W, S, u) => Reached(e, X, R, u)
        /\ N # {} => Reached(e, X, R, d)
    BY <1>1, <1>6, <1>9, <2>0, OffersJoin DEF R
  <2>2. Reached(e, X, R, None)
    BY DEF Reached
  <2>3. Reached(e, X, R, f.will) /\ Reached(e, X, R, f.owed)
    BY <1>4, <1>7, <1>8, <2>1, <2>2
  <2> QED BY <2>1, <2>3 DEF Chain, f, X
<1>10. CASE d \notin Version
  <2>1. N = {} /\ Empty \in Version
    BY <1>5, <1>10 DEF Empty, Version
  <2>2. /\ Sound(e, X, R) /\ R \in SUBSET DOMAIN X
        /\ \A u : Reached(e, W, S, u) => Reached(e, X, R, u)
    BY <1>1, <1>6, <2>1, OffersJoin DEF R
  <2>3. Reached(e, X, R, f.will) /\ Reached(e, X, R, f.owed)
    BY <1>4, <1>8, <1>10, <2>2
  <2> QED BY <2>2, <2>3 DEF Chain, f, X
<1> QED BY <1>9, <1>10

\* A chain stands where the document grew.
LEMMA ChainStands ==
  ASSUME NEW W \in Seq(Message), NEW c \in Version, NEW d \in Version, Reaches(d, c), NEW r \in PeerDoc, Chain(r, c, W)
  PROVE  Chain(r, d, W)
<1>1. PICK S \in SUBSET DOMAIN W : Sound(c, W, S) /\ Reached(c, W, S, r.will) /\ Reached(c, W, S, r.owed)
  BY DEF Chain
<1>2. \A i \in S : i \in DOMAIN W /\ W[i].type = "offer" /\ W[i].version \in Version /\ W[i].from \in Version
  BY <1>1, SoundVersions
<1>3. ASSUME NEW w \in Peer, NEW k \in Nat, k <= c[w] PROVE k <= d[w]
  <2>1. c[w] \in Nat /\ d[w] \in Nat /\ c[w] <= d[w]
    BY DEF Version, Reaches
  <2> QED BY <1>3, <2>1
<1>4. ASSUME NEW T, NEW w \in Peer, NEW k \in Nat, Brings(c, W, T, w, k) PROVE Brings(d, W, T, w, k)
  BY <1>3, <1>4 DEF Brings
<1>5. \A v \in MaybeVersion : Reached(c, W, S, v) => Reached(d, W, S, v)
  <2> SUFFICES ASSUME NEW v \in MaybeVersion, Reached(c, W, S, v), v # None, NEW w \in Peer
               PROVE  Brings(d, W, S, w, v[w])
    BY DEF Reached
  <2>1. v[w] \in Nat /\ Brings(c, W, S, w, v[w])
    BY DEF Reached, MaybeVersion, Version
  <2> QED BY <1>4, <2>1
<1>6. ASSUME NEW i \in S, NEW w \in Peer PROVE Brings(d, W, {j \in S : j < i}, w, W[i].from[w])
  <2> DEFINE Q == {j \in S : j < i}
  <2>1. Brings(c, W, Q, w, W[i].from[w]) /\ W[i].from[w] \in Nat
    BY <1>1, <1>2 DEF Sound, Version
  <2> HIDE DEF Q
  <2>2. Brings(d, W, Q, w, W[i].from[w])
    BY <1>4, <2>1
  <2> QED BY <2>2 DEF Q
<1>7. Sound(d, W, S)
  BY <1>2, <1>6 DEF Sound
<1>8. r.will \in MaybeVersion /\ r.owed \in MaybeVersion
  BY DEF PeerDoc, MaybeVersion
<1> QED BY <1>1, <1>5, <1>7, <1>8 DEF Chain

\* A chain is shorter by what is taken, where that is merged.
LEMMA ChainShifts ==
  ASSUME NEW W \in Seq(Message), W # <<>>, NEW X, X = Tail(W), NEW c \in Version, NEW d \in Version, Reaches(d, c),
         W[1].type = "offer" /\ Reaches(c, W[1].from) => Reaches(d, W[1].version),
         NEW r \in PeerDoc, Chain(r, c, W)
  PROVE  Chain(r, d, X)
<1>1. Chain(r, d, W) /\ \E S \in SUBSET DOMAIN W : Sound(c, W, S)
  BY ChainStands DEF Chain
<1>2. /\ Len(W) \in Nat \ {0} /\ DOMAIN W = 1..Len(W) /\ DOMAIN X = 1..Len(W) - 1
      /\ \A i \in DOMAIN X : i + 1 \in DOMAIN W /\ X[i] = W[i + 1]
  BY TailAt
<1>3. PICK S \in SUBSET DOMAIN W : Sound(c, W, S) /\ Reached(c, W, S, r.will) /\ Reached(c, W, S, r.owed)
  BY DEF Chain
<1>4. \A i \in S : i \in DOMAIN W /\ W[i].type = "offer" /\ W[i].version \in Version /\ W[i].from \in Version
  BY <1>3, SoundVersions
<1>5. ASSUME NEW w \in Peer, NEW k \in Nat, k <= c[w] PROVE k <= d[w]
  <2>1. c[w] \in Nat /\ d[w] \in Nat /\ c[w] <= d[w]
    BY DEF Version, Reaches
  <2> QED BY <1>5, <2>1
<1>6. 1 \in S => Reaches(d, W[1].version)
  <2> SUFFICES ASSUME 1 \in S PROVE Reaches(d, W[1].version)
    OBVIOUS
  <2>1. {j \in S : j < 1} = {}
    BY <1>2, <1>4
  <2>2. \A w \in Peer : Brings(c, W, {}, w, W[1].from[w])
    BY <1>3, <2>1 DEF Sound
  <2>3. Reaches(c, W[1].from) /\ W[1].type = "offer"
    BY <1>4, <2>2 DEF Brings, Reaches
  <2> QED BY <2>3
<1> DEFINE Less(T) == {k \in DOMAIN X : k + 1 \in T}
<1>7. ASSUME NEW T \in SUBSET S, NEW w \in Peer, NEW k \in Nat, Brings(c, W, T, w, k) PROVE Brings(d, X, Less(T), w, k)
  <2>1. CASE k <= c[w]
    BY <1>5, <2>1 DEF Brings
  <2>2. ASSUME NEW i \in T, k <= W[i].version[w], i = 1 PROVE Brings(d, X, Less(T), w, k)
    <3>1. W[1].version[w] <= d[w] /\ W[1].version[w] \in Nat /\ d[w] \in Nat
      BY <1>4, <1>6, <2>2 DEF Reaches, Version
    <3>2. k <= d[w]
      BY <2>2, <3>1
    <3> QED BY <3>2 DEF Brings
  <2>3. ASSUME NEW i \in T, k <= W[i].version[w], i # 1 PROVE Brings(d, X, Less(T), w, k)
    <3> DEFINE j == i - 1
               L == Less(T)
    <3>1. j \in DOMAIN X /\ j + 1 = i
      BY <1>2, <1>4, <2>3
    <3> HIDE DEF j
    <3>2. j \in L /\ X[j] = W[i]
      BY <1>2, <2>3, <3>1
    <3> HIDE DEF L
    <3>3. Brings(d, X, L, w, k)
      BY <2>3, <3>2 DEF Brings
    <3> QED BY <3>3 DEF L
  <2> QED BY <1>7, <2>1, <2>2, <2>3 DEF Brings
<1> DEFINE R == Less(S)
<1>8. \A v \in MaybeVersion : Reached(c, W, S, v) => Reached(d, X, R, v)
  <2> SUFFICES ASSUME NEW v \in MaybeVersion, Reached(c, W, S, v), v # None, NEW w \in Peer
               PROVE  Brings(d, X, R, w, v[w])
    BY DEF Reached
  <2>1. v[w] \in Nat /\ Brings(c, W, S, w, v[w])
    BY DEF Reached, MaybeVersion, Version
  <2> QED BY <1>7, <2>1
<1>9. ASSUME NEW i \in R, NEW w \in Peer PROVE Brings(d, X, {j \in R : j < i}, w, X[i].from[w])
  <2> DEFINE T == {j \in S : j < i + 1}
             Q == {j \in R : j < i}
             L == Less(T)
  <2>1. i \in DOMAIN X /\ i + 1 \in S /\ X[i] = W[i + 1]
    BY <1>2
  <2>2. Brings(c, W, T, w, X[i].from[w]) /\ X[i].from[w] \in Nat
    BY <1>3, <1>4, <2>1 DEF Sound, Version
  <2>3. \A k \in DOMAIN X : k + 1 < i + 1 <=> k < i
    BY <1>2, <2>1
  <2>4. T \in SUBSET S /\ L = Q
    BY <2>3
  <2>5. Brings(d, X, L, w, X[i].from[w])
    <3> HIDE DEF T
    <3> QED BY <1>7, <2>2, <2>4
  <2> QED BY <2>4, <2>5
<1>10. R \in SUBSET DOMAIN X /\ \A i \in R : X[i].type = "offer"
  BY <1>2, <1>4
<1> HIDE DEF Less, R
<1>11. Sound(d, X, R)
  BY <1>9, <1>10 DEF Sound
<1>12. r.will \in MaybeVersion /\ r.owed \in MaybeVersion
  BY DEF PeerDoc, MaybeVersion
<1> QED BY <1>3, <1>8, <1>10, <1>11, <1>12 DEF Chain

-----------------------------------------------------------------------------
(* What will have arrived.                                                 *)

LEMMA BaselineOwn ==
  ASSUME SyncInv, SyncInv', PushInv, NEW p \in Peer, NEW q \in Peer, NEW t, NEW reply, Turn(p, q, t, reply),
         NEW b \in Peer \ {p}
  PROVE  BaselineTrue(p, b)'
<1> DEFINE m == model[p]
           n == reply.model
           o == reply.offers[b]
           u == n.docs[b]
           W == wire[p][b]
           msg == Head(wire[q][p])
           e == doc[b]
<1>1. Frame(p, q, t, reply) /\ Delivers(p, q, t)
  BY TurnFrame DEF Frame
<1>2. SUFFICES ASSUME end'[p][b] = "on", end'[b][p] = "on", b \in Shares[p], p \in Shares[b], TakesIn(model'[b]),
                      p \in Accepts[b], ~Tells(wire'[b][p], {"dismiss"}), ~Tells(wire'[b][p], {"interest"})
               PROVE  Chain(model'[p].docs[b], doc'[b], wire'[p][b])
  BY DEF BaselineTrue, Taking, Under, Chained, At, TakesIn
<1>3. PICK s : Told(p, b, reply, s)
  BY <1>1 DEF Frame
<1>4. n \in Model /\ o \in MaybeVersion /\ doc'[b] = doc[b] /\ end[b][p] = "on" /\ TakesIn(model[b])
  BY <1>1, <1>2 DEF Frame
<1>5. e \in Version /\ m \in Model /\ W \in Seq(Message) /\ wire[b][p] \in Seq(Message)
  <2>1. doc[b] # None
    BY <1>4, TakesInMemory DEF InMemory
  <2> QED BY <2>1 DEF SyncInv, Inv, Types, MaybeVersion
<1>6. Pushed(p, m, n, b, o, doc[p], doc'[p], q, t, msg)
  BY DEF Turn, Pushes
<1>7. CASE model'[p].entry.mode # "held"
  <2>1. model'[p].docs[b].will = None /\ model'[p].docs[b].owed = None
    BY <1>7, UnaskedOwn DEF UnaskedTrue, Unasked
  <2> QED BY <2>1, NoChain
<1>8. ASSUME NEW S \in SUBSET DOMAIN W, Sound(e, W, S), NEW B \in SUBSET MaybeVersion, Starts(u, o, B),
             \A v \in B : Reached(e, W, S, v)
      PROVE  Chain(model'[p].docs[b], doc'[b], wire'[p][b])
  <2> HIDE DEF e
  <2>1. Chain(model'[p].docs[b], e, wire'[p][b])
    BY <1>2, <1>3, <1>4, <1>5, <1>8, ChainGrows
  <2> QED BY <1>4, <2>1 DEF e
<1>9. Sound(e, W, {}) /\ \A v : Starts(u, o, {v}) /\ v \in MaybeVersion /\ Reached(e, W, {}, v) =>
        Chain(model'[p].docs[b], doc'[b], wire'[p][b])
  <2>1. Sound(e, W, {})
    BY DEF Sound
  <2> SUFFICES ASSUME NEW v \in MaybeVersion, Starts(u, o, {v}), Reached(e, W, {}, v)
               PROVE  Chain(model'[p].docs[b], doc'[b], wire'[p][b])
    BY <2>1
  <2> DEFINE B == {v}
             S == {}
  <2>2. S \in SUBSET DOMAIN W /\ B \in SUBSET MaybeVersion /\ Sound(e, W, S) /\ Starts(u, o, B)
        /\ \A x \in B : Reached(e, W, S, x)
    BY <2>1
  <2> HIDE DEF B, S, u, o, W, e
  <2> QED BY <1>8, <2>2
<1>10. Took(p, q, t, b) => /\ 1 \in DOMAIN wire[b][p] /\ wire[b][p][1] = msg /\ msg.type = t /\ msg \in Message
                           /\ \A i \in DOMAIN wire[b][p] : i = 1 \/ i > 1
  <2> SUFFICES ASSUME Took(p, q, t, b)
               PROVE  /\ 1 \in DOMAIN wire[b][p] /\ wire[b][p][1] = msg /\ msg.type = t /\ msg \in Message
                      /\ \A i \in DOMAIN wire[b][p] : i = 1 \/ i > 1
    OBVIOUS
  <2>1. /\ 1 \in DOMAIN wire[b][p] /\ wire[b][p][1] = msg /\ wire[b][p][1].type = t
        /\ DOMAIN wire[b][p] = 1..Len(wire[b][p]) /\ Len(wire[b][p]) \in Nat
    BY <1>1, OtherWire
  <2>2. wire[b][p][1] \in Message
    BY <1>5, <2>1, SeqElement
  <2>3. \A i \in DOMAIN wire[b][p] : i = 1 \/ i > 1
    BY <2>1
  <2> QED BY <2>1, <2>2, <2>3
<1>11. ~(b = q /\ t = "dismiss") => ~Tells(wire[b][p], {"dismiss"})
  BY <1>1, <1>2, StillUnder
<1>12. CASE b = q /\ t \in {"establish", "dismiss"}
  <2>1. t = "dismiss" => b \in m.tracked
    <3> SUFFICES ASSUME t = "dismiss" PROVE b \in m.tracked
      OBVIOUS
    <3>1. end[p][b] = "on"
      BY <1>1, <1>2 DEF Delivers
    <3> QED BY <3>1 DEF SyncInv, RecordsInv, LinkTrue
  <2>2. u.will = None /\ u.owed = None /\ o = None
    BY <1>6, <1>12, <2>1 DEF Pushed
  <2>3. Starts(u, o, {None}) /\ Reached(e, W, {}, None) /\ None \in MaybeVersion
    BY <2>2 DEF Starts, StartsFrom, Reached, MaybeVersion
  <2> QED BY <1>9, <2>3
<1>13. CASE b = q /\ t = "interest" /\ model'[p].entry.mode = "held"
  <2>1. n.entry.mode = "held" /\ m.entry.mode = "held" /\ end[p][b] = "on"
    BY <1>1, <1>2, <1>13 DEF Frame, Delivers, Turn
  <2>2. b \in m.tracked /\ b \in n.tracked
    BY <1>1, <1>2, <2>1 DEF SyncInv, RecordsInv, LinkTrue, Frame
  <2>3. ~m.docs[b].refuses
    BY <1>2 DEF PushInv, PairTrue, RefusalTrue, At
  <2>4. Starts(u, o, {TheyHold(msg)})
    BY <1>2, <1>6, <1>13, <2>1, <2>2, <2>3 DEF Pushed, Stays
  <2>5. msg.type = "interest" /\ msg \in Message /\ 1 \in DOMAIN wire[b][p] /\ wire[b][p][1] = msg
    BY <1>10, <1>13 DEF Took
  <2>6. Holds(b, Claim(msg)) \/ Dismissing(b, p, 1)
    BY <2>5 DEF SyncInv, RecordsInv, WireTrue
  <2>7. ~Dismissing(b, p, 1)
    BY <1>11, <1>13 DEF Dismissing, Tells
  <2>8. TheyHold(msg) \in MaybeVersion /\ Claim(msg) = TheyHold(msg)
    BY <2>5 DEF TheyHold, Claim, Message, MaybeVersion
  <2>9. Reached(e, W, {}, TheyHold(msg))
    BY <2>6, <2>7, <2>8 DEF Holds, Reaches, Reached, Brings
  <2> QED BY <1>9, <2>4, <2>8, <2>9
<1>14. CASE ~(b = q /\ t \in {"establish", "interest", "dismiss"})
  <2>1. end[p][b] = "on"
    BY <1>1, <1>2, <1>14 DEF Delivers
  <2>2. ~Tells(wire[b][p], {"interest"}) /\ ~Tells(wire[b][p], {"dismiss"})
    BY <1>1, <1>2, <1>11, <1>14, StillUnder
  <2>3. BaselineTrue(p, b)
    BY DEF PushInv, PairTrue
  <2>4. Chained(p, b)
    BY <1>2, <1>4, <2>1, <2>2, <2>3 DEF BaselineTrue, Taking, Under
  <2> DEFINE r == m.docs[b]
  <2>5. PICK S \in SUBSET DOMAIN W : Sound(e, W, S) /\ Reached(e, W, S, r.will) /\ Reached(e, W, S, r.owed)
    BY <2>4 DEF Chained, Chain, At
  <2>6. r.will \in MaybeVersion /\ r.owed \in MaybeVersion
    BY <1>5, ModelFacts
  <2>7. CASE ~(b = q /\ t = "offer")
    <3> DEFINE B == {r.will, r.owed}
    <3>1. Starts(u, o, B)
      BY <1>6, <1>14, <2>7 DEF Pushed
    <3>2. B \in SUBSET MaybeVersion /\ \A v \in B : Reached(e, W, S, v)
      BY <2>5, <2>6
    <3> HIDE DEF B, u, o, W, e
    <3> QED BY <1>8, <2>5, <3>1, <3>2
  <2>8. CASE b = q /\ t = "offer"
    <3> DEFINE B == {r.will, r.owed, msg.version}
    <3>1. Starts(u, o, B)
      BY <1>6, <2>8 DEF Pushed
    <3>2. msg.type = "offer" /\ msg \in Message /\ 1 \in DOMAIN wire[b][p] /\ wire[b][p][1] = msg
      BY <1>10, <2>8 DEF Took
    <3>3. Holds(b, msg.version) \/ Dismissing(b, p, 1)
      BY <3>2 DEF PushInv, PairTrue, OfferTrue
    <3>4. ~Dismissing(b, p, 1)
      BY <2>2 DEF Dismissing, Tells
    <3>5. msg.version \in MaybeVersion
      BY <3>2 DEF Message, MaybeVersion
    <3>6. Reached(e, W, S, msg.version)
      BY <3>3, <3>4 DEF Holds, Reaches, Reached, Brings
    <3>7. B \in SUBSET MaybeVersion /\ \A v \in B : Reached(e, W, S, v)
      BY <2>5, <2>6, <3>5, <3>6
    <3> HIDE DEF B, u, o, W, e
    <3> QED BY <1>8, <2>5, <3>1, <3>7
  <2> QED BY <2>7, <2>8
<1> QED BY <1>7, <1>12, <1>13, <1>14

LEMMA BaselineTaken ==
  ASSUME SyncInv, SyncInv', PushInv, NEW p \in Peer, NEW q \in Peer, NEW t, NEW reply, Turn(p, q, t, reply),
         NEW a \in Peer \ {p}
  PROVE  BaselineTrue(a, p)'
<1> DEFINE m == model[p]
           n == reply.model
           W == wire[a][p]
           X == wire'[a][p]
           r == model[a].docs[p]
           c == doc[p]
           d == doc'[p]
<1>1. Frame(p, q, t, reply) /\ Delivers(p, q, t)
  BY TurnFrame DEF Frame
<1>2. model'[a] = model[a] /\ end'[a] = end[a] /\ n.entry = model'[p].entry
  BY <1>1 DEF Frame
<1>3. SUFFICES ASSUME end[a][p] = "on", end'[p][a] = "on", p \in Shares[a], a \in Shares[p], TakesIn(n), a \in Accepts[p],
                      ~Tells(wire'[p][a], {"interest"}), ~Tells(wire'[p][a], {"dismiss"})
               PROVE  Chain(r, d, X)
  BY <1>2 DEF BaselineTrue, Taking, Under, Chained, At, TakesIn
<1>4. PICK s : Told(p, a, reply, s)
  BY <1>1 DEF Frame
<1>5. ~Tells(s, {"interest"}) /\ ~Tells(wire[p][a], {"interest"}) /\ ~Tells(wire[p][a], {"dismiss"})
  BY <1>3, <1>4, OwnWire
<1>6. CASE t = "establish" /\ a = q
  <2>1. Took(p, q, t, a)
    BY <1>6 DEF Took
  <2>2. 1 \in DOMAIN wire[a][p] /\ wire[a][p][1].type = "establish"
    BY <1>1, <1>6, <2>1, OtherWire
  <2>3. end[p][a] = "opening"
    BY <2>2 DEF SyncInv, RecordsInv, WireTrue
  <2>4. Unasked(model[a], p)
    BY <1>3, <2>3 DEF PushInv, PairTrue, UnaskedTrue
  <2> QED BY <2>4, NoChain DEF Unasked
<1>7. CASE ~(t = "establish" /\ a = q)
  <2>1. end[p][a] = "on"
    BY <1>1, <1>3, <1>7 DEF Delivers
  <2>2. a \in Sharers(p, m) /\ a \in m.tracked
    BY <1>3, <2>1 DEF SyncInv, RecordsInv, LinkTrue, Sharers
  <2>3. Speaks(p, m, n, a, reply.says[a], q, t)
    BY DEF Turn, Pushes
  <2>4. TakesIn(m)
    BY <1>3, <1>4, <1>5, <2>2, <2>3 DEF Speaks, Told
  <2>5. Chain(r, c, W)
    <3>1. BaselineTrue(a, p)
      BY DEF PushInv, PairTrue
    <3> QED BY <1>3, <1>5, <2>1, <2>4, <3>1 DEF BaselineTrue, Taking, Under, Chained, At
  <2>6. c \in Version /\ d \in Version /\ Reaches(d, c) /\ W \in Seq(Message) /\ r \in PeerDoc
    <3>1. doc[p] # None /\ doc'[p] # None
      BY <1>2, <1>3, <2>4 DEF SyncInv, RecordsInv, Knows, EntryFits, TakesIn
    <3>2. doc[p] \in MaybeVersion /\ doc'[p] \in MaybeVersion /\ W \in Seq(Message) /\ model[a] \in Model
      BY DEF SyncInv, Inv, Types
    <3> QED BY <1>1, <3>1, <3>2, ModelFacts DEF MaybeVersion, Frame, InMemory
  <2>7. CASE ~Took(p, q, t, a)
    <3>1. X = W
      BY <1>1, <2>7, OtherWire
    <3> HIDE DEF c, d, W, X, r
    <3> QED BY <2>5, <2>6, <3>1, ChainStands
  <2>8. CASE Took(p, q, t, a)
    <3>1. W # <<>> /\ X = Tail(W) /\ W[1] = Head(wire[q][p]) /\ W[1].type = t /\ a = q
      BY <1>1, <2>8, OtherWire DEF Took
    <3>2. W[1].type = "offer" /\ Reaches(c, W[1].from) => Reaches(d, W[1].version)
      BY <1>3, <2>2, <2>4, <3>1 DEF Turn
    <3> HIDE DEF c, d, W, X, r
    <3> QED BY <2>5, <2>6, <3>1, <3>2, ChainShifts
  <2> QED BY <2>7, <2>8
<1> QED BY <1>6, <1>7

-----------------------------------------------------------------------------
(* A turn, and what happens to links.                                      *)

\* Two peers whom nothing happens to, but that an end is found to be broken.
LEMMA SamePair ==
  ASSUME NEW a \in Peer, NEW b \in Peer, PairTrue(a, b),
         model'[a] = model[a], model'[b] = model[b], doc'[a] = doc[a], doc'[b] = doc[b],
         wire'[a][b] = wire[a][b], wire'[b][a] = wire[b][a],
         \A e \in {"on", "opening"} : (end'[a][b] = e <=> end[a][b] = e) /\ (end'[b][a] = e <=> end[b][a] = e)
  PROVE  PairTrue(a, b)'
<1>1. /\ Taking(a, b)' <=> Taking(a, b)
      /\ At(a, b)' = At(a, b)
      /\ \A t : (Under(t, a, b)' <=> Under(t, a, b)) /\ (Under(t, b, a)' <=> Under(t, b, a))
  BY DEF Taking, At, Under, Tells, TakesIn
<1>2. BaselineTrue(a, b)'
  BY <1>1 DEF PairTrue, BaselineTrue, Chained
<1>3. OfferTrue(a, b)' /\ AskedAgain(a, b)' /\ Opening(a, b)'
  BY DEF PairTrue, OfferTrue, Holds, Dismissing, AskedAgain, Opening, TakesIn
<1>4. RefusalTrue(a, b)'
  BY <1>1 DEF PairTrue, RefusalTrue
<1>5. UnaskedTrue(a, b)'
  BY DEF PairTrue, UnaskedTrue, Unasked
<1>6. AdvanceTrue(a, b)'
  BY <1>1 DEF PairTrue, AdvanceTrue, UpToDate
<1> QED BY <1>2, <1>3, <1>4, <1>5, <1>6 DEF PairTrue

\* Two peers between whom nothing is under way but `establish`, and neither end is open.
LEMMA FreshPair ==
  ASSUME NEW a \in Peer, NEW b \in Peer,
         end'[a][b] # "on", end'[b][a] # "on",
         wire'[a][b] \in {<<>>, <<Establish>>}, wire'[b][a] \in {<<>>, <<Establish>>},
         end'[b][a] = "opening" => wire'[a][b] = <<Establish>>,
         a \in Accepts[b] => ~model'[a].docs[b].refuses,
         b \notin Shares[a] \/ model'[a].entry.mode # "held" => Unasked(model'[a], b)
  PROVE  PairTrue(a, b)'
<1>1. \A i \in DOMAIN wire'[a][b] : wire'[a][b][i].type = "establish"
  BY DEF Establish
<1>2. \A i \in DOMAIN wire'[b][a] : wire'[b][a][i].type = "establish"
  BY DEF Establish
<1>3. BaselineTrue(a, b)' /\ AdvanceTrue(a, b)'
  BY DEF BaselineTrue, AdvanceTrue, Taking
<1>4. OfferTrue(a, b)' /\ AskedAgain(a, b)'
  BY <1>1 DEF OfferTrue, AskedAgain
<1>5. RefusalTrue(a, b)'
  BY <1>2 DEF RefusalTrue, At, Under, Tells
<1>6. UnaskedTrue(a, b)'
  BY DEF UnaskedTrue, Unasked
<1>7. Opening(a, b)'
  BY DEF Opening, Establish
<1> QED BY <1>3, <1>4, <1>5, <1>6, <1>7 DEF PairTrue

LEMMA TurnKeeps ==
  ASSUME SyncInv, SyncInv', PushInv, NEW p \in Peer, NEW q \in Peer, NEW t, NEW reply, Turn(p, q, t, reply) PROVE PushInv'
<1>1. Frame(p, q, t, reply) /\ Delivers(p, q, t)
  BY TurnFrame DEF Frame
<1>2. ASSUME NEW b \in Peer \ {p} PROVE PairTrue(p, b)'
  BY BaselineOwn, OfferOwn, RefusalOwn, UnaskedOwn, AgainOwn, OpeningOwn, AdvanceOwn DEF PairTrue
<1>3. ASSUME NEW a \in Peer \ {p} PROVE PairTrue(a, p)'
  BY BaselineTaken, OfferTaken, RefusalTaken, UnaskedTaken, AgainTaken, OpeningTaken, AdvanceTaken DEF PairTrue
<1>4. ASSUME NEW a \in Peer \ {p}, NEW b \in Peer \ {p}, a # b PROVE PairTrue(a, b)'
  <2>1. model'[a] = model[a] /\ model'[b] = model[b] /\ doc'[a] = doc[a] /\ doc'[b] = doc[b]
        /\ end'[a] = end[a] /\ end'[b] = end[b]
    BY <1>1 DEF Frame
  <2>2. wire'[a][b] = wire[a][b] /\ wire'[b][a] = wire[b][a]
    BY <1>1 DEF Delivers
  <2>3. PairTrue(a, b)
    BY <1>4 DEF PushInv
  <2> QED BY <2>1, <2>2, <2>3, SamePair
<1> QED BY <1>2, <1>3, <1>4 DEF PushInv

\* Nothing but a link is touched, and it is closed or made.
LinkMoves(p, q) ==
  /\ UNCHANGED <<model, doc>>
  /\ \A a, b \in Peer :
       /\ ~Between(a, b, p, q) => end'[a][b] = end[a][b] /\ wire'[a][b] = wire[a][b]
       /\ Between(a, b, p, q) => /\ end'[a][b] # "on" /\ wire'[a][b] \in {<<>>, <<Establish>>}
                                 /\ end'[a][b] = "opening" => wire'[a][b] = <<Establish>> /\ wire'[b][a] = <<Establish>>

LEMMA LinkPushes ==
  ASSUME PushInv, NEW p \in Peer, NEW q \in Peer, LinkMoves(p, q) PROVE PushInv'
<1>0. /\ UNCHANGED <<model, doc>>
      /\ \A a, b \in Peer :
           /\ ~Between(a, b, p, q) => end'[a][b] = end[a][b] /\ wire'[a][b] = wire[a][b]
           /\ Between(a, b, p, q) => /\ end'[a][b] # "on" /\ wire'[a][b] \in {<<>>, <<Establish>>}
                                     /\ end'[a][b] = "opening" => wire'[a][b] = <<Establish>> /\ wire'[b][a] = <<Establish>>
  BY DEF LinkMoves
<1> SUFFICES ASSUME NEW a \in Peer, NEW b \in Peer, a # b PROVE PairTrue(a, b)'
  BY DEF PushInv
<1>1. PairTrue(a, b)
  BY DEF PushInv
<1>2. Between(a, b, p, q) <=> Between(b, a, p, q)
  BY DEF Between
<1>3. CASE Between(a, b, p, q)
  <2>1. /\ end'[a][b] # "on" /\ end'[b][a] # "on"
        /\ wire'[a][b] \in {<<>>, <<Establish>>} /\ wire'[b][a] \in {<<>>, <<Establish>>}
        /\ end'[b][a] = "opening" => wire'[a][b] = <<Establish>>
    BY <1>0, <1>2, <1>3
  <2>2. (a \in Accepts[b] => ~model[a].docs[b].refuses) /\ (b \notin Shares[a] \/ model[a].entry.mode # "held" => Unasked(model[a], b))
    BY <1>1 DEF PairTrue, RefusalTrue, UnaskedTrue, At
  <2>3. model'[a] = model[a]
    BY <1>0
  <2> QED BY <2>1, <2>2, <2>3, FreshPair
<1>4. CASE ~Between(a, b, p, q)
  <2>1. wire'[a][b] = wire[a][b] /\ wire'[b][a] = wire[b][a] /\ end'[a][b] = end[a][b] /\ end'[b][a] = end[b][a]
    BY <1>0, <1>2, <1>4
  <2> QED BY <1>0, <1>1, <2>1, SamePair
<1> QED BY <1>3, <1>4

LEMMA ConnectPushes == ASSUME SyncInv, PushInv, NEW p \in Peer, NEW q \in Peer, p # q, Connect(p, q) PROVE PushInv'
<1>1. /\ UNCHANGED <<model, doc>>
      /\ end' = [end EXCEPT ![p][q] = "opening", ![q][p] = "opening"]
      /\ wire' = [wire EXCEPT ![p][q] = <<Establish>>, ![q][p] = <<Establish>>]
  BY DEF Connect
<1>2. \A a, b \in Peer : /\ end'[a][b] = IF Between(a, b, p, q) THEN "opening" ELSE end[a][b]
                         /\ wire'[a][b] = IF Between(a, b, p, q) THEN <<Establish>> ELSE wire[a][b]
  BY <1>1 DEF Between, SyncInv, Inv, Types
<1>3. \A a, b \in Peer : Between(a, b, p, q) <=> Between(b, a, p, q)
  BY DEF Between
<1>4. \A a, b \in Peer :
        /\ ~Between(a, b, p, q) => end'[a][b] = end[a][b] /\ wire'[a][b] = wire[a][b]
        /\ Between(a, b, p, q) => /\ end'[a][b] # "on" /\ wire'[a][b] \in {<<>>, <<Establish>>}
                                  /\ end'[a][b] = "opening" => wire'[a][b] = <<Establish>> /\ wire'[b][a] = <<Establish>>
  BY <1>2, <1>3
<1>5. LinkMoves(p, q)
  BY <1>1, <1>4 DEF LinkMoves
<1> QED BY <1>5, LinkPushes

LEMMA DropPushes == ASSUME SyncInv, PushInv, NEW p \in Peer, NEW q \in Peer, p # q, Drop(p, q) PROVE PushInv'
<1>1. /\ UNCHANGED <<model, doc>>
      /\ end' = [end EXCEPT ![p][q] = Dead(@), ![q][p] = Dead(@)]
      /\ wire' = [wire EXCEPT ![p][q] = <<>>, ![q][p] = <<>>]
  BY DEF Drop
<1>2. \A a, b \in Peer : /\ end'[a][b] = IF Between(a, b, p, q) THEN Dead(end[a][b]) ELSE end[a][b]
                         /\ wire'[a][b] = IF Between(a, b, p, q) THEN <<>> ELSE wire[a][b]
  BY <1>1 DEF Between, SyncInv, Inv, Types
<1>3. \A e : Dead(e) \notin {"on", "opening"}
  BY DEF Dead
<1>4. \A a, b \in Peer :
        /\ ~Between(a, b, p, q) => end'[a][b] = end[a][b] /\ wire'[a][b] = wire[a][b]
        /\ Between(a, b, p, q) => /\ end'[a][b] # "on" /\ wire'[a][b] \in {<<>>, <<Establish>>}
                                  /\ end'[a][b] = "opening" => wire'[a][b] = <<Establish>> /\ wire'[b][a] = <<Establish>>
  BY <1>2, <1>3
<1>5. LinkMoves(p, q)
  BY <1>1, <1>4 DEF LinkMoves
<1> QED BY <1>5, LinkPushes

LEMMA NoticedPushes == ASSUME SyncInv, PushInv, NEW p \in Peer, NEW q \in Peer, Noticed(p, q) PROVE PushInv'
<1>1. end[p][q] = "broken" /\ end' = [end EXCEPT ![p][q] = "off"] /\ UNCHANGED <<model, doc, wire>>
  BY DEF Noticed
<1>2. \A a, b \in Peer : end'[a][b] = IF a = p /\ b = q THEN "off" ELSE end[a][b]
  BY <1>1 DEF SyncInv, Inv, Types
<1> SUFFICES ASSUME NEW a \in Peer, NEW b \in Peer, a # b PROVE PairTrue(a, b)'
  BY DEF PushInv
<1>3. PairTrue(a, b)
  BY DEF PushInv
<1>4. \A e \in {"on", "opening"} : (end'[a][b] = e <=> end[a][b] = e) /\ (end'[b][a] = e <=> end[b][a] = e)
  BY <1>1, <1>2
<1> QED BY <1>1, <1>3, <1>4, SamePair

LEMMA CrashPushes == ASSUME SyncInv, PushInv, NEW p \in Peer, Crash(p) PROVE PushInv'
<1>1. /\ \A a \in Peer : /\ model'[a] = IF a = p THEN initSync ELSE model[a]
                         /\ doc'[a] = IF a = p THEN None ELSE doc[a]
      /\ \A a, b \in Peer : /\ end'[a][b] = IF a = p THEN "off" ELSE IF b = p THEN Dead(end[a][b]) ELSE end[a][b]
                            /\ wire'[a][b] = IF p \in {a, b} THEN <<>> ELSE wire[a][b]
  BY DEF Crash, SyncInv, Inv, Types
<1>2. \A e : Dead(e) \notin {"on", "opening"}
  BY DEF Dead
<1>3. \A x \in Peer : ~initSync.docs[x].refuses /\ Unasked(initSync, x)
  <2>1. Unknown.refuses = FALSE
    BY DEF Unknown
  <2> QED BY <2>1, InitSyncKnows, InitSyncFacts
<1> SUFFICES ASSUME NEW a \in Peer, NEW b \in Peer, a # b PROVE PairTrue(a, b)'
  BY DEF PushInv
<1>4. PairTrue(a, b)
  BY DEF PushInv
<1>5. CASE p \in {a, b}
  <2>1. end'[a][b] \notin {"on", "opening"} /\ end'[b][a] \notin {"on", "opening"} /\ wire'[a][b] = <<>> /\ wire'[b][a] = <<>>
    BY <1>1, <1>2, <1>5
  <2>2. /\ a \in Accepts[b] => ~model'[a].docs[b].refuses
        /\ b \notin Shares[a] \/ model'[a].entry.mode # "held" => Unasked(model'[a], b)
    BY <1>1, <1>3, <1>4 DEF PairTrue, RefusalTrue, UnaskedTrue, At
  <2> QED BY <2>1, <2>2, FreshPair
<1>6. CASE p \notin {a, b}
  <2>1. /\ end'[a][b] = end[a][b] /\ end'[b][a] = end[b][a] /\ wire'[a][b] = wire[a][b] /\ wire'[b][a] = wire[b][a]
        /\ model'[a] = model[a] /\ doc'[a] = doc[a] /\ model'[b] = model[b] /\ doc'[b] = doc[b]
    BY <1>1, <1>6
  <2> QED BY <1>4, <2>1, SamePair
<1> QED BY <1>5, <1>6

LEMMA InitPushes == ASSUME Init PROVE PushInv
<1>1. \A a, b \in Peer : /\ wire[a][b] = <<>> /\ end[a][b] = "off"
                         /\ At(a, b).will = None /\ At(a, b).owed = None /\ ~At(a, b).refuses
  BY DEF Init, Started, At, initSync, Unknown
<1> SUFFICES ASSUME NEW a \in Peer, NEW b \in Peer PROVE PairTrue(a, b)
  BY DEF PushInv
<1>2. BaselineTrue(a, b) /\ AdvanceTrue(a, b) /\ Opening(a, b)
  BY <1>1 DEF BaselineTrue, AdvanceTrue, Opening, Taking
<1>3. OfferTrue(a, b) /\ AskedAgain(a, b) /\ RefusalTrue(a, b) /\ UnaskedTrue(a, b)
  BY <1>1 DEF OfferTrue, AskedAgain, RefusalTrue, UnaskedTrue, Under, Tells, Unasked, At
<1> QED BY <1>2, <1>3 DEF PairTrue

LEMMA StutterPushes == ASSUME PushInv, UNCHANGED vars PROVE PushInv'
<1>1. UNCHANGED <<model, doc, wire, end>>
  BY DEF vars
<1> SUFFICES ASSUME NEW a \in Peer, NEW b \in Peer, a # b PROVE PairTrue(a, b)'
  BY DEF PushInv
<1>2. PairTrue(a, b)
  BY DEF PushInv
<1> QED BY <1>1, <1>2, SamePair

-----------------------------------------------------------------------------
(* The actions: each is a turn, or what happens to a link.                 *)

LEMMA ActsTurn ==
  ASSUME NEW p \in Peer, NEW reply, Acts(p, reply), Pushes(p, model[p], reply, doc[p], doc'[p], p, "none", Head(wire[p][p]))
  PROVE  Turn(p, p, "none", reply)
BY DEF Turn

LEMMA ReadsTurn ==
  ASSUME NEW p \in Peer, NEW q \in Peer, p # q, NEW t, t # "none", NEW reply, NEW first, Reads(p, q, t, reply, first),
         \A x \in Peer : ~Tells(first[x], {"dismiss", "vacant", "refuse"}),
         Pushes(p, model[p], reply, doc[p], doc'[p], q, t, Head(wire[q][p])),
         t \in {"establish", "interest"} => reply.model.entry.mode = model[p].entry.mode,
         t = "offer" /\ q \in Accepts[p] /\ q \in model[p].tracked /\ TakesIn(model[p]) =>
           (Reaches(doc[p], Head(wire[q][p]).from) => Reaches(doc'[p], Head(wire[q][p]).version))
  PROVE  Turn(p, q, t, reply)
BY DEF Turn

LEMMA SilentFirstTells == \A x \in Peer : ~Tells(Silent[x], {"dismiss", "vacant", "refuse"})
BY DEF Silent, Tells

\* A turn on an input of the peer's own.
LEMMA DocumentTurns == ASSUME SyncInv, NEW p \in Peer, Document(p) PROVE \E reply : Turn(p, p, "none", reply)
<1> DEFINE m == model[p]
           msg == Head(wire[p][p])
<1>0. Knows(m, doc[p]) /\ m \in Model /\ doc[p] \in MaybeVersion /\ stored[p] \in MaybeVersion /\ Types
  BY KnowsOf DEF SyncInv, Inv
<1>1. CASE Ensure(p)
  <2> DEFINE reply == OnDocEnsure(p, m, stored[p], m.entry.suspended)
  <2>1. Acts(p, reply)
    BY <1>1, EnsureActs
  <2>2. doc[p] = None /\ stored[p] \in Version /\ doc'[p] = stored[p]
    BY <1>0, <1>1 DEF Ensure, InMemory, MaybeVersion, Types
  <2>3. m.entry.mode # "held"
    BY <1>0, <2>2 DEF Knows, EntryFits
  <2>4. Pushes(p, m, reply, doc[p], doc'[p], p, "none", msg)
    BY <1>0, <2>2, <2>3, OnDocEnsurePushes
  <2> HIDE DEF reply
  <2> QED BY <2>1, <2>4, ActsTurn
<1>2. CASE LocalWrite(p)
  <2> DEFINE reply == OnDocAdvanced(p, m, doc'[p])
  <2>1. Acts(p, reply)
    BY <1>2, LocalWriteActs
  <2>2. doc[p] \in Version /\ doc'[p] = [doc[p] EXCEPT ![p] = @ + 1]
    BY <1>0, <1>2 DEF LocalWrite, InMemory, MaybeVersion, Types
  <2>3. doc'[p] \in Version /\ doc[p] # None
    BY <2>2, NoneAssumption DEF Version
  <2>4. m.entry.mode \in {"held", "absent"}
    BY <1>0, <2>3 DEF Knows, EntryFits
  <2>5. Pushes(p, m, reply, doc[p], doc'[p], p, "none", msg)
    BY <1>0, <2>3, <2>4, OnDocAdvancedPushes
  <2> HIDE DEF reply
  <2> QED BY <2>1, <2>5, ActsTurn
<1>3. CASE Stored(p)
  <2> DEFINE reply == IF GateOpen(p, doc[p], stored[p]) THEN Only(m) ELSE OnDocPublishable(p, m)
  <2>1. Acts(p, reply)
    BY <1>3, StoredActs
  <2>2. doc'[p] = doc[p] /\ Owes(m)
    BY <1>0, <1>3 DEF Stored, Knows
  <2>3. Pushes(p, m, OnDocPublishable(p, m), doc[p], doc'[p], p, "none", msg)
    BY <1>0, <2>2, OnDocPublishablePushes
  <2>4. Pushes(p, m, Only(m), doc[p], doc'[p], p, "none", msg)
    BY <1>0, <2>2, SamePushes
  <2>5. Pushes(p, m, reply, doc[p], doc'[p], p, "none", msg)
    BY <2>3, <2>4
  <2> HIDE DEF reply
  <2> QED BY <2>1, <2>5, ActsTurn
<1>4. CASE Unloading(p) \/ UnloadCancelled(p)
  <2>1. PICK leaving \in BOOLEAN : UNCHANGED doc /\ Input(p, OnDocUnloading(p, model[p], leaving))
    BY <1>4 DEF Unloading, UnloadCancelled
  <2> DEFINE reply == OnDocUnloading(p, m, leaving)
  <2>2. Acts(p, reply)
    BY <2>1, UnloadingActs
  <2>3. doc'[p] = doc[p]
    BY <2>1
  <2>4. Pushes(p, m, reply, doc[p], doc'[p], p, "none", msg)
    BY <1>0, <2>3, OnDocUnloadingPushes
  <2> HIDE DEF reply
  <2> QED BY <2>2, <2>4, ActsTurn
<1>5. CASE Resume(p)
  <2> DEFINE reply == OnDocEnsure(p, m, doc[p], FALSE)
  <2>1. Acts(p, reply)
    BY <1>5, ResumeActs
  <2>2. doc[p] \in Version /\ doc'[p] = doc[p] /\ m.entry.mode # "held"
    BY <1>0, <1>5 DEF Resume, InMemory, MaybeVersion
  <2>3. Pushes(p, m, reply, doc[p], doc'[p], p, "none", msg)
    BY <1>0, <2>2, OnDocEnsurePushes
  <2> HIDE DEF reply
  <2> QED BY <2>1, <2>3, ActsTurn
<1>6. CASE Suspend(p) \/ Unloaded(p) \/ Destroy(p)
  <2>1. PICK as : Acts(p, OnDocLeave(p, m, as))
    BY <1>6, SuspendActs, UnloadedActs, DestroyActs
  <2> DEFINE reply == OnDocLeave(p, m, as)
  <2>2. Pushes(p, m, reply, doc[p], doc'[p], p, "none", msg)
    BY <1>0, OnDocLeavePushes
  <2>3. Acts(p, reply)
    BY <2>1
  <2> HIDE DEF reply
  <2> QED BY <2>2, <2>3, ActsTurn
<1> QED BY <1>1, <1>2, <1>3, <1>4, <1>5, <1>6 DEF Document

LEMMA DepartedTurns ==
  ASSUME SyncInv, NEW p \in Peer, NEW q \in Peer, Departed(p, q) PROVE \E reply : Turn(p, p, "none", reply)
<1> DEFINE reply == OnPeerDeparted(model[p], q)
<1>1. Acts(p, reply)
  BY DepartedActs
<1>2. model[p] \in Model /\ doc'[p] = doc[p]
  BY KnowsOf DEF Departed
<1>3. Pushes(p, model[p], reply, doc[p], doc'[p], p, "none", Head(wire[p][p]))
  BY <1>2, OnPeerDepartedPushes
<1> HIDE DEF reply
<1> QED BY <1>1, <1>3, ActsTurn

LEMMA EstablishTurns ==
  ASSUME SyncInv, NEW p \in Peer, NEW q \in Peer, p # q, ReceiveEstablish(p, q)
  PROVE  \E reply : Turn(p, q, "establish", reply)
<1> DEFINE reply == OnPeerAvailable(p, model[p], q)
<1>1. Reads(p, q, "establish", reply, Silent)
  BY ReceiveEstablishReads
<1>2. model[p] \in Model /\ doc'[p] = doc[p]
  BY KnowsOf DEF ReceiveEstablish
<1>3. Pushes(p, model[p], reply, doc[p], doc'[p], q, "establish", Head(wire[q][p]))
  BY <1>2, OnPeerAvailablePushes
<1>4. reply.model.entry.mode = model[p].entry.mode
  BY <1>2 DEF OnPeerAvailable, Saying, Model, SyncModel
<1> HIDE DEF reply
<1>5. Turn(p, q, "establish", reply)
  BY <1>1, <1>3, <1>4, SilentFirstTells, ReadsTurn
<1> QED BY <1>5

LEMMA PresentTurns ==
  ASSUME SyncInv, NEW p \in Peer, NEW q \in Peer, p # q, ReceivePresent(p, q)
  PROVE  \E reply : Turn(p, q, "present", reply)
<1> DEFINE m == model[p]
           msg == Head(wire[q][p])
<1>1. PICK answer : Reads(p, q, "present", Resolved(p, q, answer), Silent)
  BY ReceivePresentReads
<1> DEFINE reply == Resolved(p, q, answer)
<1>2. m \in Model /\ doc'[p] = doc[p]
  BY KnowsOf DEF ReceivePresent, Receive
<1>3. \/ reply = OnPresent(p, m, q)
      \/ m.entry.mode = "absent" /\ reply \in {OnDocDefer(p, m), OnDeclareVacant(m, q)}
  BY DEF Resolved
<1>4. Pushes(p, m, OnPresent(p, m, q), doc[p], doc'[p], q, "present", msg)
  BY <1>2, OnPresentPushes
<1>5. ASSUME m.entry.mode = "absent" PROVE Pushes(p, m, OnDocDefer(p, m), doc[p], doc'[p], q, "present", msg)
  BY <1>2, <1>5, OnDocDeferPushes
<1>6. ASSUME m.entry.mode = "absent" PROVE Pushes(p, m, OnDeclareVacant(m, q), doc[p], doc'[p], q, "present", msg)
  BY <1>2, <1>6, OnDeclareVacantPushes DEF TakesIn
<1>7. Pushes(p, m, reply, doc[p], doc'[p], q, "present", msg)
  BY <1>3, <1>4, <1>5, <1>6
<1> HIDE DEF reply
<1>8. Turn(p, q, "present", reply)
  BY <1>1, <1>7, SilentFirstTells, ReadsTurn DEF reply
<1> QED BY <1>8

LEMMA InterestTurns ==
  ASSUME SyncInv, NEW p \in Peer, NEW q \in Peer, p # q, ReceiveInterest(p, q)
  PROVE  \E reply : Turn(p, q, "interest", reply)
<1> DEFINE m == model[p]
           i == Head(wire[q][p])
           reply == OnInterest(p, m, q, i)
           synced == [reply EXCEPT !.model = OnPeerSynced(@, q, i.version)]
<1>1. i \in Interest /\ (Reads(p, q, "interest", reply, Silent) \/ Reads(p, q, "interest", synced, Silent))
  BY ReceiveInterestReads
<1>2. m \in Model /\ doc'[p] = doc[p]
  BY KnowsOf DEF ReceiveInterest, Receive
<1>3. i.version \in Version
  BY <1>1 DEF Interest
<1> HIDE DEF m, i
<1>4. Pushes(p, m, reply, doc[p], doc'[p], q, "interest", i)
  BY <1>1, <1>2, OnInterestPushes
<1>5. reply \in Reply
  BY <1>1, <1>2, OnInterestAnswers DEF Answers
<1>6. reply.model.entry.mode = m.entry.mode
  <2>1. \A r : SetPeerDoc(m, q, r).entry = m.entry
    BY DEF SetPeerDoc
  <2> QED BY <1>2, <2>1, ReloadSame DEF OnInterest, Only, Saying
<1> HIDE DEF reply
<1>7. Pushes(p, m, synced, doc[p], doc'[p], q, "interest", i)
  BY <1>2, <1>3, <1>4, <1>5, SyncedPushes
<1>8. synced.model.entry.mode = m.entry.mode
  <2> DEFINE n == reply.model
  <2>1. synced.model = OnPeerSynced(n, q, i.version) /\ n \in Model
    BY <1>5 DEF Reply
  <2> HIDE DEF n
  <2>2. OnPeerSynced(n, q, i.version).entry = n.entry
    BY <1>3, <2>1, OnPeerSyncedSame
  <2>3. synced.model.entry.mode = n.entry.mode
    BY <2>1, <2>2
  <2> QED BY <1>6, <2>3 DEF n
<1> HIDE DEF synced
<1>9. ASSUME NEW r \in {reply, synced}, Reads(p, q, "interest", r, Silent) PROVE Turn(p, q, "interest", r)
  <2>1. Pushes(p, model[p], r, doc[p], doc'[p], q, "interest", Head(wire[q][p])) /\ r.model.entry.mode = model[p].entry.mode
    BY <1>4, <1>6, <1>7, <1>8, <1>9 DEF m, i
  <2> QED BY <1>9, <2>1, SilentFirstTells, ReadsTurn
<1>10. \E r \in {reply, synced} : Reads(p, q, "interest", r, Silent)
  BY <1>1
<1> QED BY <1>9, <1>10

\* What connects is merged whole.
LEMMA MergesAll ==
  ASSUME NEW d \in Version, NEW from \in Version, NEW v \in Version, NEW e \in Merged(d, from, v), Reaches(d, from)
  PROVE  Reaches(e, v)
<1> DEFINE start == [w \in Peer |-> IF from[w] < v[w] THEN from[w] ELSE 0]
<1>1. ASSUME NEW w \in Peer PROVE d[w] \in Nat /\ v[w] \in Nat /\ from[w] \in Nat /\ from[w] <= d[w]
  BY DEF Reaches, Version
<1>2. ASSUME NEW w \in Peer PROVE start[w] <= d[w]
  <2>1. start[w] = IF from[w] < v[w] THEN from[w] ELSE 0
    OBVIOUS
  <2> HIDE DEF start
  <2> QED BY <1>1, <2>1
<1>3. Reaches(d, start)
  BY <1>2 DEF Reaches
<1>4. e = Join(d, v)
  BY <1>3 DEF Merged
<1>5. ASSUME NEW w \in Peer PROVE v[w] <= e[w]
  <2>1. e[w] = IF d[w] < v[w] THEN v[w] ELSE d[w]
    BY <1>4 DEF Join
  <2> QED BY <1>1, <2>1
<1> QED BY <1>5 DEF Reaches

LEMMA OfferTurns ==
  ASSUME SyncInv, NEW p \in Peer, NEW q \in Peer, p # q, ReceiveOffer(p, q)
  PROVE  \E reply : Turn(p, q, "offer", reply)
<1> DEFINE o == Head(wire[q][p])
           m == model[p]
           c == doc[p]
           d == doc'[p]
           accept == To(IF q \in Shares[p] /\ q \in Accepts[p] THEN {q} ELSE {}, <<Accept(o.version)>>)
           will == IF m.docs[q].will = None THEN o.version ELSE Join(m.docs[q].will, o.version)
<1>1. PICK reply, first : Reads(p, q, "offer", reply, first) /\ Offered(p, q, o, d, reply, first)
  BY ReceiveOfferReads
<1>2. Arrives(p, q, "offer")
  BY <1>1 DEF Reads
<1>3. o.version \in Version /\ o.from \in Version /\ q \in Shares[p]
  BY <1>2, HeadFits DEF Message, SyncInv
<1>4. m \in Model /\ Knows(m, c) /\ c \in MaybeVersion
  BY KnowsOf
<1>5. \/ reply = Only(m) /\ first = Silent /\ d = c /\ (q \notin m.tracked \/ ~TakesIn(m))
      \/ reply = Only(OnPeerSynced(m, q, o.version)) /\ first = accept /\ d = c /\ Reaches(d, o.version)
      \/ reply = OnOfferVetoed(p, m, q) /\ first = Silent /\ d = c /\ q \notin Accepts[p]
      \/ /\ reply = OnDocImported(p, m, q, d, d # c, o.version, will)
         /\ first = (IF Reaches(d, o.version) THEN accept ELSE Silent)
         /\ d \in Merged(c, o.from, o.version) /\ d \in Version /\ c \in Version /\ TakesIn(m) /\ q \in m.tracked
  BY <1>1 DEF Offered
<1>6. first \in {Silent, accept}
  BY <1>5
<1>7. \A x \in Peer : ~Tells(accept[x], {"dismiss", "vacant", "refuse"})
  BY TellsTo DEF Accept
<1> HIDE DEF accept, will, o, m, c, d
<1>8. \A x \in Peer : ~Tells(first[x], {"dismiss", "vacant", "refuse"})
  BY <1>6, <1>7, SilentFirstTells
<1>9. Pushes(p, m, reply, c, d, q, "offer", o) /\
      (q \in Accepts[p] /\ q \in m.tracked /\ TakesIn(m) /\ Reaches(c, o.from) => Reaches(d, o.version))
  <2>1. CASE reply = Only(m) /\ d = c /\ (q \notin m.tracked \/ ~TakesIn(m))
    BY <1>4, <2>1, SamePushes
  <2>2. CASE reply = Only(OnPeerSynced(m, q, o.version)) /\ d = c /\ Reaches(d, o.version)
    BY <1>3, <1>4, <2>2, OnlySyncedPushes
  <2>3. CASE reply = OnOfferVetoed(p, m, q) /\ d = c /\ q \notin Accepts[p]
    BY <1>4, <2>3, OnOfferVetoedPushes
  <2>4. CASE /\ reply = OnDocImported(p, m, q, d, d # c, o.version, will)
             /\ d \in Merged(c, o.from, o.version) /\ d \in Version /\ c \in Version /\ TakesIn(m) /\ q \in m.tracked
    <3>1. \A w \in Peer : d[w] \in {c[w], o.version[w]}
      BY <1>3, <2>4, MergedFacts
    <3>2. Reaches(c, o.from) => Reaches(d, o.version)
      BY <1>3, <2>4, MergesAll
    <3>3. Pushes(p, m, reply, c, d, q, "offer", o)
      <4> DEFINE changed == d # c
      <4>1. ~changed => d = c
        OBVIOUS
      <4> HIDE DEF changed
      <4>2. Pushes(p, m, OnDocImported(p, m, q, d, changed, o.version, will), c, d, q, "offer", o)
        BY <1>3, <1>4, <2>4, <3>1, <4>1, OnDocImportedPushes DEF will
      <4> QED BY <2>4, <4>2 DEF changed
    <3> QED BY <3>2, <3>3
  <2> QED BY <1>5, <2>1, <2>2, <2>3, <2>4
<1>10. Pushes(p, model[p], reply, doc[p], doc'[p], q, "offer", Head(wire[q][p]))
  BY <1>9 DEF m, c, d, o
<1>11. q \in Accepts[p] /\ q \in model[p].tracked /\ TakesIn(model[p]) =>
         (Reaches(doc[p], Head(wire[q][p]).from) => Reaches(doc'[p], Head(wire[q][p]).version))
  BY <1>9 DEF m, c, d, o
<1>12. Turn(p, q, "offer", reply)
  BY <1>1, <1>8, <1>10, <1>11, ReadsTurn
<1> QED BY <1>12

\* An accept, a refuse, a dismiss or a vacant.
LEMMA RecordTurns ==
  ASSUME SyncInv, NEW p \in Peer, NEW q \in Peer, p # q,
         ReceiveAccept(p, q) \/ ReceiveRefuse(p, q) \/ ReceiveDismiss(p, q) \/ ReceiveVacant(p, q)
  PROVE  \E t, reply : Turn(p, q, t, reply)
<1> DEFINE m == model[p]
           msg == Head(wire[q][p])
<1>1. m \in Model /\ doc'[p] = doc[p]
  BY KnowsOf DEF ReceiveAccept, ReceiveRefuse, ReceiveDismiss, ReceiveVacant, Receive
<1>2. ASSUME NEW t \in {"accept", "refuse", "dismiss", "vacant"}, NEW reply, Reads(p, q, t, reply, Silent),
             Pushes(p, model[p], reply, doc[p], doc'[p], q, t, Head(wire[q][p]))
      PROVE  Turn(p, q, t, reply)
  BY <1>2, SilentFirstTells, ReadsTurn
<1>3. CASE ReceiveAccept(p, q)
  <2> DEFINE v == msg.version
             reply == OnAccept(m, q, v)
  <2>1. v \in Version /\ Reads(p, q, "accept", reply, Silent)
    BY <1>3, ReceiveRecordReads
  <2>2. Pushes(p, m, reply, doc[p], doc'[p], q, "accept", msg)
    BY <1>1, <2>1, OnAcceptPushes
  <2> HIDE DEF reply
  <2> QED BY <1>2, <2>1, <2>2
<1>4. CASE ReceiveRefuse(p, q)
  <2> DEFINE reply == OnRefuse(m, q)
  <2>1. Reads(p, q, "refuse", reply, Silent)
    BY <1>4, ReceiveRecordReads
  <2>2. Pushes(p, m, reply, doc[p], doc'[p], q, "refuse", msg)
    BY <1>1, OnRefusePushes
  <2> HIDE DEF reply
  <2> QED BY <1>2, <2>1, <2>2
<1>5. CASE ReceiveDismiss(p, q)
  <2> DEFINE reply == OnDismiss(m, q)
  <2>1. Reads(p, q, "dismiss", reply, Silent)
    BY <1>5, ReceiveRecordReads
  <2>2. Pushes(p, m, reply, doc[p], doc'[p], q, "dismiss", msg)
    BY <1>1, OnDismissPushes
  <2> HIDE DEF reply
  <2> QED BY <1>2, <2>1, <2>2
<1>6. CASE ReceiveVacant(p, q)
  <2> DEFINE reply == OnVacant(m, q)
  <2>1. Reads(p, q, "vacant", reply, Silent)
    BY <1>6, ReceiveRecordReads
  <2>2. Pushes(p, m, reply, doc[p], doc'[p], q, "vacant", msg)
    BY <1>1, OnVacantPushes
  <2> HIDE DEF reply
  <2> QED BY <1>2, <2>1, <2>2
<1> QED BY <1>3, <1>4, <1>5, <1>6

-----------------------------------------------------------------------------
(* The invariant, and the theorems.                                        *)

LEMMA NextPushes == ASSUME SyncInv, SyncInv', PushInv, Next PROVE PushInv'
<1>1. ASSUME NEW p \in Peer, NEW q \in Peer, NEW t, NEW reply, Turn(p, q, t, reply) PROVE PushInv'
  BY <1>1, TurnKeeps
<1>2. CASE \E p \in Peer : Document(p)
  BY <1>1, <1>2, DocumentTurns
<1>3. CASE \E p \in Peer : Crash(p)
  BY <1>3, CrashPushes
<1>4. CASE \E p, q \in Peer : p # q /\ Network(p, q)
  <2>1. PICK p \in Peer, q \in Peer : p # q /\ Network(p, q)
    BY <1>4
  <2>2. CASE Connect(p, q) \/ Drop(p, q) \/ Noticed(p, q)
    BY <2>1, <2>2, ConnectPushes, DropPushes, NoticedPushes
  <2>3. CASE Departed(p, q)
    BY <1>1, <2>3, DepartedTurns
  <2>4. CASE ReceiveEstablish(p, q) \/ ReceivePresent(p, q)
    BY <1>1, <2>1, <2>4, EstablishTurns, PresentTurns
  <2>5. CASE ReceiveInterest(p, q) \/ ReceiveOffer(p, q)
    BY <1>1, <2>1, <2>5, InterestTurns, OfferTurns
  <2>6. CASE ReceiveAccept(p, q) \/ ReceiveRefuse(p, q) \/ ReceiveDismiss(p, q) \/ ReceiveVacant(p, q)
    BY <1>1, <2>1, <2>6, RecordTurns
  <2> QED BY <2>1, <2>2, <2>3, <2>4, <2>5, <2>6 DEF Network, Receives
<1> QED BY <1>2, <1>3, <1>4 DEF Next

LEMMA AlwaysPushInv == Spec => [](SyncInv /\ PushInv)
<1>1. Init => SyncInv /\ PushInv
  BY InitHolds, InitPushes
<1>2. SyncInv /\ PushInv /\ [Next]_vars => (SyncInv /\ PushInv)'
  <2>1. SyncInv /\ PushInv /\ Next => SyncInv' /\ PushInv'
    BY NextHolds, NextPushes DEF SyncInv, Kept
  <2>2. SyncInv /\ PushInv /\ UNCHANGED vars => SyncInv' /\ PushInv'
    BY StutterHolds, StutterPushes
  <2> QED BY <2>1, <2>2
<1> QED BY <1>1, <1>2, PTL DEF Spec

\* A push leaves no hole: what a program takes a peer to hold once what was sent has arrived, from where its next push
\* starts, the peer holds, or an offer under way to it brings (willHold, program.ts), unless the peer is about to ask anew
\* or has let go of the document.
THEOREM BaselineCorrect == Spec => []BaselineArrives
<1>1. SyncInv /\ PushInv => BaselineArrives
  <2> SUFFICES ASSUME SyncInv, PushInv, NEW a \in Peer, NEW b \in Peer,
                      At(a, b).will # None, end[a][b] = "on", end[b][a] = "on", a \in Accepts[b], TakesIn(model[b]),
                      Of("dismiss", b, a) = {}, Of("interest", b, a) = {}, NEW w \in Peer
               PROVE  \/ At(a, b).will[w] <= doc[b][w]
                      \/ \E o \in Of("offer", a, b) : At(a, b).will[w] <= o.version[w]
    BY DEF BaselineArrives
  <2>1. end[a][a] = "off"
    BY DEF SyncInv, RecordsInv
  <2>2. a # b /\ PairTrue(a, b)
    BY <2>1 DEF PushInv
  <2>3. b \in Shares[a]
    BY <2>2 DEF PairTrue, UnaskedTrue, Unasked, At
  <2>4. a \in Shares[b]
    BY DEF SyncInv, Inv, AskedFirst, Unasked, At
  <2>5. Chained(a, b)
    <3>1. Taking(a, b)
      BY <2>3, <2>4 DEF Taking
    <3>2. ~Under("dismiss", b, a) /\ ~Under("interest", b, a)
      BY DEF Under, Tells, Of, Messages
    <3> QED BY <2>2, <3>1, <3>2 DEF PairTrue, BaselineTrue
  <2>6. PICK S \in SUBSET DOMAIN wire[a][b] : Sound(doc[b], wire[a][b], S) /\ Reached(doc[b], wire[a][b], S, At(a, b).will)
    BY <2>5 DEF Chained, Chain
  <2>7. Brings(doc[b], wire[a][b], S, w, At(a, b).will[w])
    BY <2>6 DEF Reached
  <2>8. ASSUME NEW i \in S PROVE wire[a][b][i] \in Of("offer", a, b)
    BY <2>6, <2>8 DEF Sound, Of, Messages
  <2> QED BY <2>7, <2>8 DEF Brings
<1> QED BY <1>1, AlwaysPushInv, PTL

\* An advance is never forgotten: between two peers that share the document, over a link up at both ends, all that one holds
\* has been sent to the other, or is owed to it, or the other's interest is on its way (owedFrom, program.ts).
THEOREM OwedOrCurrentCorrect == Spec => []OwedOrCurrent
<1>1. SyncInv /\ PushInv => OwedOrCurrent
  <2> SUFFICES ASSUME SyncInv, PushInv, NEW a \in Peer, NEW b \in Peer,
                      Here(a), end[a][b] = "on", end[b][a] = "on", ~At(a, b).refuses,
                      b \in Shares[a], a \in Shares[b], TakesIn(model[b])
               PROVE  \/ Of("interest", b, a) # {} \/ Of("present", a, b) # {}
                      \/ At(a, b).owed # None
                      \/ At(a, b).will # None /\ Reaches(At(a, b).will, doc[a])
    BY DEF OwedOrCurrent
  <2>1. end[a][a] = "off"
    BY DEF SyncInv, RecordsInv
  <2>2. a # b /\ AdvanceTrue(a, b)
    BY <2>1 DEF PushInv, PairTrue
  <2>3. Under("interest", b, a) \/ Under("present", a, b) \/ UpToDate(At(a, b), doc[a])
    BY <2>2 DEF AdvanceTrue, Taking, Here
  <2>4. /\ Under("interest", b, a) => Of("interest", b, a) # {}
        /\ Under("present", a, b) => Of("present", a, b) # {}
    BY DEF Under, Tells, Of, Messages
  <2> QED BY <2>3, <2>4 DEF UpToDate
<1> QED BY <1>1, AlwaysPushInv, PTL
=============================================================================
