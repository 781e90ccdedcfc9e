----------------------------- MODULE LineProofs -----------------------------
(***************************************************************************)
(* Proofs about the Line: its type invariant, PrunedIsGiven, and that it   *)
(* implements the streams of module Stream.                                *)
(***************************************************************************)
EXTENDS Line, FiniteSetTheorems, TLAPS

-----------------------------------------------------------------------------
(* The inductive invariant.  Its parts about a document take the streams as*)
(* arguments, so that one document can be judged before and after a step.  *)

\* How many of its messages an outbox no longer holds.
Gone(o) == o.next - Len(o.msgs) - 1

\* An outbox on its own: its messages are numbered up to the next one, and what was never written holds nothing.
Sound(o) ==
  /\ o \in DocType
  /\ Gone(o) >= 0 /\ \A n \in DOMAIN o.msgs : o.msgs[n].seq = Gone(o) + n
  /\ o.lin = Genesis => o.msgs = <<>> /\ o.next = 1
  /\ o.ackLin = Genesis => o.ackSeq = 0

\* Its messages are those of its stream, which peer p writes, and it lacks none that the other was not given.
OutboxIn(o, p, aus, logs, highs) ==
  o.lin # Genesis =>
    /\ aus[o.lin] = p
    /\ o.next - 1 <= Len(logs[o.lin])
    /\ \A n \in DOMAIN o.msgs : o.msgs[n].id = logs[o.lin][o.msgs[n].seq]
    /\ Gone(o) <= highs[o.lin]

\* It acknowledges what p was given of the other's stream.
AcksIn(o, p, aus, highs) ==
  o.ackLin # Genesis => aus[o.ackLin] = Other(p) /\ o.ackSeq <= highs[o.ackLin]

VersionIn(o, p, aus, logs, highs) == Sound(o) /\ OutboxIn(o, p, aus, logs, highs) /\ AcksIn(o, p, aus, highs)

\* Where the outbox of p is, other than in p's memory and in its store.
Copies(p) == {wire[p], doc[Other(p)]["inbox"], disk[Other(p)]["inbox"]}
Versions(p) == Copies(p) \cup {doc[p]["outbox"], disk[p]["outbox"]}

\* The types of the streams.
StreamTypes(aus, logs, highs) ==
  aus \in [Lineages -> Peer \cup {"nobody"}] /\ logs \in [Lineages -> Seq(Message)] /\ highs \in [Lineages -> Nat]

\* No more of a stream was given than it has, and one nobody writes has nothing.
Bounds(aus, logs, highs) ==
  \A l \in Lineages : highs[l] <= Len(logs[l]) /\ (aus[l] = "nobody" => logs[l] = <<>> /\ highs[l] = 0)

TypesHold ==
  /\ phase \in [Peer -> [Docs -> {"absent", "loading", "ready"}]]
  /\ doc \in [Peer -> [Docs -> DocType]] /\ disk \in [Peer -> [Docs -> DocType]]
  /\ deleting \in [Peer -> SUBSET Docs] /\ wire \in [Peer -> DocType]
  /\ line \in [Peer -> [open : BOOLEAN, resumed : BOOLEAN, unsent : Seq(Message), last : Nat, lin : {Genesis} \cup Lineages]]
  /\ queue \in [Peer -> Seq(Message)] /\ given \in [Peer -> Seq(Message)] /\ lost \in [Peer -> SUBSET Message]
  /\ StreamTypes(author, log, high)
  /\ anew \subseteq Peer /\ sends \in [Peer -> Nat] /\ restarts \in 0 .. MaxRestarts

\* A document that is not in memory is blank there, and one in memory is not being deleted.
PhasesHold ==
  \A p \in Peer, d \in Docs :
    (phase[p][d] = "ready" => d \notin deleting[p]) /\ (phase[p][d] # "ready" => doc[p][d] = Empty)

\* Every copy of an outbox is one.
VersionsHold == \A p \in Peer : \A o \in Versions(p) : VersionIn(o, p, author, log, high)

\* The peers whose outbox in memory is of a lineage: each of the others may mint one more.
Writers == {p \in Peer : doc[p]["outbox"].lin # Genesis}

\* Lineages are minted in order, at most one for each peer and each restart.
MintingHolds ==
  \E k \in Nat : /\ \A l \in Lineages : author[l] # "nobody" <=> l <= k
                 /\ k <= restarts + Cardinality(Writers)

\* What a stop may forget of a stream nobody else has: whatever left the writer's memory, which holds o, is in its store,
\* which holds d.
StoredIn(o, d, copies, logs, highs) ==
  /\ o.lin = Genesis => d.lin = Genesis
  /\ o.lin # Genesis => Len(logs[o.lin]) = o.next - 1 /\ d.lin \in {Genesis, o.lin}
  /\ o.lin # Genesis /\ d.lin = o.lin => highs[o.lin] <= d.next - 1 /\ \A c \in copies : c.lin = o.lin => c.next <= d.next
  /\ o.lin # Genesis /\ d.lin # o.lin => highs[o.lin] = 0 /\ \A c \in copies : c.lin # o.lin

StoredFirst(p) ==
  /\ phase[p]["outbox"] = "ready" => StoredIn(doc[p]["outbox"], disk[p]["outbox"], Copies(p), log, high)
  /\ phase[p]["outbox"] # "ready" /\ disk[p]["outbox"].lin # Genesis =>
       Len(log[disk[p]["outbox"].lin]) = disk[p]["outbox"].next - 1

\* A cursor of p in its inbox i is no further than p was given of that stream.
CursorIn(p, last, i, highs) ==
  /\ i.lin = Genesis => last = 0
  /\ i.lin # Genesis => last <= highs[i.lin] /\ (p \notin anew => last = highs[i.lin])

\* A Line that has resumed has a cursor in its inbox.
CursorHolds(p) ==
  line[p].resumed =>
    /\ line[p].open /\ line[p].unsent = <<>> /\ \A d \in Docs : phase[p][d] = "ready"
    /\ line[p].lin = doc[p]["inbox"].lin /\ CursorIn(p, line[p].last, doc[p]["inbox"], high)

\* The outbox o acknowledges all that p was given of the stream of its inbox i; nothing was given of a later one.
AckIn(p, o, i, aus, highs) ==
  /\ o.ackLin <= i.lin
  /\ \A l \in Lineages : l > i.lin /\ aus[l] # p => highs[l] = 0
  /\ i.lin # Genesis /\ o.ackLin = i.lin => highs[i.lin] = o.ackSeq
  /\ i.lin # Genesis /\ o.ackLin # i.lin => highs[i.lin] = 0

\* So it does while p has not started anew.
AckHolds(p) ==
  p \notin anew =>
    /\ deleting[p] = {} /\ \A d \in Docs : phase[p][d] # "ready" => disk[p][d] = Empty
    /\ AckIn(p, doc[p]["outbox"], doc[p]["inbox"], author, high)

PeerHolds(p) == StoredFirst(p) /\ CursorHolds(p) /\ AckHolds(p)

LineInv ==
  TypesHold /\ PhasesHold /\ VersionsHold /\ Bounds(author, log, high) /\ MintingHolds /\ \A p \in Peer : PeerHolds(p)

-----------------------------------------------------------------------------
(* The two peers, and the messages past a sequence number. *)

\* There are two peers, each the other of the other.
LEMMA TwoPeers ==
  /\ IsFiniteSet(Peer) /\ Cardinality(Peer) = 2
  /\ \A p \in Peer : Other(p) \in Peer /\ Other(p) # p /\ p # "nobody" /\ Other(Other(p)) = p
  /\ \A p, q \in Peer : q = p \/ q = Other(p)
<1>1. PICK a \in Peer : TRUE
  BY FS_EmptySet, LineAssumption
<1>2. IsFiniteSet(Peer \ {a}) /\ Cardinality(Peer \ {a}) = 1
  BY <1>1, FS_RemoveElement, FS_CardinalityType, LineAssumption
<1>3. PICK b : Peer \ {a} = {b}
  BY <1>2, FS_Singleton
<1>4. Peer = {a, b} /\ a # b
  BY <1>1, <1>3
<1>5. Other(a) = b /\ Other(b) = a
  BY <1>4 DEF Other
<1> QED
  BY <1>4, <1>5, LineAssumption

\* Of consecutive messages, those past a number are the ones left of the front: k of them are passed over.
LEMMA PastIs ==
  ASSUME NEW X, NEW msgs \in Seq(X), NEW base \in Nat, NEW a \in Nat,
         \A n \in 1 .. Len(msgs) : msgs[n].seq = base + n
  PROVE  \E k \in 0 .. Len(msgs) :
           /\ Past(msgs, a) = SubSeq(msgs, k + 1, Len(msgs))
           /\ k > 0 => base + k <= a
           /\ k < Len(msgs) => base + k + 1 > a
<1> DEFINE First(n) == /\ n <= Len(msgs) => msgs[n].seq > a
                       /\ \A k \in 1 .. n - 1 : msgs[k].seq <= a
           m == FirstPast(msgs, a)
<1>1. \E n \in 1 .. Len(msgs) + 1 : First(n)
  <2>1. CASE a <= base
    <3>1. First(1)
      BY <2>1
    <3> QED
      BY <3>1
  <2>2. CASE a > base /\ a - base >= Len(msgs)
    <3>1. First(Len(msgs) + 1)
      BY <2>2
    <3> QED
      BY <3>1
  <2>3. CASE a > base /\ a - base < Len(msgs)
    <3>1. Len(msgs) \in Nat /\ a - base + 1 \in 1 .. Len(msgs) /\ base + (a - base + 1) > a
      BY <2>3
    <3>2. msgs[a - base + 1].seq > a
      BY <3>1
    <3>3. ASSUME NEW k \in 1 .. a - base + 1 - 1 PROVE msgs[k].seq <= a
      <4>1. k \in 1 .. Len(msgs) /\ base + k <= a
        BY <3>1
      <4> QED
        BY <4>1
    <3>4. a - base + 1 \in 1 .. Len(msgs) + 1 /\ First(a - base + 1)
      BY <3>1, <3>2, <3>3
    <3> QED
      BY <3>4
  <2> QED
    BY <2>1, <2>2, <2>3
<1>2. m \in 1 .. Len(msgs) + 1 /\ First(m)
  <2>1. m = CHOOSE n \in 1 .. Len(msgs) + 1 : First(n)
    BY DEF FirstPast
  <2> QED
    BY <1>1, <2>1
<1>3. Past(msgs, a) = SubSeq(msgs, m, Len(msgs))
  BY DEF Past
<1> HIDE DEF m
<1>4. m - 1 \in 0 .. Len(msgs) /\ (m - 1) + 1 = m
  BY <1>2
<1>5. m - 1 > 0 => base + (m - 1) <= a
  <2>1. m - 1 > 0 => m - 1 \in 1 .. m - 1 /\ m - 1 \in 1 .. Len(msgs)
    BY <1>2
  <2> QED
    BY <2>1, <1>2
<1>6. m - 1 < Len(msgs) => base + (m - 1) + 1 > a
  <2>1. m - 1 < Len(msgs) => m \in 1 .. Len(msgs) /\ base + (m - 1) + 1 = base + m
    BY <1>2
  <2> QED
    BY <2>1, <1>2
<1> QED
  BY <1>3, <1>4, <1>5, <1>6

-----------------------------------------------------------------------------
(* What the operators on an outbox make of it. *)

Numbered == [seq : Nat \ {0}, id : Message]

\* The fields of a sound outbox.
LEMMA SoundTypes ==
  ASSUME NEW o, Sound(o)
  PROVE  /\ o.lin \in Nat /\ o.lin \in {Genesis} \cup Lineages /\ o.ver \in Nat /\ o.msgs \in Seq(Numbered)
         /\ o.next \in Nat \ {0} /\ o.ackSeq \in Nat /\ o.ackLin \in Nat /\ o.ackLin \in {Genesis} \cup Lineages
         /\ Len(o.msgs) \in Nat /\ Gone(o) \in Nat
<1>1. o \in DocType /\ Gone(o) >= 0
  BY DEF Sound
<1>2. {Genesis} \cup Lineages \subseteq Nat
  BY DEF Genesis, Lineages
<1>3. o.lin \in {Genesis} \cup Lineages /\ o.ver \in Nat /\ o.msgs \in Seq(Numbered) /\ o.next \in Nat \ {0}
      /\ o.ackSeq \in Nat /\ o.ackLin \in {Genesis} \cup Lineages
  BY <1>1 DEF DocType, Numbered
<1>4. Len(o.msgs) \in Nat
  BY <1>3
<1>5. Gone(o) \in Nat
  BY <1>1, <1>3, <1>4 DEF Gone
<1> QED
  BY <1>2, <1>3, <1>4, <1>5

\* Past leaves a rest of the messages of a sound outbox.
LEMMA PastOfSound ==
  ASSUME NEW o, Sound(o), NEW a \in Nat
  PROVE  \E k \in 0 .. Len(o.msgs) :
           /\ Past(o.msgs, a) \in Seq(Numbered) /\ Len(Past(o.msgs, a)) = Len(o.msgs) - k
           /\ \A n \in 1 .. Len(o.msgs) - k : Past(o.msgs, a)[n] = o.msgs[k + n]
           /\ k > 0 => Gone(o) + k <= a
           /\ k < Len(o.msgs) => Gone(o) + k + 1 > a
<1>1. o.msgs \in Seq(Numbered) /\ Gone(o) \in Nat /\ Len(o.msgs) \in Nat
  BY SoundTypes
<1>2. \A n \in 1 .. Len(o.msgs) : o.msgs[n].seq = Gone(o) + n
  BY <1>1 DEF Sound
<1>3. PICK k \in 0 .. Len(o.msgs) : /\ Past(o.msgs, a) = SubSeq(o.msgs, k + 1, Len(o.msgs))
                                    /\ k > 0 => Gone(o) + k <= a
                                    /\ k < Len(o.msgs) => Gone(o) + k + 1 > a
  BY <1>1, <1>2, PastIs
<1>4. /\ SubSeq(o.msgs, k + 1, Len(o.msgs)) \in Seq(Numbered)
      /\ Len(SubSeq(o.msgs, k + 1, Len(o.msgs))) = Len(o.msgs) - k
      /\ \A n \in 1 .. Len(o.msgs) - k : SubSeq(o.msgs, k + 1, Len(o.msgs))[n] = o.msgs[k + n]
  BY <1>1, <1>3
<1> QED
  BY <1>3, <1>4

\* The elements of two sequences, one after the other.
LEMMA AppendedAre ==
  ASSUME NEW X, NEW s \in Seq(X), NEW t \in Seq(X)
  PROVE  /\ s \o t \in Seq(X) /\ Len(s \o t) = Len(s) + Len(t)
         /\ \A n \in 1 .. Len(s) : (s \o t)[n] = s[n]
         /\ \A n \in 1 .. Len(t) : (s \o t)[Len(s) + n] = t[n]
         /\ SubSeq(s \o t, 1, Len(s)) = s
OBVIOUS

\* The lineage an outbox has once it was written.
Lineage(o) == IF o.lin = Genesis THEN NextLineage ELSE o.lin

\* A flush changes version and lineage.
LEMMA FlushedIs ==
  ASSUME NEW o, Sound(o), Lineage(o) \in Lineages, NEW r, r = Flushed(o)
  PROVE  /\ r \in DocType /\ r.lin = Lineage(o) /\ r.ver = o.ver + 1 /\ r.msgs = o.msgs
         /\ r.next = o.next /\ r.ackSeq = o.ackSeq /\ r.ackLin = o.ackLin
<1> DEFINE lin == Lineage(o)
<1>1. o \in DocType /\ o.ver + 1 \in Nat /\ lin \in {Genesis} \cup Lineages
  BY SoundTypes DEF Sound
<1>2. r = [o EXCEPT !.ver = o.ver + 1, !.lin = lin]
  BY DEF Flushed, Lineage
<1> HIDE DEF lin
<1>3. /\ r \in DocType /\ r.lin = lin /\ r.ver = o.ver + 1 /\ r.msgs = o.msgs
      /\ r.next = o.next /\ r.ackSeq = o.ackSeq /\ r.ackLin = o.ackLin
  BY <1>1, <1>2 DEF DocType
<1> QED
  BY <1>3 DEF lin

\* The numbers after those of an outbox.
LEMMA NextNumbers ==
  ASSUME NEW o, o.next \in Nat, Len(o.msgs) \in Nat
  PROVE  \A n \in Nat : o.next + n - 1 = Gone(o) + Len(o.msgs) + n
BY DEF Gone

\* Messages of consecutive numbers, written after those of an outbox.
LEMMA ExtendedSound ==
  ASSUME NEW o, Sound(o), NEW new \in Seq(Numbered), \A n \in 1 .. Len(new) : new[n].seq = o.next + n - 1,
         NEW r \in DocType, r.msgs = o.msgs \o new, r.next = o.next + Len(new), r.lin # Genesis,
         r.ackSeq = o.ackSeq, r.ackLin = o.ackLin
  PROVE  /\ Sound(r) /\ Gone(r) = Gone(o) /\ Len(r.msgs) = Len(o.msgs) + Len(new)
         /\ \A n \in 1 .. Len(o.msgs) : r.msgs[n] = o.msgs[n]
         /\ \A n \in 1 .. Len(new) : r.msgs[Len(o.msgs) + n] = new[n]
<1>1. o.msgs \in Seq(Numbered) /\ o.next \in Nat /\ Len(o.msgs) \in Nat /\ Gone(o) \in Nat /\ Len(new) \in Nat
  BY SoundTypes
<1>2. /\ Len(r.msgs) = Len(o.msgs) + Len(new)
      /\ \A n \in 1 .. Len(o.msgs) : r.msgs[n] = o.msgs[n]
      /\ \A n \in 1 .. Len(new) : r.msgs[Len(o.msgs) + n] = new[n]
  BY <1>1, AppendedAre
<1>3. Gone(r) = Gone(o)
  BY <1>1, <1>2 DEF Gone
<1>4. \A n \in 1 .. Len(o.msgs) : r.msgs[n].seq = Gone(o) + n
  BY <1>2 DEF Sound
<1>5. o.next \in Nat /\ Len(o.msgs) \in Nat
  BY <1>1
<1>6. \A n \in Nat : o.next + n - 1 = Gone(o) + Len(o.msgs) + n
  BY <1>5, NextNumbers, Zenon
<1>7. \A n \in 1 .. Len(new) : r.msgs[Len(o.msgs) + n].seq = Gone(o) + Len(o.msgs) + n
  BY <1>1, <1>2, <1>6
<1>8. \A n \in DOMAIN r.msgs : r.msgs[n].seq = Gone(r) + n
  <2> SUFFICES ASSUME NEW n \in DOMAIN r.msgs PROVE r.msgs[n].seq = Gone(o) + n
    BY <1>3
  <2>1. n \in 1 .. Len(o.msgs) + Len(new)
    <3>1. r.msgs \in Seq(Numbered)
      BY DEF DocType, Numbered
    <3> QED
      BY <1>2, <3>1
  <2>2. CASE n <= Len(o.msgs)
    <3>1. n \in 1 .. Len(o.msgs)
      BY <2>1, <2>2, <1>1
    <3> QED
      BY <3>1, <1>4
  <2>3. CASE n > Len(o.msgs)
    <3>1. n - Len(o.msgs) \in 1 .. Len(new) /\ Len(o.msgs) + (n - Len(o.msgs)) = n
      BY <2>1, <2>3, <1>1
    <3>2. r.msgs[n].seq = Gone(o) + Len(o.msgs) + (n - Len(o.msgs))
      BY <3>1, <1>7
    <3>3. Gone(o) + Len(o.msgs) + (n - Len(o.msgs)) = Gone(o) + n
      BY <1>1, <2>1
    <3> QED
      BY <3>2, <3>3
  <2> QED
    BY <2>1, <2>2, <2>3, <1>1
<1>9. Sound(r)
  BY <1>1, <1>3, <1>8 DEF Sound
<1> QED
  BY <1>2, <1>3, <1>9

\* Written messages follow those the outbox has.
LEMMA WrittenIs ==
  ASSUME NEW o, Sound(o), NEW ms \in Seq(Message), Lineage(o) \in Lineages, NEW r, r = AllWritten(o, ms)
  PROVE  /\ Sound(r) /\ r.next = o.next + Len(ms) /\ Gone(r) = Gone(o)
         /\ r.ackSeq = o.ackSeq /\ r.ackLin = o.ackLin
         /\ r.lin = IF ms = <<>> THEN o.lin ELSE Lineage(o)
         /\ Len(r.msgs) = Len(o.msgs) + Len(ms)
         /\ \A n \in 1 .. Len(o.msgs) : r.msgs[n] = o.msgs[n]
         /\ \A n \in 1 .. Len(ms) : r.msgs[Len(o.msgs) + n].id = ms[n]
<1>0. o.msgs \in Seq(Numbered) /\ o.next \in Nat \ {0} /\ o.ver \in Nat /\ Len(o.msgs) \in Nat /\ Len(ms) \in Nat
  BY SoundTypes
<1>1. CASE ms = <<>>
  <2>1. r = o /\ Len(ms) = 0
    BY <1>1 DEF AllWritten
  <2> QED
    BY <2>1, <1>0, <1>1
<1>2. CASE ms # <<>>
  <2> DEFINE written == [n \in DOMAIN ms |-> [seq |-> o.next + n - 1, id |-> ms[n]]]
             f == Flushed(o)
  <2>1. written \in Seq(Numbered) /\ Len(written) = Len(ms)
        /\ \A n \in 1 .. Len(ms) : written[n].id = ms[n] /\ written[n].seq = o.next + n - 1
    <3>1. DOMAIN ms = 1 .. Len(ms) /\ \A n \in 1 .. Len(ms) : ms[n] \in Message
      OBVIOUS
    <3>2. \A n \in 1 .. Len(ms) : [seq |-> o.next + n - 1, id |-> ms[n]] \in Numbered
      BY <3>1, <1>0 DEF Numbered
    <3> QED
      BY <3>1, <3>2, <1>0
  <2> HIDE DEF written
  <2>2. /\ f \in DocType /\ f.lin = Lineage(o) /\ f.msgs = o.msgs
        /\ f.next = o.next /\ f.ackSeq = o.ackSeq /\ f.ackLin = o.ackLin
    BY FlushedIs
  <2>3. r = [f EXCEPT !.ver = o.ver + Len(ms), !.msgs = f.msgs \o written, !.next = f.next + Len(ms)]
    BY <1>2 DEF AllWritten, written
  <2> HIDE DEF f
  <2>4. o.msgs \o written \in Seq(Numbered) /\ o.ver + Len(ms) \in Nat /\ o.next + Len(ms) \in Nat \ {0}
    BY <2>1, <1>0, AppendedAre
  <2>5. /\ r \in DocType /\ r.lin = f.lin /\ r.msgs = f.msgs \o written /\ r.next = f.next + Len(ms)
        /\ r.ackSeq = f.ackSeq /\ r.ackLin = f.ackLin
    BY <2>2, <2>3, <2>4 DEF DocType, Numbered
  <2>6. Lineage(o) # Genesis
    BY DEF Lineages, Genesis
  <2>7. /\ Sound(r) /\ Gone(r) = Gone(o) /\ Len(r.msgs) = Len(o.msgs) + Len(written)
        /\ \A n \in 1 .. Len(o.msgs) : r.msgs[n] = o.msgs[n]
        /\ \A n \in 1 .. Len(written) : r.msgs[Len(o.msgs) + n] = written[n]
    <3>1. r.msgs = o.msgs \o written /\ r.next = o.next + Len(written) /\ r.lin # Genesis
          /\ r.ackSeq = o.ackSeq /\ r.ackLin = o.ackLin
      BY <2>1, <2>2, <2>5, <2>6
    <3>2. \A n \in 1 .. Len(written) : written[n].seq = o.next + n - 1
      BY <2>1
    <3>3. written \in Seq(Numbered) /\ r \in DocType
      BY <2>1, <2>5
    <3> QED
      BY <3>1, <3>2, <3>3, ExtendedSound, Zenon
  <2> QED
    BY <1>2, <2>1, <2>2, <2>5, <2>7
<1> QED
  BY <1>1, <1>2

\* Of the messages of o, r lacks those of the front that i acknowledges, or fewer.
Sheds(o, r, i) ==
  \E k \in 0 .. Len(o.msgs) :
    /\ Len(r.msgs) = Len(o.msgs) - k /\ \A n \in 1 .. Len(o.msgs) - k : r.msgs[n] = o.msgs[k + n]
    /\ k > 0 => o.lin # Genesis /\ i.ackLin = o.lin /\ Gone(o) + k <= i.ackSeq

\* Pruning takes messages off the front, as many as an acknowledgement of this lineage allows.
LEMMA PrunedIs ==
  ASSUME NEW o, Sound(o), NEW i, i.ackSeq \in Nat, Lineage(o) \in Lineages, NEW r, r = Pruned(o, i)
  PROVE  /\ Sound(r) /\ r.next = o.next /\ r.lin = o.lin /\ r.ackSeq = o.ackSeq /\ r.ackLin = o.ackLin
         /\ Sheds(o, r, i)
<1> DEFINE left == Past(o.msgs, i.ackSeq)
<1>0. Len(o.msgs) \in Nat
  BY SoundTypes
<1>1. CASE ~(i.ackLin = o.lin /\ i.ackSeq > 0 /\ left # o.msgs)
  <2>1. r = o
    BY <1>1 DEF Pruned
  <2>2. 0 \in 0 .. Len(o.msgs) /\ Len(r.msgs) = Len(o.msgs) - 0 /\ \A n \in 1 .. Len(o.msgs) - 0 : r.msgs[n] = o.msgs[0 + n]
    BY <1>0, <2>1
  <2>3. Sheds(o, r, i)
    <3> USE DEF Sheds
    <3> WITNESS 0 \in 0 .. Len(o.msgs)
    <3> QED
      BY <2>2
  <2> QED
    BY <2>1, <2>3
<1>2. CASE i.ackLin = o.lin /\ i.ackSeq > 0 /\ left # o.msgs
  <2> DEFINE f == Flushed(o)
  <2>1. /\ f \in DocType /\ f.lin = Lineage(o) /\ f.msgs = o.msgs
        /\ f.next = o.next /\ f.ackSeq = o.ackSeq /\ f.ackLin = o.ackLin
    BY FlushedIs
  <2>2. r = [f EXCEPT !.msgs = left]
    BY <1>2 DEF Pruned
  <2>3. PICK k \in 0 .. Len(o.msgs) :
           /\ left \in Seq(Numbered) /\ Len(left) = Len(o.msgs) - k
           /\ \A n \in 1 .. Len(o.msgs) - k : left[n] = o.msgs[k + n]
           /\ k > 0 => Gone(o) + k <= i.ackSeq
    BY PastOfSound
  <2> HIDE DEF left, f
  <2>4. /\ r \in DocType /\ r.lin = f.lin /\ r.msgs = left /\ r.next = f.next
        /\ r.ackSeq = f.ackSeq /\ r.ackLin = f.ackLin
    BY <2>1, <2>2, <2>3 DEF DocType, Numbered
  <2>5. o.lin # Genesis
    <3>1. SUFFICES ASSUME o.lin = Genesis PROVE FALSE
      OBVIOUS
    <3>2. o.msgs = <<>> /\ left \in Seq(Numbered) /\ Len(left) = 0
      BY <3>1, <2>3 DEF Sound
    <3>3. left = <<>>
      BY <3>2
    <3> QED
      BY <3>2, <3>3, <1>2
  <2>6. r.lin = o.lin
    BY <2>1, <2>4, <2>5 DEF Lineage
  <2>7. Gone(r) = Gone(o) + k
    BY <2>1, <2>3, <2>4, SoundTypes DEF Gone
  <2>8. \A n \in DOMAIN r.msgs : r.msgs[n].seq = Gone(r) + n
    <3> SUFFICES ASSUME NEW n \in DOMAIN r.msgs PROVE r.msgs[n].seq = Gone(r) + n
      OBVIOUS
    <3>1. n \in 1 .. Len(o.msgs) - k /\ k + n \in 1 .. Len(o.msgs)
      BY <2>3, <2>4, <1>0
    <3>2. o.msgs[k + n].seq = Gone(o) + (k + n)
      BY <3>1, SoundTypes DEF Sound
    <3>3. Gone(o) + (k + n) = Gone(o) + k + n
      BY <3>1, SoundTypes
    <3> QED
      BY <3>1, <3>2, <3>3, <2>3, <2>4, <2>7
  <2>9. Sound(r)
    <3>1. Gone(o) \in Nat /\ Gone(r) >= 0
      BY <2>7, SoundTypes
    <3>2. r.ackLin = Genesis => r.ackSeq = 0
      BY <2>1, <2>4 DEF Sound
    <3> QED
      BY <3>1, <3>2, <2>4, <2>5, <2>6, <2>8 DEF Sound
  <2>10. Sheds(o, r, i)
    BY <1>2, <2>3, <2>4, <2>5 DEF Sheds
  <2> QED
    BY <2>1, <2>4, <2>6, <2>9, <2>10
<1> QED
  BY <1>1, <1>2

\* An acknowledgement changes nothing else but the lineage of an outbox never written.
LEMMA AckedIs ==
  ASSUME NEW o, Sound(o), Lineage(o) \in Lineages, NEW seq \in Nat, NEW lin \in Lineages, NEW r, r = Acked(o, seq, lin)
  PROVE  /\ Sound(r) /\ r.next = o.next /\ r.lin = Lineage(o) /\ r.msgs = o.msgs /\ r.ackSeq = seq /\ r.ackLin = lin
         /\ Gone(r) = Gone(o)
<1> DEFINE f == Flushed(o)
<1>1. /\ f \in DocType /\ f.lin = Lineage(o) /\ f.msgs = o.msgs /\ f.next = o.next
  BY FlushedIs
<1>2. r = [f EXCEPT !.ackSeq = seq, !.ackLin = lin]
  BY DEF Acked
<1> HIDE DEF f
<1>3. /\ r \in DocType /\ r.lin = f.lin /\ r.msgs = f.msgs /\ r.next = f.next /\ r.ackSeq = seq /\ r.ackLin = lin
  BY <1>1, <1>2 DEF DocType
<1>4. Lineage(o) # Genesis /\ lin # Genesis
  BY DEF Lineages, Genesis
<1>5. Gone(r) = Gone(o)
  BY <1>1, <1>3 DEF Gone
<1>6. Sound(r)
  BY <1>1, <1>3, <1>4, <1>5 DEF Sound
<1> QED
  BY <1>1, <1>3, <1>5, <1>6

\* An answer acknowledges what is fresh and prunes.
LEMMA AnsweredIs ==
  ASSUME NEW o, Sound(o), NEW i, Sound(i), Lineage(o) \in Lineages, NEW fresh, NEW last \in Nat,
         fresh # <<>> => i.lin # Genesis,
         NEW r, r = Answered(o, i, fresh, last)
  PROVE  /\ Sound(r) /\ r.next = o.next /\ r.lin = IF fresh = <<>> THEN o.lin ELSE Lineage(o)
         /\ r.ackSeq = IF fresh = <<>> THEN o.ackSeq ELSE last
         /\ r.ackLin = IF fresh = <<>> THEN o.ackLin ELSE i.lin
         /\ Sheds(o, r, i)
<1> DEFINE a == IF fresh = <<>> THEN o ELSE Acked(o, last, i.lin)
<1>1. r = Pruned(a, i)
  BY DEF Answered
<1>2. /\ Sound(a) /\ a.next = o.next /\ a.lin = (IF fresh = <<>> THEN o.lin ELSE Lineage(o)) /\ a.msgs = o.msgs
      /\ a.ackSeq = (IF fresh = <<>> THEN o.ackSeq ELSE last)
      /\ a.ackLin = (IF fresh = <<>> THEN o.ackLin ELSE i.lin) /\ Gone(a) = Gone(o)
  <2>1. CASE fresh = <<>>
    BY <2>1
  <2>2. CASE fresh # <<>>
    <3>1. i.lin \in Lineages
      BY <2>2, SoundTypes
    <3>2. a = Acked(o, last, i.lin)
      BY <2>2
    <3> HIDE DEF a
    <3> QED
      BY <2>2, <3>1, <3>2, AckedIs
  <2> QED
    BY <2>1, <2>2
<1> HIDE DEF a
<1>3. i.ackSeq \in Nat /\ Lineage(a) \in Lineages
  BY <1>2, SoundTypes DEF Lineage
<1>4. Sound(r) /\ r.next = a.next /\ r.lin = a.lin /\ r.ackSeq = a.ackSeq /\ r.ackLin = a.ackLin /\ Sheds(a, r, i)
  BY <1>1, <1>2, <1>3, PrunedIs
<1>5. PICK k \in 0 .. Len(o.msgs) :
        /\ Len(r.msgs) = Len(o.msgs) - k /\ \A n \in 1 .. Len(o.msgs) - k : r.msgs[n] = o.msgs[k + n]
        /\ k > 0 => a.lin # Genesis /\ i.ackLin = a.lin /\ Gone(o) + k <= i.ackSeq
  BY <1>2, <1>4 DEF Sheds
<1>6. k > 0 => o.lin # Genesis
  <2>1. o.lin = Genesis => Len(o.msgs) = 0
    BY DEF Sound
  <2> QED
    BY <2>1
<1>7. k > 0 => a.lin = o.lin
  BY <1>2, <1>6 DEF Lineage
<1>8. Sheds(o, r, i)
  BY <1>5, <1>6, <1>7 DEF Sheds
<1> QED
  BY <1>2, <1>4, <1>8

-----------------------------------------------------------------------------
(* What a step makes of the streams. *)

\* A stream keeps its author and what was written to it, and no less of it was given.
Grown(aus, logs, highs, aus2, logs2, highs2) ==
  \A l \in Lineages :
    /\ aus[l] = "nobody" \/ aus2[l] = aus[l]
    /\ Len(logs[l]) <= Len(logs2[l]) /\ \A n \in 1 .. Len(logs[l]) : logs2[l][n] = logs[l][n]
    /\ highs[l] <= highs2[l]

\* A version of an outbox stays one as the streams grow.
LEMMA VersionGrows ==
  ASSUME NEW p \in Peer, NEW o, NEW aus, NEW logs, NEW highs, NEW aus2, NEW logs2, NEW highs2,
         StreamTypes(aus, logs, highs), StreamTypes(aus2, logs2, highs2),
         VersionIn(o, p, aus, logs, highs), Grown(aus, logs, highs, aus2, logs2, highs2)
  PROVE  VersionIn(o, p, aus2, logs2, highs2)
<1>1. Sound(o) /\ OutboxIn(o, p, aus, logs, highs) /\ AcksIn(o, p, aus, highs)
  BY DEF VersionIn
<1>2. p # "nobody" /\ Other(p) # "nobody"
  BY TwoPeers
<1>3. OutboxIn(o, p, aus2, logs2, highs2)
  <2> SUFFICES ASSUME o.lin # Genesis
               PROVE  /\ aus2[o.lin] = p /\ o.next - 1 <= Len(logs2[o.lin]) /\ Gone(o) <= highs2[o.lin]
                      /\ \A n \in DOMAIN o.msgs : o.msgs[n].id = logs2[o.lin][o.msgs[n].seq]
    BY DEF OutboxIn
  <2> DEFINE l == o.lin
  <2>1. l \in Lineages /\ Gone(o) \in Nat /\ o.next \in Nat /\ o.msgs \in Seq(Numbered) /\ Len(o.msgs) \in Nat
    BY <1>1, SoundTypes
  <2>2. /\ aus[l] = p /\ o.next - 1 <= Len(logs[l]) /\ Gone(o) <= highs[l]
        /\ \A n \in DOMAIN o.msgs : o.msgs[n].id = logs[l][o.msgs[n].seq]
    BY <1>1 DEF OutboxIn
  <2>3. /\ aus2[l] = aus[l]
        /\ Len(logs[l]) <= Len(logs2[l]) /\ \A n \in 1 .. Len(logs[l]) : logs2[l][n] = logs[l][n]
        /\ highs[l] <= highs2[l]
    BY <1>2, <2>1, <2>2 DEF Grown
  <2>4. Len(logs[l]) \in Nat /\ Len(logs2[l]) \in Nat /\ highs[l] \in Nat /\ highs2[l] \in Nat
    BY <2>1 DEF StreamTypes
  <2>5. \A n \in DOMAIN o.msgs : o.msgs[n].seq \in 1 .. Len(logs[l])
    <3>1. \A n \in 1 .. Len(o.msgs) : Gone(o) + n <= o.next - 1 /\ Gone(o) + n \in Nat \ {0}
      BY <2>1 DEF Gone
    <3>2. \A n \in 1 .. Len(o.msgs) : Gone(o) + n \in 1 .. Len(logs[l])
      <4>1. o.next - 1 <= Len(logs[l]) /\ o.next \in Int /\ Len(logs[l]) \in Int
        BY <2>1, <2>2, <2>4
      <4> QED
        BY <3>1, <4>1
    <3>3. DOMAIN o.msgs = 1 .. Len(o.msgs)
      BY <2>1
    <3> QED
      BY <3>2, <3>3, <1>1 DEF Sound
  <2>6. \A n \in DOMAIN o.msgs : o.msgs[n].id = logs2[l][o.msgs[n].seq]
    BY <2>2, <2>3, <2>5
  <2>7. o.next - 1 <= Len(logs2[l]) /\ Gone(o) <= highs2[l]
    <3>1. /\ o.next \in Int /\ Len(logs[l]) \in Int /\ Len(logs2[l]) \in Int
          /\ o.next - 1 <= Len(logs[l]) /\ Len(logs[l]) <= Len(logs2[l])
      BY <2>1, <2>2, <2>3, <2>4
    <3>2. /\ Gone(o) \in Int /\ highs[l] \in Int /\ highs2[l] \in Int
          /\ Gone(o) <= highs[l] /\ highs[l] <= highs2[l]
      BY <2>1, <2>2, <2>3, <2>4
    <3> QED
      BY <3>1, <3>2
  <2>8. aus2[l] = p
    BY <2>2, <2>3
  <2> QED
    BY <2>6, <2>7, <2>8
<1>4. AcksIn(o, p, aus2, highs2)
  <2> SUFFICES ASSUME o.ackLin # Genesis
               PROVE  aus2[o.ackLin] = Other(p) /\ o.ackSeq <= highs2[o.ackLin]
    BY DEF AcksIn
  <2>1. o.ackLin \in Lineages /\ o.ackSeq \in Nat
    BY <1>1, SoundTypes
  <2>2. aus[o.ackLin] = Other(p) /\ o.ackSeq <= highs[o.ackLin]
    BY <1>1 DEF AcksIn
  <2>3. highs[o.ackLin] \in Nat /\ highs2[o.ackLin] \in Nat /\ highs[o.ackLin] <= highs2[o.ackLin]
        /\ aus2[o.ackLin] = aus[o.ackLin]
    BY <1>2, <2>1, <2>2 DEF StreamTypes, Grown
  <2> QED
    BY <2>1, <2>2, <2>3
<1> QED
  BY <1>1, <1>3, <1>4 DEF VersionIn

\* The messages ms that are fresh in an inbox i, past number from, are numbers after .. last of its stream.
FreshIn(i, from, last, ms, after, logs) ==
  /\ i.lin \in Lineages /\ from < last /\ last = i.next - 1 /\ last <= Len(logs[i.lin])
  /\ after \in 0 .. last - 1 /\ (after = from \/ (after = Gone(i) /\ from <= after))
  /\ ms = SubSeq(logs[i.lin], after + 1, last)

LEMMA FreshIs ==
  ASSUME NEW q \in Peer, NEW aus, NEW logs, NEW highs, StreamTypes(aus, logs, highs),
         NEW i, VersionIn(i, q, aus, logs, highs), NEW from \in Nat,
         NEW fresh, fresh = Past(i.msgs, from), fresh # <<>>, NEW last, last = fresh[Len(fresh)].seq,
         NEW ms, ms = [n \in 1 .. Len(fresh) |-> fresh[n].id]
  PROVE  \E after \in Nat : FreshIn(i, from, last, ms, after, logs)
<1>1. Sound(i) /\ OutboxIn(i, q, aus, logs, highs)
  BY DEF VersionIn
<1>2. i.msgs \in Seq(Numbered) /\ i.next \in Nat /\ Gone(i) \in Nat /\ Len(i.msgs) \in Nat
  BY <1>1, SoundTypes
<1>3. PICK k \in 0 .. Len(i.msgs) :
        /\ fresh \in Seq(Numbered) /\ Len(fresh) = Len(i.msgs) - k
        /\ \A n \in 1 .. Len(i.msgs) - k : fresh[n] = i.msgs[k + n]
        /\ k > 0 => Gone(i) + k <= from
        /\ k < Len(i.msgs) => Gone(i) + k + 1 > from
  BY <1>1, PastOfSound
<1>4. Len(fresh) \in Nat \ {0} /\ k < Len(i.msgs) /\ Len(i.msgs) > 0
  <2>1. Len(fresh) # 0
    BY <1>3
  <2> QED
    BY <2>1, <1>2, <1>3
<1>5. i.lin # Genesis /\ i.lin \in Lineages
  <2>1. i.lin # Genesis
    BY <1>1, <1>4 DEF Sound
  <2> QED
    BY <2>1, <1>1, SoundTypes
<1>6. \A n \in 1 .. Len(fresh) : fresh[n].seq = Gone(i) + k + n /\ fresh[n].id = logs[i.lin][Gone(i) + k + n]
  <2> SUFFICES ASSUME NEW n \in 1 .. Len(fresh)
               PROVE  fresh[n].seq = Gone(i) + k + n /\ fresh[n].id = logs[i.lin][Gone(i) + k + n]
    OBVIOUS
  <2>1. k + n \in DOMAIN i.msgs /\ fresh[n] = i.msgs[k + n] /\ Gone(i) + (k + n) = Gone(i) + k + n
    <3>1. n \in 1 .. Len(i.msgs) - k
      BY <1>3
    <3>2. n \in Int /\ k \in Int /\ Gone(i) \in Int /\ Len(i.msgs) \in Int /\ k >= 0 /\ n >= 1 /\ n <= Len(i.msgs) - k
      BY <1>2, <3>1
    <3>3. k + n \in 1 .. Len(i.msgs) /\ Gone(i) + (k + n) = Gone(i) + k + n
      BY <3>2
    <3>4. DOMAIN i.msgs = 1 .. Len(i.msgs)
      BY <1>2
    <3> QED
      BY <1>3, <3>1, <3>3, <3>4
  <2>2. i.msgs[k + n].seq = Gone(i) + (k + n)
    BY <1>1, <2>1 DEF Sound
  <2>3. i.msgs[k + n].id = logs[i.lin][i.msgs[k + n].seq]
    BY <1>1, <1>5, <2>1 DEF OutboxIn
  <2> QED
    BY <2>1, <2>2, <2>3
<1> DEFINE after == Gone(i) + k
<1>7. /\ last = after + Len(fresh) /\ last = i.next - 1 /\ last - (after + 1) + 1 = Len(fresh)
      /\ after \in Nat /\ last \in Nat
  <2>1. Len(fresh) \in 1 .. Len(fresh)
    BY <1>4
  <2>2. last = Gone(i) + k + Len(fresh)
    BY <2>1, <1>6
  <2>3. Gone(i) = i.next - Len(i.msgs) - 1
    BY DEF Gone
  <2> QED
    <3> DEFINE rest == Len(fresh)
               len == Len(i.msgs)
               gone == Gone(i)
               next == i.next
    <3>1. rest = len - k /\ last = gone + k + rest /\ gone = next - len - 1 /\ k \in 0 .. len
      BY <1>3, <2>2, <2>3
    <3>2. next \in Nat /\ len \in Nat /\ gone \in Nat
      BY <1>2
    <3>3. after = gone + k
      OBVIOUS
    <3> HIDE DEF rest, len, gone, next, after
    <3>4. /\ last = after + rest /\ last = next - 1 /\ last - (after + 1) + 1 = rest
          /\ after \in Nat /\ last \in Nat
      BY <3>1, <3>2, <3>3
    <3> QED
      BY <3>4 DEF rest, next
<1>8. after \in 0 .. last - 1 /\ (after = from \/ (after = Gone(i) /\ from <= after)) /\ from < last
  <2>1. after + 1 > from /\ (k > 0 => after <= from)
    BY <1>3, <1>4
  <2>2. after \in Nat /\ last = after + Len(fresh)
    BY <1>7
  <2> HIDE DEF after
  <2>3. after \in 0 .. last - 1 /\ from < last
    BY <2>1, <2>2, <1>4
  <2>4. CASE k > 0
    BY <2>1, <2>2, <2>3, <2>4
  <2>5. CASE k = 0
    <3>1. after = Gone(i)
      BY <2>5, <1>2 DEF after
    <3> QED
      BY <3>1, <2>1, <2>2, <2>3
  <2> QED
    BY <2>4, <2>5, <1>3
<1>9. last <= Len(logs[i.lin])
  BY <1>1, <1>5, <1>7 DEF OutboxIn
<1>10. ms = SubSeq(logs[i.lin], after + 1, last)
  <2>1. logs[i.lin] \in Seq(Message) /\ after \in Nat /\ last \in Nat /\ Len(fresh) \in Nat /\ last - (after + 1) + 1 = Len(fresh)
    <3>1. logs[i.lin] \in Seq(Message) /\ Len(fresh) \in Nat
      BY <1>4, <1>5 DEF StreamTypes
    <3> QED
      BY <3>1, <1>7
  <2>2. \A n \in 1 .. Len(fresh) : fresh[n].id = logs[i.lin][after + n]
    BY <1>6
  <2> HIDE DEF after
  <2>3. SubSeq(logs[i.lin], after + 1, last) = [n \in 1 .. Len(fresh) |-> logs[i.lin][after + n]]
    BY <2>1, <1>9
  <2> QED
    BY <2>2, <2>3
<1>11. FreshIn(i, from, last, ms, after, logs)
  BY <1>5, <1>7, <1>8, <1>9, <1>10 DEF FreshIn
<1> QED
  BY <1>7, <1>11

\* Peer p writes ids to its stream l, and is given what the other's stream m has up to last.
Advances(p, l, ids, m, last, aus, logs, highs, aus2, logs2, highs2) ==
  /\ aus2 = IF l \in Lineages THEN [aus EXCEPT ![l] = p] ELSE aus
  /\ logs2 = IF ids # <<>> THEN [logs EXCEPT ![l] = @ \o ids] ELSE logs
  /\ highs2 = IF last > 0 /\ m \in Lineages THEN [highs EXCEPT ![m] = IF last > @ THEN last ELSE @] ELSE highs

\* What that comes to, stream by stream.
Advanced(p, l, ids, m, last, aus, logs, highs, aus2, logs2, highs2) ==
  /\ l \in Lineages => /\ aus2[l] = p /\ Len(logs2[l]) = Len(logs[l]) + Len(ids)
                       /\ \A n \in 1 .. Len(ids) : logs2[l][Len(logs[l]) + n] = ids[n]
                       /\ SubSeq(logs2[l], 1, Len(logs[l])) = logs[l]
  /\ \A x \in Lineages \ {l} : aus2[x] = aus[x] /\ logs2[x] = logs[x]
  /\ \A x \in Lineages \ {m} : highs2[x] = highs[x]
  /\ m \in Lineages => highs2[m] = IF last > highs[m] THEN last ELSE highs[m]
  /\ ids = <<>> => logs2 = logs

LEMMA StreamsAdvance ==
  ASSUME NEW p \in Peer, NEW l \in {Genesis} \cup Lineages, NEW ids \in Seq(Message), NEW m, NEW last \in Nat,
         NEW aus, NEW logs, NEW highs, NEW aus2, NEW logs2, NEW highs2,
         StreamTypes(aus, logs, highs), Bounds(aus, logs, highs),
         l \in Lineages => aus[l] \in {p, "nobody"},
         ids # <<>> => l \in Lineages,
         m \in Lineages => last <= Len(logs[m]) /\ aus[m] = Other(p),
         Advances(p, l, ids, m, last, aus, logs, highs, aus2, logs2, highs2)
  PROVE  /\ StreamTypes(aus2, logs2, highs2) /\ Bounds(aus2, logs2, highs2)
         /\ Grown(aus, logs, highs, aus2, logs2, highs2)
         /\ Advanced(p, l, ids, m, last, aus, logs, highs, aus2, logs2, highs2)
<1>1. /\ aus \in [Lineages -> Peer \cup {"nobody"}] /\ logs \in [Lineages -> Seq(Message)] /\ highs \in [Lineages -> Nat]
  BY DEF StreamTypes
<1>2. /\ aus2 = (IF l \in Lineages THEN [aus EXCEPT ![l] = p] ELSE aus)
      /\ logs2 = (IF ids # <<>> THEN [logs EXCEPT ![l] = logs[l] \o ids] ELSE logs)
      /\ highs2 = (IF last > 0 /\ m \in Lineages
                   THEN [highs EXCEPT ![m] = IF last > highs[m] THEN last ELSE highs[m]] ELSE highs)
  BY DEF Advances
<1>3. aus2 \in [Lineages -> Peer \cup {"nobody"}] /\ (l \in Lineages => aus2[l] = p)
      /\ \A x \in Lineages \ {l} : aus2[x] = aus[x]
  BY <1>1, <1>2
<1>4. /\ logs2 \in [Lineages -> Seq(Message)] /\ \A x \in Lineages \ {l} : logs2[x] = logs[x]
      /\ l \in Lineages => logs2[l] = logs[l] \o ids
  <2>1. CASE ids = <<>>
    <3>1. logs2 = logs
      BY <1>2, <2>1
    <3>2. l \in Lineages => logs[l] \o ids = logs[l]
      BY <1>1, <2>1
    <3> QED
      BY <3>1, <3>2, <1>1
  <2>2. CASE ids # <<>>
    <3>1. l \in Lineages /\ logs[l] \o ids \in Seq(Message)
      BY <1>1, <2>2, AppendedAre
    <3>2. logs2 = [logs EXCEPT ![l] = logs[l] \o ids]
      BY <1>2, <2>2
    <3> DEFINE s == logs[l] \o ids
    <3> HIDE DEF s
    <3>3. logs2 = [logs EXCEPT ![l] = s] /\ s \in Seq(Message)
      BY <3>1, <3>2 DEF s
    <3>4. /\ logs2 \in [Lineages -> Seq(Message)] /\ \A x \in Lineages \ {l} : logs2[x] = logs[x]
          /\ logs2[l] = s
      BY <1>1, <3>1, <3>3
    <3> QED
      BY <3>4 DEF s
  <2> QED
    BY <2>1, <2>2
<1>5. /\ highs2 \in [Lineages -> Nat] /\ \A x \in Lineages \ {m} : highs2[x] = highs[x]
      /\ m \in Lineages => highs2[m] = IF last > highs[m] THEN last ELSE highs[m]
  <2>1. CASE last > 0 /\ m \in Lineages
    <3> DEFINE h == IF last > highs[m] THEN last ELSE highs[m]
    <3>1. h \in Nat /\ highs2 = [highs EXCEPT ![m] = h]
      BY <1>1, <1>2, <2>1
    <3> HIDE DEF h
    <3>2. highs2 \in [Lineages -> Nat] /\ highs2[m] = h /\ \A x \in Lineages \ {m} : highs2[x] = highs[x]
      BY <3>1, <1>1, <2>1
    <3> QED
      BY <3>2 DEF h
  <2>2. CASE ~(last > 0 /\ m \in Lineages)
    <3>1. highs2 = highs
      BY <1>2, <2>2
    <3>2. m \in Lineages => last = 0 /\ highs[m] \in Nat
      BY <1>1, <2>2
    <3> QED
      BY <3>1, <3>2, <1>1
  <2> QED
    BY <2>1, <2>2
<1>6. l \in Lineages => /\ Len(logs2[l]) = Len(logs[l]) + Len(ids)
                        /\ \A n \in 1 .. Len(logs[l]) : logs2[l][n] = logs[l][n]
                        /\ \A n \in 1 .. Len(ids) : logs2[l][Len(logs[l]) + n] = ids[n]
                        /\ SubSeq(logs2[l], 1, Len(logs[l])) = logs[l]
  <2> SUFFICES ASSUME l \in Lineages
               PROVE  /\ Len(logs2[l]) = Len(logs[l]) + Len(ids)
                      /\ \A n \in 1 .. Len(logs[l]) : logs2[l][n] = logs[l][n]
                      /\ \A n \in 1 .. Len(ids) : logs2[l][Len(logs[l]) + n] = ids[n]
                      /\ SubSeq(logs2[l], 1, Len(logs[l])) = logs[l]
    OBVIOUS
  <2>1. logs[l] \in Seq(Message) /\ logs2[l] = logs[l] \o ids
    BY <1>1, <1>4
  <2>2. /\ Len(logs[l] \o ids) = Len(logs[l]) + Len(ids)
        /\ \A n \in 1 .. Len(logs[l]) : (logs[l] \o ids)[n] = logs[l][n]
        /\ \A n \in 1 .. Len(ids) : (logs[l] \o ids)[Len(logs[l]) + n] = ids[n]
        /\ SubSeq(logs[l] \o ids, 1, Len(logs[l])) = logs[l]
    BY <2>1, AppendedAre
  <2> QED
    BY <2>1, <2>2, Zenon
<1>7. Advanced(p, l, ids, m, last, aus, logs, highs, aus2, logs2, highs2)
  BY <1>2, <1>3, <1>4, <1>5, <1>6 DEF Advanced
<1>8. StreamTypes(aus2, logs2, highs2)
  BY <1>3, <1>4, <1>5 DEF StreamTypes
<1>9. Grown(aus, logs, highs, aus2, logs2, highs2)
  <2> SUFFICES ASSUME NEW x \in Lineages
               PROVE  /\ aus[x] = "nobody" \/ aus2[x] = aus[x]
                      /\ Len(logs[x]) <= Len(logs2[x]) /\ \A n \in 1 .. Len(logs[x]) : logs2[x][n] = logs[x][n]
                      /\ highs[x] <= highs2[x]
    BY DEF Grown
  <2>1. aus[x] = "nobody" \/ aus2[x] = aus[x]
    BY <1>3
  <2>2. Len(logs[x]) \in Nat /\ Len(ids) \in Nat
    BY <1>1
  <2>3. Len(logs[x]) <= Len(logs2[x]) /\ \A n \in 1 .. Len(logs[x]) : logs2[x][n] = logs[x][n]
    BY <1>4, <1>6, <2>2
  <2>4. highs[x] <= highs2[x]
    <3>1. highs[x] \in Nat
      BY <1>1
    <3>2. CASE x = m
      BY <3>1, <3>2, <1>5
    <3>3. CASE x # m
      BY <3>1, <3>3, <1>5
    <3> QED
      BY <3>2, <3>3
  <2> QED
    BY <2>1, <2>3, <2>4
<1>10. Bounds(aus2, logs2, highs2)
  <2> SUFFICES ASSUME NEW x \in Lineages
               PROVE  highs2[x] <= Len(logs2[x]) /\ (aus2[x] = "nobody" => logs2[x] = <<>> /\ highs2[x] = 0)
    BY DEF Bounds
  <2>1. highs[x] <= Len(logs[x]) /\ (aus[x] = "nobody" => logs[x] = <<>> /\ highs[x] = 0)
    BY DEF Bounds
  <2>2. highs[x] \in Nat /\ highs2[x] \in Nat /\ Len(logs[x]) \in Nat /\ Len(logs2[x]) \in Nat /\ Len(logs[x]) <= Len(logs2[x])
    BY <1>1, <1>4, <1>5, <1>9 DEF Grown
  <2>3. highs2[x] <= Len(logs2[x])
    BY <1>5, <2>1, <2>2
  <2>4. aus2[x] = "nobody" => x # l /\ aus[x] = "nobody" /\ x # m
    BY <1>3, TwoPeers
  <2> QED
    BY <1>4, <1>5, <2>1, <2>3, <2>4
<1> QED
  BY <1>7, <1>8, <1>9, <1>10

\* The messages of r: those of o and then ids, without k of the front that i acknowledges.
Became(r, o, ids, i) ==
  \E k \in 0 .. Len(o.msgs) + Len(ids) :
    /\ Len(r.msgs) = Len(o.msgs) + Len(ids) - k /\ Gone(r) = Gone(o) + k
    /\ \A n \in 1 .. Len(r.msgs) :
         /\ k + n <= Len(o.msgs) => r.msgs[n] = o.msgs[k + n]
         /\ ~(k + n <= Len(o.msgs)) => r.msgs[n].id = ids[k + n - Len(o.msgs)]
    /\ k > 0 => r.lin # Genesis /\ i.ackLin = r.lin /\ Gone(r) <= i.ackSeq

\* What a step makes of the outbox o of a Line.
LEMMA OutboxBecomes ==
  ASSUME NEW o, Sound(o), NEW i, Sound(i), Lineage(o) \in Lineages, NEW ids \in Seq(Message),
         NEW fresh, NEW last \in Nat, fresh # <<>> => i.lin # Genesis,
         NEW r, r = Answered(AllWritten(o, ids), i, fresh, last)
  PROVE  /\ Sound(r) /\ r.next = o.next + Len(ids)
         /\ r.lin = IF ids = <<>> /\ fresh = <<>> THEN o.lin ELSE Lineage(o)
         /\ r.ackSeq = IF fresh = <<>> THEN o.ackSeq ELSE last
         /\ r.ackLin = IF fresh = <<>> THEN o.ackLin ELSE i.lin
         /\ Became(r, o, ids, i)
<1> DEFINE w == AllWritten(o, ids)
<1>1. /\ Sound(w) /\ w.next = o.next + Len(ids) /\ Gone(w) = Gone(o)
      /\ w.ackSeq = o.ackSeq /\ w.ackLin = o.ackLin
      /\ w.lin = IF ids = <<>> THEN o.lin ELSE Lineage(o)
      /\ Len(w.msgs) = Len(o.msgs) + Len(ids)
      /\ \A n \in 1 .. Len(o.msgs) : w.msgs[n] = o.msgs[n]
      /\ \A n \in 1 .. Len(ids) : w.msgs[Len(o.msgs) + n].id = ids[n]
  BY WrittenIs
<1> HIDE DEF w
<1>2. Lineage(w) = Lineage(o)
  BY <1>1 DEF Lineage, Lineages, Genesis
<1>3. r = Answered(w, i, fresh, last)
  BY DEF w
<1>4. /\ Sound(r) /\ r.next = w.next /\ r.lin = (IF fresh = <<>> THEN w.lin ELSE Lineage(w))
      /\ r.ackSeq = (IF fresh = <<>> THEN w.ackSeq ELSE last)
      /\ r.ackLin = (IF fresh = <<>> THEN w.ackLin ELSE i.lin) /\ Sheds(w, r, i)
  <2>1. Sound(w) /\ Lineage(w) \in Lineages
    BY <1>1, <1>2
  <2> QED
    BY <1>3, <2>1, AnsweredIs
<1>5. Became(r, o, ids, i)
  <2>1. PICK k \in 0 .. Len(w.msgs) :
          /\ Len(r.msgs) = Len(w.msgs) - k /\ \A n \in 1 .. Len(w.msgs) - k : r.msgs[n] = w.msgs[k + n]
          /\ k > 0 => w.lin # Genesis /\ i.ackLin = w.lin /\ Gone(w) + k <= i.ackSeq
    BY <1>4 DEF Sheds
  <2>2. Len(o.msgs) \in Nat /\ Len(ids) \in Nat /\ o.next \in Nat /\ w.next \in Nat /\ Gone(o) \in Nat
        /\ Len(w.msgs) = Len(o.msgs) + Len(ids) /\ k \in 0 .. Len(o.msgs) + Len(ids)
    BY <1>1, <2>1, SoundTypes
  <2>3. Len(r.msgs) = Len(o.msgs) + Len(ids) - k
    BY <1>1, <2>1
  <2>4. Gone(r) = Gone(o) + k
    <3>1. Gone(r) = r.next - Len(r.msgs) - 1 /\ Gone(w) = w.next - Len(w.msgs) - 1
      BY DEF Gone
    <3>2. r.next = w.next /\ Len(r.msgs) = Len(w.msgs) - k /\ Gone(w) = Gone(o)
      BY <1>1, <1>4, <2>1
    <3> QED
      BY <3>1, <3>2, <2>2
  <2>5. \A n \in 1 .. Len(r.msgs) :
          /\ k + n <= Len(o.msgs) => r.msgs[n] = o.msgs[k + n]
          /\ ~(k + n <= Len(o.msgs)) => r.msgs[n].id = ids[k + n - Len(o.msgs)]
    <3> SUFFICES ASSUME NEW n \in 1 .. Len(r.msgs)
                 PROVE  /\ k + n <= Len(o.msgs) => r.msgs[n] = o.msgs[k + n]
                        /\ ~(k + n <= Len(o.msgs)) => r.msgs[n].id = ids[k + n - Len(o.msgs)]
      OBVIOUS
    <3>1. n \in 1 .. Len(w.msgs) - k /\ r.msgs[n] = w.msgs[k + n]
      BY <2>1
    <3>2. CASE k + n <= Len(o.msgs)
      <4>1. k + n \in 1 .. Len(o.msgs)
        BY <3>2, <2>2, <3>1
      <4> QED
        BY <3>1, <3>2, <4>1, <1>1
    <3>3. CASE ~(k + n <= Len(o.msgs))
      <4>1. k + n - Len(o.msgs) \in 1 .. Len(ids) /\ Len(o.msgs) + (k + n - Len(o.msgs)) = k + n
        <5> DEFINE a == Len(o.msgs)
                   b == Len(ids)
                   c == Len(w.msgs)
        <5>1. a \in Nat /\ b \in Nat /\ c = a + b /\ k \in 0 .. a + b /\ n \in 1 .. c - k /\ ~(k + n <= a)
          BY <3>1, <3>3, <2>2
        <5> HIDE DEF a, b, c
        <5>2. k + n - a \in 1 .. b /\ a + (k + n - a) = k + n
          BY <5>1
        <5> QED
          BY <5>2 DEF a, b
      <4>2. w.msgs[Len(o.msgs) + (k + n - Len(o.msgs))].id = ids[k + n - Len(o.msgs)]
        BY <4>1, <1>1
      <4> QED
        BY <3>1, <3>3, <4>1, <4>2
    <3> QED
      BY <3>2, <3>3
  <2>6. k > 0 => r.lin # Genesis /\ i.ackLin = r.lin /\ Gone(r) <= i.ackSeq
    <3>1. k > 0 => w.lin # Genesis /\ i.ackLin = w.lin /\ Gone(w) + k <= i.ackSeq
      BY <2>1
    <3>2. w.lin # Genesis => r.lin = w.lin
      BY <1>4 DEF Lineage
    <3> QED
      BY <3>1, <3>2, <2>4, <1>1
  <2> QED
    BY <2>2, <2>3, <2>4, <2>5, <2>6 DEF Became
<1>6. r.lin = IF ids = <<>> /\ fresh = <<>> THEN o.lin ELSE Lineage(o)
  BY <1>1, <1>2, <1>4
<1> QED
  BY <1>1, <1>4, <1>5, <1>6

\* The outbox after a step is a version of it, in the streams after the step.
LEMMA OutboxAdvances ==
  ASSUME NEW p \in Peer, NEW aus, NEW logs, NEW highs, NEW aus2, NEW logs2, NEW highs2,
         StreamTypes(aus, logs, highs), StreamTypes(aus2, logs2, highs2), Grown(aus, logs, highs, aus2, logs2, highs2),
         NEW o, VersionIn(o, p, aus, logs, highs), o.lin # Genesis => Len(logs[o.lin]) = o.next - 1,
         Lineage(o) \in Lineages, o.lin = Genesis => logs[Lineage(o)] = <<>> /\ aus[Lineage(o)] = "nobody",
         NEW ids \in Seq(Message), NEW i, VersionIn(i, Other(p), aus, logs, highs),
         NEW fresh, NEW last \in Nat, fresh # <<>> => i.lin # Genesis,
         NEW r, r = Answered(AllWritten(o, ids), i, fresh, last),
         Advanced(p, r.lin, ids, i.lin, last, aus, logs, highs, aus2, logs2, highs2)
  PROVE  VersionIn(r, p, aus2, logs2, highs2) /\ (r.lin # Genesis => Len(logs2[r.lin]) = r.next - 1)
<1>1. Sound(o) /\ Sound(i)
  BY DEF VersionIn
<1>2. /\ Sound(r) /\ r.next = o.next + Len(ids)
      /\ r.lin = (IF ids = <<>> /\ fresh = <<>> THEN o.lin ELSE Lineage(o))
      /\ r.ackSeq = (IF fresh = <<>> THEN o.ackSeq ELSE last)
      /\ r.ackLin = (IF fresh = <<>> THEN o.ackLin ELSE i.lin)
      /\ Became(r, o, ids, i)
  BY <1>1, OutboxBecomes
<1> DEFINE l == r.lin
<1>3. o.next \in Nat \ {0} /\ Len(o.msgs) \in Nat /\ Len(ids) \in Nat /\ Gone(o) \in Nat /\ Len(r.msgs) \in Nat /\ Gone(r) \in Nat
      /\ r.msgs \in Seq(Numbered) /\ o.msgs \in Seq(Numbered) /\ l \in {Genesis} \cup Lineages
  <2>1. /\ o.next \in Nat \ {0} /\ Len(o.msgs) \in Nat /\ Gone(o) \in Nat /\ o.msgs \in Seq(Numbered)
    BY <1>1, SoundTypes
  <2>2. /\ Len(r.msgs) \in Nat /\ Gone(r) \in Nat /\ r.msgs \in Seq(Numbered) /\ l \in {Genesis} \cup Lineages
    BY <1>2, SoundTypes
  <2>3. Len(ids) \in Nat
    OBVIOUS
  <2> QED
    BY <2>1, <2>2, <2>3
<1>4. l # Genesis => Len(logs[l]) = o.next - 1 /\ aus2[l] = p /\ (l = o.lin \/ o.lin = Genesis)
  <2> SUFFICES ASSUME l # Genesis PROVE Len(logs[l]) = o.next - 1 /\ aus2[l] = p /\ (l = o.lin \/ o.lin = Genesis)
    OBVIOUS
  <2>1. aus2[l] = p
    BY <1>3 DEF Advanced
  <2>2. CASE o.lin = Genesis
    <3>1. l = Lineage(o) /\ logs[l] = <<>> /\ o.next = 1
      BY <1>1, <1>2, <2>2 DEF Sound
    <3> QED
      BY <2>1, <2>2, <3>1
  <2>3. CASE o.lin # Genesis
    BY <1>2, <2>1, <2>3 DEF Lineage
  <2> QED
    BY <2>2, <2>3
<1>5. l # Genesis => Len(logs2[l]) = r.next - 1
  <2>1. l # Genesis => Len(logs2[l]) = Len(logs[l]) + Len(ids)
    BY <1>3 DEF Advanced
  <2>2. r.next = o.next + Len(ids) /\ o.next \in Nat /\ Len(ids) \in Nat
    BY <1>2, <1>3
  <2>3. l # Genesis => Len(logs[l]) = o.next - 1
    BY <1>4
  <2> DEFINE a == Len(logs2[l])
             b == Len(logs[l])
             c == Len(ids)
             d == o.next
             e == r.next
  <2>4. (l # Genesis => a = b + c /\ b = d - 1) /\ e = d + c /\ d \in Nat /\ c \in Nat
    BY <2>1, <2>2, <2>3
  <2> HIDE DEF a, b, c, d, e, l
  <2>5. l # Genesis => a = e - 1
    BY <2>4
  <2> QED
    BY <2>5 DEF a, e, l
<1>6. OutboxIn(r, p, aus2, logs2, highs2)
  <2> SUFFICES ASSUME l # Genesis
               PROVE  /\ aus2[l] = p /\ r.next - 1 <= Len(logs2[l]) /\ Gone(r) <= highs2[l]
                      /\ \A n \in DOMAIN r.msgs : r.msgs[n].id = logs2[l][r.msgs[n].seq]
    BY DEF OutboxIn
  <2>1. l \in Lineages
    BY <1>3
  <2>2. PICK k \in 0 .. Len(o.msgs) + Len(ids) :
          /\ Len(r.msgs) = Len(o.msgs) + Len(ids) - k /\ Gone(r) = Gone(o) + k
          /\ \A n \in 1 .. Len(r.msgs) :
               /\ k + n <= Len(o.msgs) => r.msgs[n] = o.msgs[k + n]
               /\ ~(k + n <= Len(o.msgs)) => r.msgs[n].id = ids[k + n - Len(o.msgs)]
          /\ k > 0 => i.ackLin = l /\ Gone(r) <= i.ackSeq
    BY <1>2 DEF Became
  <2>3. highs2[l] \in Nat /\ highs[l] \in Nat /\ highs[l] <= highs2[l]
    BY <2>1 DEF StreamTypes, Grown
  <2>4. Gone(r) <= highs2[l]
    <3>1. CASE k = 0
      <4>1. Gone(r) = Gone(o)
        BY <3>1, <2>2, <1>3
      <4>2. o.lin = Genesis => Gone(o) = 0
        BY <1>1 DEF Sound, Gone
      <4>3. o.lin # Genesis => l = o.lin /\ Gone(o) <= highs[o.lin]
        BY <1>4 DEF VersionIn, OutboxIn
      <4> QED
        BY <4>1, <4>2, <4>3, <2>3, <1>3
    <3>2. CASE k # 0
      <4>1. i.ackLin = l /\ Gone(r) <= i.ackSeq
        BY <3>2, <2>2
      <4>2. i.ackSeq <= highs[l] /\ i.ackSeq \in Nat
        BY <1>1, <4>1, SoundTypes DEF VersionIn, AcksIn
      <4> QED
        BY <4>1, <4>2, <2>3, <1>3
    <3> QED
      BY <3>1, <3>2
  <2>5. \A n \in 1 .. Len(r.msgs) : r.msgs[n].id = logs2[l][Gone(r) + n]
    <3> SUFFICES ASSUME NEW n \in 1 .. Len(r.msgs) PROVE r.msgs[n].id = logs2[l][Gone(r) + n]
      OBVIOUS
    <3>1. PICK m \in Int : m = k + n
      BY <1>3
    <3>2. /\ m \in 1 .. Len(o.msgs) + Len(ids) /\ Gone(r) + n = Gone(o) + m /\ o.next - 1 = Gone(o) + Len(o.msgs)
          /\ Len(logs[l]) = Gone(o) + Len(o.msgs)
      <4>1. o.next - 1 = Gone(o) + Len(o.msgs)
        <5>1. o.next \in Int /\ Len(o.msgs) \in Int
          BY <1>3
        <5> QED
          BY <5>1 DEF Gone
      <4>2. m \in 1 .. Len(o.msgs) + Len(ids)
        BY <2>2, <1>3, <3>1
      <4>3. Gone(r) + n = Gone(o) + m
        BY <2>2, <1>3, <3>1
      <4> QED
        BY <4>1, <4>2, <4>3, <1>4
    <3>3. (k + n <= Len(o.msgs) => r.msgs[n] = o.msgs[k + n])
      BY <2>2, Zenon
    <3>4. (~(k + n <= Len(o.msgs)) => r.msgs[n].id = ids[k + n - Len(o.msgs)])
      BY <2>2, Zenon
    <3>5. (m <= Len(o.msgs) => r.msgs[n] = o.msgs[m]) /\ (~(m <= Len(o.msgs)) => r.msgs[n].id = ids[m - Len(o.msgs)])
      BY <3>3, <3>4, <3>1
    <3>6. CASE m <= Len(o.msgs)
      <4>1. m \in 1 .. Len(o.msgs) /\ m \in DOMAIN o.msgs
        BY <3>2, <3>6, <1>3
      <4>2. o.msgs[m].seq = Gone(o) + m
        BY <4>1, <1>1 DEF Sound
      <4>3. o.lin # Genesis
        BY <4>1, <1>1 DEF Sound
      <4>4. l = o.lin /\ o.msgs[m].id = logs[l][Gone(o) + m]
        BY <4>1, <4>2, <4>3, <1>4 DEF VersionIn, OutboxIn
      <4>5. Gone(o) + m \in 1 .. Len(logs[l])
        BY <3>2, <4>1, <1>3, SMTT(20)
      <4>6. logs2[l][Gone(o) + m] = logs[l][Gone(o) + m]
        BY <4>5, <2>1 DEF Grown
      <4> QED
        BY <3>2, <3>5, <3>6, <4>4, <4>6
    <3>7. CASE ~(m <= Len(o.msgs))
      <4>1. m - Len(o.msgs) \in 1 .. Len(ids) /\ Len(logs[l]) + (m - Len(o.msgs)) = Gone(o) + m
        <5> DEFINE a == Len(o.msgs)
                   b == Len(ids)
                   g == Gone(o)
                   c == Len(logs[l])
        <5>1. a \in Nat /\ b \in Nat /\ g \in Nat /\ c = g + a /\ m \in 1 .. a + b /\ ~(m <= a)
          BY <3>2, <3>7, <1>3
        <5> HIDE DEF a, b, c, g
        <5>2. m - a \in 1 .. b /\ c + (m - a) = g + m
          BY <5>1
        <5> QED
          BY <5>2 DEF a, b, c, g
      <4>2. logs2[l][Len(logs[l]) + (m - Len(o.msgs))] = ids[m - Len(o.msgs)]
        BY <4>1, <2>1 DEF Advanced
      <4> QED
        BY <3>2, <3>5, <3>7, <4>1, <4>2
    <3> QED
      BY <3>6, <3>7
  <2>6. \A n \in DOMAIN r.msgs : r.msgs[n].id = logs2[l][r.msgs[n].seq]
    <3>1. \A n \in DOMAIN r.msgs : n \in 1 .. Len(r.msgs) /\ r.msgs[n].seq = Gone(r) + n
      <4>1. DOMAIN r.msgs = 1 .. Len(r.msgs)
        BY <1>3
      <4>2. \A n \in DOMAIN r.msgs : r.msgs[n].seq = Gone(r) + n
        BY <1>2 DEF Sound
      <4> QED
        BY <4>1, <4>2, Zenon
    <3> QED
      BY <3>1, <2>5
  <2>7. r.next - 1 <= Len(logs2[l])
    <3>1. Len(logs2[l]) \in Nat
      BY <2>1 DEF StreamTypes
    <3> QED
      BY <3>1, <1>5
  <2> QED
    BY <1>4, <2>4, <2>6, <2>7
<1>7. AcksIn(r, p, aus2, highs2)
  <2>1. CASE fresh = <<>>
    <3>1. VersionIn(o, p, aus2, logs2, highs2)
      BY VersionGrows
    <3> QED
      BY <2>1, <3>1, <1>2 DEF VersionIn, AcksIn
  <2>2. CASE fresh # <<>>
    <3>1. i.lin \in Lineages /\ r.ackLin = i.lin /\ r.ackSeq = last
      BY <2>2, <1>1, <1>2, SoundTypes
    <3>2. VersionIn(i, Other(p), aus2, logs2, highs2)
      BY VersionGrows, TwoPeers
    <3>3. aus2[i.lin] = Other(p)
      BY <2>2, <3>2 DEF VersionIn, OutboxIn
    <3>4. last <= highs2[i.lin]
      <4>1. highs2[i.lin] = (IF last > highs[i.lin] THEN last ELSE highs[i.lin]) /\ highs[i.lin] \in Nat
        BY <3>1 DEF Advanced, StreamTypes
      <4> QED
        BY <4>1
    <3> QED
      BY <3>1, <3>3, <3>4 DEF AcksIn
  <2> QED
    BY <2>1, <2>2
<1> QED
  BY <1>2, <1>5, <1>6, <1>7 DEF VersionIn


-----------------------------------------------------------------------------
(* What a step of a peer at its own documents keeps. *)

\* The blank document is a version of any outbox.
LEMMA EmptyIs ==
  ASSUME NEW p, NEW aus, NEW logs, NEW highs
  PROVE  Empty \in DocType /\ VersionIn(Empty, p, aus, logs, highs)
<1>1. Empty \in DocType
  BY DEF Empty, DocType
<1>2. Empty.lin = Genesis /\ Empty.msgs = <<>> /\ Empty.next = 1 /\ Empty.ackSeq = 0 /\ Empty.ackLin = Genesis /\ Gone(Empty) = 0
  BY DEF Empty, Gone
<1>3. Sound(Empty)
  BY <1>1, <1>2 DEF Sound
<1> QED
  BY <1>1, <1>2, <1>3 DEF VersionIn, OutboxIn, AcksIn

\* Peers are finitely many.
LEMMA SomePeers ==
  ASSUME NEW T, T \subseteq Peer
  PROVE  IsFiniteSet(T) /\ Cardinality(T) \in Nat /\ \A p \in Peer \ T : Cardinality(T) <= 1
<1>1. IsFiniteSet(T) /\ Cardinality(T) \in Nat
  BY TwoPeers, FS_Subset, FS_CardinalityType
<1>2. ASSUME NEW p \in Peer \ T PROVE Cardinality(T) <= 1
  <2>1. IsFiniteSet(Peer \ {p}) /\ Cardinality(Peer \ {p}) = 1
    BY TwoPeers, FS_RemoveElement
  <2>2. T \subseteq Peer \ {p}
    OBVIOUS
  <2> QED
    BY <2>1, <2>2, FS_Subset
<1> QED
  BY <1>1, <1>2

\* A peer that does not write a lineage yet can mint one.
LEMMA MintsNext ==
  ASSUME TypesHold, MintingHolds, NEW p \in Peer, p \notin Writers
  PROVE  \E k \in Nat : /\ NextLineage = k + 1 /\ NextLineage \in Lineages /\ author[NextLineage] = "nobody"
                        /\ \A l \in Lineages : author[l] # "nobody" <=> l <= k
                        /\ k <= restarts + Cardinality(Writers)
<1>1. PICK k \in Nat : /\ \A l \in Lineages : author[l] # "nobody" <=> l <= k
                       /\ k <= restarts + Cardinality(Writers)
  BY DEF MintingHolds
<1>2. Cardinality(Writers) \in Nat /\ Cardinality(Writers) <= 1 /\ restarts \in Nat /\ restarts <= MaxRestarts /\ MaxRestarts \in Nat
  BY SomePeers, LineAssumption DEF Writers, TypesHold
<1>3. Lineages = 1 .. 2 + MaxRestarts /\ k <= MaxRestarts + 1
  BY <1>1, <1>2, TwoPeers DEF Lineages
<1>4. Minted = 1 .. k
  <2>1. 1 .. k \subseteq Lineages /\ \A l \in Lineages : l \in 1 .. k <=> l <= k
    BY <1>2, <1>3
  <2> QED
    BY <1>1, <2>1 DEF Minted
<1>5. Cardinality(Minted) = k
  BY <1>4, FS_Interval
<1>6. NextLineage = k + 1 /\ k + 1 \in Lineages
  BY <1>2, <1>3, <1>5 DEF NextLineage
<1>7. author[k + 1] = "nobody"
  BY <1>1, <1>6
<1> QED
  BY <1>1, <1>6, <1>7

\* Copies of an outbox are versions of it, in streams that grow.
LEMMA VersionsGrow ==
  ASSUME TypesHold, VersionsHold, StreamTypes(author', log', high'), Grown(author, log, high, author', log', high'),
         \A p \in Peer : \A c \in Versions(p)' :
           c \in Versions(p) \/ c = Empty \/ VersionIn(c, p, author', log', high')
  PROVE  VersionsHold'
<1> SUFFICES ASSUME NEW p \in Peer, NEW c \in Versions(p)' PROVE VersionIn(c, p, author', log', high')
  BY DEF VersionsHold
<1>1. CASE c \in Versions(p)
  <2>1. VersionIn(c, p, author, log, high) /\ StreamTypes(author, log, high)
    BY <1>1 DEF VersionsHold, TypesHold
  <2> QED
    BY <2>1, VersionGrows
<1>2. CASE c = Empty
  BY <1>2, EmptyIs
<1> QED
  BY <1>1, <1>2

\* What peer p handles: o and i are its documents, or become so.
Handles(p, o, i) ==
  /\ o \in Versions(p) /\ i \in Copies(Other(p))
  /\ o.lin = Genesis => p \notin Writers
  /\ StoredIn(o, disk[p]["outbox"], Copies(p), log, high)
  /\ p \notin anew => AckIn(p, o, i, author, high)

\* What it makes of them: r of o, with its cursor at last in i.
Handled(p, o, r, i, last) ==
  /\ VersionIn(r, p, author', log', high') /\ (r.lin # Genesis => Len(log'[r.lin]) = r.next - 1)
  /\ r.lin \in {o.lin, Lineage(o)} /\ (o.lin # Genesis => r.lin = o.lin)
  /\ StreamTypes(author', log', high') /\ Bounds(author', log', high')
  /\ Grown(author, log, high, author', log', high')
  /\ \A x \in Lineages \ {r.lin} : author'[x] = author[x] /\ log'[x] = log[x]
  /\ \A x \in Lineages \ {i.lin} : high'[x] = high[x]
  /\ i.lin # Genesis => high'[i.lin] = high[i.lin] \/ high'[i.lin] <= i.next - 1
  /\ CursorIn(p, last, i, high')
  /\ \/ high' = high /\ r.ackSeq = o.ackSeq /\ r.ackLin = o.ackLin
     \/ i.lin # Genesis /\ r.ackLin = i.lin /\ r.ackSeq = last

\* The types and authors of what is handled.
LEMMA HandlesTypes ==
  ASSUME TypesHold, VersionsHold, NEW p \in Peer, NEW o \in Versions(p), NEW i \in Copies(Other(p))
  PROVE  /\ VersionIn(o, p, author, log, high) /\ VersionIn(i, Other(p), author, log, high) /\ Sound(o) /\ Sound(i)
         /\ o.lin \in {Genesis} \cup Lineages /\ i.lin \in {Genesis} \cup Lineages /\ o.lin \in Nat /\ i.lin \in Nat
         /\ o.lin # Genesis => author[o.lin] = p
         /\ i.lin # Genesis => author[i.lin] = Other(p)
<1>1. VersionIn(o, p, author, log, high) /\ VersionIn(i, Other(p), author, log, high)
  BY TwoPeers DEF VersionsHold, Versions
<1>2. Sound(o) /\ Sound(i)
  BY <1>1 DEF VersionIn
<1> QED
  BY <1>1, <1>2, SoundTypes DEF VersionIn, OutboxIn

\* A step in which peer p, all its documents ready, handles o and i and makes r of o.
HandlingStep(p, o, i, r, last) ==
  /\ Handles(p, o, i) /\ Handled(p, o, r, i, last)
  /\ \A d \in Docs : phase'[p][d] = "ready" /\ d \notin deleting[p]
  /\ phase'[Other(p)] = phase[Other(p)]
  /\ doc'[p]["outbox"] = r /\ doc'[p]["inbox"] = i /\ doc'[Other(p)] = doc[Other(p)]
  /\ line'[p].open /\ line'[p].unsent = <<>> /\ line'[p].last = last /\ line'[p].lin = i.lin
  /\ line'[Other(p)] = line[Other(p)]
  /\ UNCHANGED <<disk, deleting, wire, anew, restarts>>

LEMMA HandlingVersions ==
  ASSUME TypesHold, VersionsHold, NEW p \in Peer, NEW o, NEW i, NEW r, NEW last, HandlingStep(p, o, i, r, last)
  PROVE  VersionsHold'
<1> DEFINE q == Other(p)
<1>0. q \in Peer /\ q # p /\ Other(q) = p /\ \A x \in Peer : x = p \/ x = q
  BY TwoPeers
<1> HIDE DEF q
<1>1. /\ i \in Copies(q) /\ VersionIn(r, p, author', log', high')
      /\ StreamTypes(author', log', high') /\ Grown(author, log, high, author', log', high')
  BY DEF HandlingStep, Handles, Handled, q
<1>2. /\ doc'[p]["outbox"] = r /\ doc'[p]["inbox"] = i /\ doc'[q] = doc[q] /\ disk' = disk /\ wire' = wire
  BY DEF HandlingStep, q
<1>3. Copies(p)' = Copies(p)
  BY <1>0, <1>2 DEF Copies, q
<1>4. Copies(q)' = {wire[q], i, disk[p]["inbox"]}
  BY <1>0, <1>2 DEF Copies
<1>5. Copies(q)' \subseteq Copies(q)
  BY <1>0, <1>1, <1>4 DEF Copies
<1>6. Versions(p)' \subseteq Versions(p) \cup {r}
  BY <1>2, <1>3 DEF Versions
<1>7. Versions(q)' \subseteq Versions(q)
  BY <1>2, <1>5 DEF Versions
<1>8. \A x \in Peer : \A c \in Versions(x)' : c \in Versions(x) \/ c = Empty \/ VersionIn(c, x, author', log', high')
  BY <1>0, <1>1, <1>6, <1>7
<1> QED
  BY <1>1, <1>8, VersionsGrow

LEMMA HandlingMints ==
  ASSUME TypesHold, VersionsHold, MintingHolds, NEW p \in Peer, NEW o, NEW i, NEW r, NEW last, HandlingStep(p, o, i, r, last)
  PROVE  MintingHolds'
<1>1. /\ o \in Versions(p) /\ i \in Copies(Other(p)) /\ (o.lin = Genesis => p \notin Writers)
      /\ doc'[p]["outbox"] = r /\ doc'[Other(p)] = doc[Other(p)] /\ restarts' = restarts
      /\ VersionIn(r, p, author', log', high')
      /\ r.lin \in {o.lin, Lineage(o)} /\ (o.lin # Genesis => r.lin = o.lin)
      /\ \A x \in Lineages \ {r.lin} : author'[x] = author[x]
  BY DEF HandlingStep, Handles, Handled
<1>2. o.lin \in {Genesis} \cup Lineages /\ (o.lin # Genesis => author[o.lin] = p) /\ p # "nobody"
  BY <1>1, HandlesTypes, TwoPeers
<1>3. r.lin \in {Genesis} \cup Lineages /\ (r.lin # Genesis => author'[r.lin] = p)
  BY <1>1, SoundTypes DEF VersionIn, OutboxIn
<1>4. restarts \in Nat /\ restarts' \in Nat
  BY <1>1 DEF TypesHold
<1>5. Writers \subseteq Peer /\ Writers' \subseteq Peer
  BY DEF Writers
<1>6. Writers' = IF r.lin # Genesis THEN Writers \cup {p} ELSE Writers \ {p}
  BY <1>1, TwoPeers DEF Writers
<1>7. Genesis \notin Lineages
  BY DEF Genesis, Lineages
<1>8. CASE o.lin = Genesis /\ r.lin # Genesis
  <2>1. r.lin = NextLineage /\ p \notin Writers
    BY <1>1, <1>8 DEF Lineage
  <2>2. PICK k \in Nat : /\ NextLineage = k + 1 /\ NextLineage \in Lineages /\ author[NextLineage] = "nobody"
                         /\ \A l \in Lineages : author[l] # "nobody" <=> l <= k
                         /\ k <= restarts + Cardinality(Writers)
    BY <2>1, MintsNext
  <2>3. \A l \in Lineages : author'[l] # "nobody" <=> l <= k + 1
    <3> SUFFICES ASSUME NEW l \in Lineages PROVE author'[l] # "nobody" <=> l <= k + 1
      OBVIOUS
    <3>1. l \in Nat
      BY DEF Lineages
    <3>2. CASE l = k + 1
      BY <3>2, <1>2, <1>3, <1>8, <2>1, <2>2
    <3>3. CASE l # k + 1
      <4>1. author'[l] = author[l]
        BY <3>3, <1>1, <2>1, <2>2
      <4> QED
        BY <4>1, <3>1, <3>3, <2>2
    <3> QED
      BY <3>2, <3>3
  <2>4. Cardinality(Writers') = Cardinality(Writers) + 1 /\ Cardinality(Writers) \in Nat
    BY <1>5, <1>6, <1>8, <2>1, SomePeers, FS_AddElement
  <2>5. k + 1 \in Nat /\ k + 1 <= restarts' + Cardinality(Writers')
    BY <1>1, <1>4, <2>2, <2>4
  <2> QED
    BY <2>3, <2>5 DEF MintingHolds
<1>9. CASE ~(o.lin = Genesis /\ r.lin # Genesis)
  <2>1. Writers \subseteq Writers' /\ r.lin = o.lin
    BY <1>1, <1>6, <1>9
  <2>2. \A l \in Lineages : author'[l] = author[l]
    BY <1>1, <1>2, <1>3, <2>1, <1>7
  <2>3. Cardinality(Writers) <= Cardinality(Writers') /\ Cardinality(Writers) \in Nat /\ Cardinality(Writers') \in Nat
    BY <1>5, <2>1, SomePeers, FS_Subset
  <2>4. PICK k \in Nat : /\ \A l \in Lineages : author[l] # "nobody" <=> l <= k
                         /\ k <= restarts + Cardinality(Writers)
    BY DEF MintingHolds
  <2>5. k <= restarts' + Cardinality(Writers')
    BY <1>1, <1>4, <2>3, <2>4
  <2> QED
    BY <2>2, <2>4, <2>5 DEF MintingHolds
<1> QED
  BY <1>8, <1>9

LEMMA HandlingStored ==
  ASSUME TypesHold, VersionsHold, MintingHolds, Bounds(author, log, high), \A x \in Peer : StoredFirst(x),
         NEW p \in Peer, NEW o, NEW i, NEW r, NEW last, HandlingStep(p, o, i, r, last)
  PROVE  \A x \in Peer : StoredFirst(x)'
<1> DEFINE q == Other(p)
           d == disk[p]["outbox"]
<1>0. q \in Peer /\ q # p /\ Other(q) = p /\ (\A x \in Peer : x = p \/ x = q) /\ p # "nobody"
  BY TwoPeers
<1>1. /\ o \in Versions(p) /\ i \in Copies(q) /\ StoredIn(o, d, Copies(p), log, high)
      /\ doc'[p]["outbox"] = r /\ doc'[p]["inbox"] = i /\ doc'[q] = doc[q] /\ disk' = disk /\ wire' = wire
      /\ phase'[p]["outbox"] = "ready" /\ phase'[q] = phase[q]
      /\ (o.lin = Genesis => p \notin Writers)
  BY DEF HandlingStep, Handles, Docs
<1>2. /\ VersionIn(r, p, author', log', high') /\ (r.lin # Genesis => Len(log'[r.lin]) = r.next - 1)
      /\ r.lin \in {o.lin, Lineage(o)} /\ (o.lin # Genesis => r.lin = o.lin)
      /\ \A x \in Lineages \ {r.lin} : author'[x] = author[x] /\ log'[x] = log[x]
      /\ \A x \in Lineages \ {i.lin} : high'[x] = high[x]
      /\ i.lin # Genesis => high'[i.lin] = high[i.lin] \/ high'[i.lin] <= i.next - 1
      /\ StreamTypes(author', log', high')
  BY DEF HandlingStep, Handled
<1>3. /\ o.lin \in {Genesis} \cup Lineages /\ i.lin \in {Genesis} \cup Lineages /\ Sound(i)
      /\ (o.lin # Genesis => author[o.lin] = p) /\ (i.lin # Genesis => author[i.lin] = q)
  BY <1>1, HandlesTypes
<1>4. r.lin \in {Genesis} \cup Lineages /\ Genesis \notin Lineages
  BY <1>2, SoundTypes DEF VersionIn, Genesis, Lineages
<1>5. \A c \in Versions(p) : Sound(c) /\ c.lin \in {Genesis} \cup Lineages /\ (c.lin # Genesis => author[c.lin] = p)
  BY SoundTypes DEF VersionsHold, VersionIn, OutboxIn
<1>6. \A c \in Versions(q) : Sound(c) /\ c.lin \in {Genesis} \cup Lineages /\ (c.lin # Genesis => author[c.lin] = q)
  BY <1>0, SoundTypes DEF VersionsHold, VersionIn, OutboxIn
<1>7. d \in Versions(p) /\ Copies(p) \subseteq Versions(p) /\ Copies(q) \subseteq Versions(q)
      /\ disk[q]["outbox"] \in Versions(q) /\ doc[q]["outbox"] \in Versions(q)
  BY DEF Versions
<1>8. Copies(p)' = Copies(p) /\ Copies(q)' = {wire[q], i, disk[p]["inbox"]} /\ Copies(q)' \subseteq Copies(q)
  BY <1>0, <1>1 DEF Copies
<1>9. o.lin = Genesis /\ r.lin # Genesis => r.lin = NextLineage /\ author[r.lin] = "nobody"
  BY <1>1, <1>2, MintsNext DEF Lineage
<1>10. r.lin # Genesis => high'[r.lin] = high[r.lin]
  <2>1. r.lin # Genesis => author[r.lin] \in {p, "nobody"}
    BY <1>2, <1>3, <1>9
  <2>2. r.lin # Genesis => r.lin # i.lin
    BY <1>0, <1>3, <1>4, <2>1, TwoPeers
  <2> QED
    BY <1>2, <1>4, <2>2
<1> HIDE DEF q, d
<1>11. StoredIn(r, d, Copies(p), log', high')
  <2>1. CASE o.lin # Genesis
    <3>1. r.lin = o.lin /\ high'[r.lin] = high[r.lin]
      BY <1>2, <1>10, <2>1
    <3> QED
      BY <3>1, <1>1, <1>2, <2>1 DEF StoredIn
  <2>2. CASE o.lin = Genesis /\ r.lin = Genesis
    BY <1>1, <2>2 DEF StoredIn
  <2>3. CASE o.lin = Genesis /\ r.lin # Genesis
    <3>1. author[r.lin] = "nobody" /\ d.lin = Genesis
      BY <1>1, <1>9, <2>3 DEF StoredIn
    <3>2. high'[r.lin] = 0
      BY <3>1, <1>4, <1>10, <2>3 DEF Bounds
    <3>3. \A c \in Copies(p) : c.lin # r.lin
      BY <3>1, <1>0, <1>5, <1>7, <2>3
    <3> QED
      BY <3>1, <3>2, <3>3, <1>2, <2>3 DEF StoredIn
  <2> QED
    BY <2>1, <2>2, <2>3
<1>12. StoredFirst(p)'
  BY <1>1, <1>8, <1>11 DEF StoredFirst, d
<1> DEFINE oq == doc[q]["outbox"]
           dq == disk[q]["outbox"]
<1>13. \A c \in Versions(q) : c.lin # Genesis => log'[c.lin] = log[c.lin]
  <2> SUFFICES ASSUME NEW c \in Versions(q), c.lin # Genesis PROVE log'[c.lin] = log[c.lin]
    OBVIOUS
  <2>1. c.lin \in Lineages /\ author[c.lin] = q
    BY <1>6
  <2>2. c.lin # r.lin
    BY <2>1, <1>0, <1>2, <1>3, <1>9, TwoPeers
  <2> QED
    BY <2>1, <2>2, <1>2
<1> HIDE DEF oq, dq
<1>14. oq \in Versions(q) /\ dq \in Versions(q)
  BY <1>7 DEF oq, dq
<1>15. ASSUME StoredIn(oq, dq, Copies(q), log, high) PROVE StoredIn(oq, dq, Copies(q)', log', high')
  <2>1. CASE oq.lin = Genesis
    BY <1>15, <2>1 DEF StoredIn
  <2>2. CASE oq.lin # Genesis
    <3> DEFINE l == oq.lin
    <3>1. l \in Lineages /\ log'[l] = log[l] /\ high[l] \in Nat /\ high'[l] \in Nat
      BY <1>2, <1>6, <1>13, <1>14, <2>2 DEF TypesHold, StreamTypes
    <3>2. Len(log'[l]) = oq.next - 1 /\ dq.lin \in {Genesis, l}
      BY <3>1, <1>15, <2>2 DEF StoredIn
    <3>3. CASE dq.lin = l
      <4>1. high[l] <= dq.next - 1 /\ \A c \in Copies(q) : c.lin = l => c.next <= dq.next
        BY <1>15, <2>2, <3>3 DEF StoredIn
      <4>2. high'[l] <= dq.next - 1
        <5>1. CASE i.lin # l
          BY <5>1, <3>1, <4>1, <1>2
        <5>2. CASE i.lin = l
          <6>1. i.next <= dq.next /\ i.next \in Nat /\ dq.next \in Nat
            BY <5>2, <4>1, <1>1, <1>3, <1>6, <1>14, SoundTypes
          <6>2. high'[l] = high[l] \/ high'[l] <= i.next - 1
            BY <5>2, <2>2, <1>2
          <6> QED
            BY <6>1, <6>2, <3>1, <4>1
        <5> QED
          BY <5>1, <5>2
      <4> QED
        BY <2>2, <3>2, <3>3, <4>1, <4>2, <1>8 DEF StoredIn
    <3>4. CASE dq.lin # l
      <4>1. high[l] = 0 /\ \A c \in Copies(q) : c.lin # l
        BY <1>15, <2>2, <3>4 DEF StoredIn
      <4>2. high'[l] = 0
        BY <4>1, <3>1, <1>1, <1>2
      <4> QED
        BY <2>2, <3>2, <3>4, <4>1, <4>2, <1>8 DEF StoredIn
    <3> QED
      BY <3>3, <3>4
  <2> QED
    BY <2>1, <2>2
<1>16. StoredFirst(q)'
  <2>1. StoredFirst(q)
    BY <1>0
  <2>2. phase'[q]["outbox"] = phase[q]["outbox"] /\ doc'[q]["outbox"] = oq /\ disk'[q]["outbox"] = dq
    BY <1>1 DEF oq, dq
  <2>3. phase[q]["outbox"] = "ready" => StoredIn(oq, dq, Copies(q), log, high)
    BY <2>1 DEF StoredFirst, oq, dq
  <2>4. phase[q]["outbox"] # "ready" /\ dq.lin # Genesis => Len(log[dq.lin]) = dq.next - 1
    BY <2>1 DEF StoredFirst, dq
  <2>5. phase[q]["outbox"] # "ready" /\ dq.lin # Genesis => Len(log'[dq.lin]) = dq.next - 1
    BY <2>4, <1>13, <1>14
  <2> QED
    BY <2>2, <2>3, <2>5, <1>15 DEF StoredFirst
<1> QED
  BY <1>0, <1>12, <1>16

LEMMA HandlingCursors ==
  ASSUME TypesHold, VersionsHold, \A x \in Peer : CursorHolds(x),
         NEW p \in Peer, NEW o, NEW i, NEW r, NEW last, HandlingStep(p, o, i, r, last)
  PROVE  \A x \in Peer : CursorHolds(x)'
<1> DEFINE q == Other(p)
<1>0. q \in Peer /\ q # p /\ Other(q) = p /\ (\A x \in Peer : x = p \/ x = q)
  BY TwoPeers
<1>1. /\ i \in Copies(q) /\ o \in Versions(p) /\ CursorIn(p, last, i, high')
      /\ \A d \in Docs : phase'[p][d] = "ready"
      /\ doc'[p]["inbox"] = i /\ doc'[q] = doc[q] /\ phase'[q] = phase[q] /\ line'[q] = line[q] /\ anew' = anew
      /\ line'[p].open /\ line'[p].unsent = <<>> /\ line'[p].last = last /\ line'[p].lin = i.lin
      /\ \A x \in Lineages \ {i.lin} : high'[x] = high[x]
  BY DEF HandlingStep, Handles, Handled
<1> HIDE DEF q
<1>2. CursorHolds(p)'
  BY <1>1 DEF CursorHolds, CursorIn
<1>3. CursorHolds(q)'
  <2> DEFINE iq == doc[q]["inbox"]
  <2>1. CursorHolds(q)
    BY <1>0
  <2>2. iq.lin # Genesis => high'[iq.lin] = high[iq.lin]
    <3>1. iq \in Versions(p)
      BY <1>0 DEF Versions, Copies, q
    <3>2. VersionIn(iq, p, author, log, high)
      BY <3>1 DEF VersionsHold
    <3>3. iq.lin # Genesis => iq.lin \in Lineages /\ author[iq.lin] = p
      BY <3>2, SoundTypes DEF VersionIn, OutboxIn
    <3>4. i.lin # Genesis => author[i.lin] = q
      BY <1>1, HandlesTypes DEF q
    <3> QED
      BY <3>3, <3>4, <1>0, <1>1
  <2> HIDE DEF iq
  <2>3. doc'[q]["inbox"] = iq
    BY <1>1 DEF iq
  <2>4. CursorIn(q, line[q].last, iq, high) => CursorIn(q, line[q].last, iq, high)'
    BY <2>2, <2>3, <1>1 DEF CursorIn, iq
  <2> QED
    BY <2>1, <2>3, <2>4, <1>1 DEF CursorHolds, iq
<1> QED
  BY <1>0, <1>2, <1>3

LEMMA HandlingAcks ==
  ASSUME TypesHold, VersionsHold, MintingHolds, \A x \in Peer : AckHolds(x),
         NEW p \in Peer, NEW o, NEW i, NEW r, NEW last, HandlingStep(p, o, i, r, last)
  PROVE  \A x \in Peer : AckHolds(x)'
<1> DEFINE q == Other(p)
<1>0. q \in Peer /\ q # p /\ Other(q) = p /\ (\A x \in Peer : x = p \/ x = q) /\ p # "nobody" /\ q # "nobody"
  BY TwoPeers
<1>1. /\ i \in Copies(q) /\ o \in Versions(p) /\ (o.lin = Genesis => p \notin Writers)
      /\ (p \notin anew => AckIn(p, o, i, author, high)) /\ CursorIn(p, last, i, high')
      /\ \A d \in Docs : phase'[p][d] = "ready"
      /\ doc'[p]["outbox"] = r /\ doc'[p]["inbox"] = i /\ doc'[q] = doc[q] /\ phase'[q] = phase[q]
      /\ anew' = anew /\ deleting' = deleting /\ disk' = disk
  BY DEF HandlingStep, Handles, Handled
<1>2. /\ VersionIn(r, p, author', log', high')
      /\ r.lin \in {o.lin, Lineage(o)} /\ (o.lin # Genesis => r.lin = o.lin)
      /\ \A x \in Lineages \ {r.lin} : author'[x] = author[x]
      /\ \A x \in Lineages \ {i.lin} : high'[x] = high[x]
      /\ Grown(author, log, high, author', log', high')
      /\ \/ high' = high /\ r.ackSeq = o.ackSeq /\ r.ackLin = o.ackLin
         \/ i.lin # Genesis /\ r.ackLin = i.lin /\ r.ackSeq = last
  BY DEF HandlingStep, Handled
<1>3. /\ o.lin \in {Genesis} \cup Lineages /\ i.lin \in {Genesis} \cup Lineages /\ i.lin \in Nat
      /\ (o.lin # Genesis => author[o.lin] = p) /\ (i.lin # Genesis => author[i.lin] = q)
  BY <1>1, HandlesTypes DEF q
<1>4. r.lin \in {Genesis} \cup Lineages /\ (r.lin # Genesis => author'[r.lin] = p)
  BY <1>2, SoundTypes DEF VersionIn, OutboxIn
<1>5. Lineages \subseteq Nat /\ Genesis \notin Lineages
  BY DEF Lineages, Genesis
<1> HIDE DEF q
<1>6. AckHolds(p)'
  <2> SUFFICES ASSUME p \notin anew
               PROVE  deleting[p] = {} /\ AckIn(p, r, i, author', high')
    BY <1>1 DEF AckHolds
  <2>1. deleting[p] = {} /\ AckIn(p, o, i, author, high)
    BY <1>1 DEF AckHolds
  <2>2. r.ackLin <= i.lin
    BY <1>2, <1>3, <2>1 DEF AckIn
  <2>3. \A l \in Lineages : l > i.lin /\ author'[l] # p => high'[l] = 0
    <3> SUFFICES ASSUME NEW l \in Lineages, l > i.lin, author'[l] # p PROVE high'[l] = 0
      OBVIOUS
    <3>1. l # i.lin /\ high'[l] = high[l]
      BY <1>2, <1>3, <1>5
    <3>2. author'[l] = author[l]
      BY <1>2, <1>4, <1>5
    <3> QED
      BY <3>1, <3>2, <2>1 DEF AckIn
  <2>4. CASE high' = high /\ r.ackSeq = o.ackSeq /\ r.ackLin = o.ackLin
    BY <2>1, <2>2, <2>3, <2>4 DEF AckIn
  <2>5. CASE i.lin # Genesis /\ r.ackLin = i.lin /\ r.ackSeq = last
    <3>1. high'[i.lin] = last
      BY <1>1, <2>5 DEF CursorIn
    <3>2. high'[i.lin] = r.ackSeq /\ r.ackLin = i.lin
      BY <3>1, <2>5
    <3> QED
      BY <3>2, <2>1, <2>2, <2>3 DEF AckIn
  <2> QED
    BY <1>2, <2>4, <2>5
<1>7. AckHolds(q)'
  <2> DEFINE oq == doc[q]["outbox"]
             iq == doc[q]["inbox"]
  <2> SUFFICES ASSUME q \notin anew
               PROVE  /\ deleting[q] = {} /\ \A d \in Docs : phase[q][d] # "ready" => disk[q][d] = Empty
                      /\ AckIn(q, oq, iq, author', high')
    BY <1>1 DEF AckHolds
  <2>1. /\ deleting[q] = {} /\ \A d \in Docs : phase[q][d] # "ready" => disk[q][d] = Empty
        /\ AckIn(q, oq, iq, author, high)
    BY <1>0 DEF AckHolds
  <2>2. iq.lin # Genesis => iq.lin \in Lineages /\ author[iq.lin] = p
    <3>1. iq \in Versions(p)
      BY <1>0 DEF Versions, Copies, q
    <3>2. VersionIn(iq, p, author, log, high)
      BY <3>1 DEF VersionsHold
    <3> QED
      BY <3>2, SoundTypes DEF VersionIn, OutboxIn
  <2> HIDE DEF oq, iq
  <2>3. \A l \in Lineages : l > iq.lin /\ author'[l] # q => high'[l] = 0
    <3> SUFFICES ASSUME NEW l \in Lineages, l > iq.lin, author'[l] # q PROVE high'[l] = 0
      OBVIOUS
    <3>1. author[l] # q
      BY <1>0, <1>2 DEF Grown
    <3>2. high'[l] = high[l]
      BY <3>1, <1>2, <1>3, <1>5
    <3> QED
      BY <3>1, <3>2, <2>1 DEF AckIn
  <2>4. iq.lin # Genesis => high'[iq.lin] = high[iq.lin]
    BY <2>2, <1>0, <1>2, <1>3
  <2> QED
    BY <2>1, <2>3, <2>4 DEF AckIn
<1> QED
  BY <1>0, <1>6, <1>7

\* Such a step keeps the invariant.
LEMMA HandlingKeeps ==
  ASSUME LineInv, NEW p \in Peer, NEW o, NEW i, NEW r, NEW last, HandlingStep(p, o, i, r, last), TypesHold'
  PROVE  LineInv'
<1>1. /\ TypesHold /\ PhasesHold /\ VersionsHold /\ Bounds(author, log, high) /\ MintingHolds
      /\ \A x \in Peer : StoredFirst(x) /\ CursorHolds(x) /\ AckHolds(x)
  BY DEF LineInv, PeerHolds
<1>2. VersionsHold' /\ MintingHolds' /\ (\A x \in Peer : StoredFirst(x)') /\ (\A x \in Peer : CursorHolds(x)')
      /\ \A x \in Peer : AckHolds(x)'
  BY <1>1, HandlingVersions, HandlingMints, HandlingStored, HandlingCursors, HandlingAcks
<1>3. Bounds(author', log', high')
  BY DEF HandlingStep, Handled
<1>4. PhasesHold'
  <2>1. /\ \A d \in Docs : phase'[p][d] = "ready" /\ d \notin deleting'[p]
        /\ phase'[Other(p)] = phase[Other(p)] /\ doc'[Other(p)] = doc[Other(p)] /\ deleting' = deleting
    BY DEF HandlingStep
  <2> SUFFICES ASSUME NEW x \in Peer, NEW d \in Docs
               PROVE  (phase'[x][d] = "ready" => d \notin deleting'[x]) /\ (phase'[x][d] # "ready" => doc'[x][d] = Empty)
    BY DEF PhasesHold
  <2>2. CASE x = p
    BY <2>1, <2>2
  <2>3. CASE x = Other(p)
    BY <2>1, <2>3, <1>1 DEF PhasesHold
  <2> QED
    BY <2>2, <2>3, TwoPeers
<1> QED
  BY <1>2, <1>3, <1>4 DEF LineInv, PeerHolds

-----------------------------------------------------------------------------
(* What Processes makes of the documents of a peer and of the streams. *)

LineType == [open : BOOLEAN, resumed : BOOLEAN, unsent : Seq(Message), last : Nat, lin : {Genesis} \cup Lineages]

\* The stream a peer that handles o may write next.
LEMMA LineageIs ==
  ASSUME TypesHold, VersionsHold, MintingHolds, Bounds(author, log, high), NEW p \in Peer, NEW o, NEW i, Handles(p, o, i)
  PROVE  /\ Lineage(o) \in Lineages /\ author[Lineage(o)] \in {p, "nobody"}
         /\ o.lin = Genesis => log[Lineage(o)] = <<>> /\ author[Lineage(o)] = "nobody"
         /\ o.lin # Genesis => Len(log[o.lin]) = o.next - 1
<1>1. /\ o \in Versions(p) /\ i \in Copies(Other(p)) /\ (o.lin = Genesis => p \notin Writers)
      /\ StoredIn(o, disk[p]["outbox"], Copies(p), log, high)
  BY DEF Handles
<1>2. CASE o.lin = Genesis
  <2>1. Lineage(o) = NextLineage /\ NextLineage \in Lineages /\ author[NextLineage] = "nobody"
    BY <1>1, <1>2, MintsNext DEF Lineage
  <2> QED
    BY <1>2, <2>1 DEF Bounds
<1>3. CASE o.lin # Genesis
  BY <1>1, <1>3, HandlesTypes DEF Lineage, StoredIn
<1> QED
  BY <1>2, <1>3

\* A part of a sequence.
LEMMA MiddleIs ==
  ASSUME NEW X, NEW s \in Seq(X), NEW a \in Nat, NEW b \in Nat, a < b, b <= Len(s)
  PROVE  SubSeq(s, a + 1, b) \in Seq(X) /\ Len(SubSeq(s, a + 1, b)) = b - a
OBVIOUS

\* What is fresh to p in i, and what p was given when it is queued.
Gives(p, i, from, last, ms) ==
  /\ last \in Nat /\ ms \in Seq(Message) /\ (i.lin = Genesis => last = 0)
  /\ i.lin # Genesis => last <= Len(log[i.lin]) /\ high[i.lin] \in Nat
  /\ \/ ms = <<>> /\ last = from
     \/ /\ i.lin \in Lineages /\ last = i.next - 1 /\ last \in 1 .. Len(log[i.lin]) /\ from < last
        /\ \E j \in 0 .. last - 1 : /\ j <= high[i.lin] /\ (j < high[i.lin] => p \in anew)
                                    /\ ms = SubSeq(log[i.lin], j + 1, last)

LEMMA GivesIs ==
  ASSUME TypesHold, VersionsHold, Bounds(author, log, high), NEW p \in Peer, NEW i \in Copies(Other(p)),
         NEW from \in Nat, CursorIn(p, from, i, high),
         NEW fresh, fresh = Past(i.msgs, from),
         NEW last, last = IF fresh = <<>> THEN from ELSE fresh[Len(fresh)].seq,
         NEW ms, ms = [n \in 1 .. Len(fresh) |-> fresh[n].id]
  PROVE  Gives(p, i, from, last, ms) /\ (fresh = <<>> <=> ms = <<>>) /\ (fresh # <<>> => i.lin # Genesis /\ from < last)
<1> DEFINE q == Other(p)
<1>0. q \in Peer
  BY TwoPeers
<1> HIDE DEF q
<1>1. VersionIn(i, q, author, log, high) /\ StreamTypes(author, log, high)
  BY <1>0 DEF VersionsHold, Versions, TypesHold, q
<1>2. Sound(i) /\ i.lin \in {Genesis} \cup Lineages /\ (i.lin # Genesis => Gone(i) <= high[i.lin]) /\ Gone(i) \in Nat
  BY <1>1, SoundTypes DEF VersionIn, OutboxIn
<1>3. i.lin # Genesis => i.lin \in Lineages /\ high[i.lin] \in Nat /\ Len(log[i.lin]) \in Nat /\ high[i.lin] <= Len(log[i.lin])
  BY <1>1, <1>2 DEF StreamTypes, Bounds
<1>4. CASE fresh = <<>>
  <2>1. last = from /\ ms = <<>> /\ ms \in Seq(Message)
    BY <1>4
  <2>2. (i.lin = Genesis => last = 0) /\ (i.lin # Genesis => last <= Len(log[i.lin]) /\ high[i.lin] \in Nat)
    BY <1>3, <2>1 DEF CursorIn
  <2> QED
    BY <1>4, <2>1, <2>2 DEF Gives
<1>5. CASE fresh # <<>>
  <2>1. last = fresh[Len(fresh)].seq
    BY <1>5
  <2>2. PICK j \in Nat : FreshIn(i, from, last, ms, j, log)
    BY <1>0, <1>1, <1>5, <2>1, FreshIs
  <2>3. /\ i.lin \in Lineages /\ from < last /\ last = i.next - 1 /\ last <= Len(log[i.lin])
        /\ j \in 0 .. last - 1 /\ (j = from \/ (j = Gone(i) /\ from <= j))
        /\ ms = SubSeq(log[i.lin], j + 1, last)
    BY <2>2 DEF FreshIn
  <2>4. i.lin # Genesis /\ log[i.lin] \in Seq(Message) /\ last \in Nat
    <3>1. i.lin # Genesis /\ log[i.lin] \in Seq(Message)
      BY <2>3, <1>1 DEF StreamTypes, Lineages, Genesis
    <3> QED
      BY <3>1, <2>3, <1>2, SoundTypes
  <2>5. last \in 1 .. Len(log[i.lin])
    BY <2>3, <2>4, <1>3
  <2>6. from <= high[i.lin] /\ (p \notin anew => from = high[i.lin])
    BY <2>4 DEF CursorIn
  <2>7. j <= high[i.lin] /\ (j < high[i.lin] => p \in anew)
    BY <1>2, <1>3, <2>3, <2>4, <2>6
  <2>8. ms \in Seq(Message) /\ ms # <<>>
    <3>1. j \in Nat /\ last \in Nat /\ j < last /\ last - j > 0
      BY <2>3, <2>4
    <3>2. log[i.lin] \in Seq(Message) /\ last <= Len(log[i.lin])
      BY <2>3, <2>4
    <3>3. SubSeq(log[i.lin], j + 1, last) \in Seq(Message) /\ Len(SubSeq(log[i.lin], j + 1, last)) = last - j
      BY <3>1, <3>2, MiddleIs
    <3>4. ms \in Seq(Message) /\ Len(ms) = last - j
      BY <3>3, <2>3
    <3> QED
      BY <3>1, <3>4
  <2> QED
    BY <1>3, <1>5, <2>3, <2>4, <2>5, <2>7, <2>8 DEF Gives
<1> QED
  BY <1>4, <1>5

\* Such a step writes to p's stream, at its end.
LEMMA WritesIs ==
  ASSUME NEW p \in Peer, NEW l \in {Genesis} \cup Lineages, NEW ids \in Seq(Message), StreamTypes(author, log, high),
         l \in Lineages => author[l] \in {p, "nobody"}, NEW m, NEW last,
         Advanced(p, l, ids, m, last, author, log, high, author', log', high')
  PROVE  S!Writes(p)
<1> SUFFICES ASSUME NEW x \in Lineages
             PROVE  /\ author'[x] = author[x] \/ (author[x] = "nobody" /\ author'[x] = p)
                    /\ log'[x] = log[x] \/ (author'[x] = p /\ Len(log'[x]) > Len(log[x]))
                    /\ SubSeq(log'[x], 1, Len(log[x])) = log[x]
  BY DEF S!Writes
<1>1. log[x] \in Seq(Message)
  BY DEF StreamTypes
<1>2. SubSeq(log[x], 1, Len(log[x])) = log[x]
  BY <1>1
<1>3. CASE x # l
  <2>1. author'[x] = author[x] /\ log'[x] = log[x]
    BY <1>3 DEF Advanced
  <2> QED
    BY <2>1, <1>2
<1>4. CASE x = l
  <2>1. author'[l] = p /\ Len(log'[l]) = Len(log[l]) + Len(ids) /\ SubSeq(log'[l], 1, Len(log[l])) = log[l]
    BY <1>4 DEF Advanced
  <2>2. ids = <<>> => log' = log
    BY DEF Advanced
  <2>3. ids # <<>> => Len(ids) \in Nat /\ Len(ids) > 0
    OBVIOUS
  <2>4. ids # <<>> => Len(log'[l]) > Len(log[l])
    BY <2>1, <2>3, <1>1, <1>4
  <2> QED
    BY <2>1, <2>2, <2>4, <1>4
<1> QED
  BY <1>3, <1>4

\* What is written and given in such a step is a step of the streams.
LEMMA GivesActs ==
  ASSUME TypesHold, NEW p \in Peer, NEW l \in {Genesis} \cup Lineages, NEW ids \in Seq(Message),
         l \in Lineages => author[l] \in {p, "nobody"},
         NEW i, NEW from \in Nat, NEW last, NEW ms, Gives(p, i, from, last, ms),
         i.lin # Genesis => author[i.lin] = Other(p),
         ms = <<>> => high' = high,
         Advanced(p, l, ids, i.lin, last, author, log, high, author', log', high'),
         StreamTypes(author', log', high'),
         given' = [given EXCEPT ![p] = @ \o ms], UNCHANGED anew
  PROVE  S!Acts(p)
<1>1. StreamTypes(author, log, high) /\ given \in [Peer -> Seq(Message)] /\ Genesis \notin Lineages
  BY DEF TypesHold, Lineages, Genesis
<1>2. S!Writes(p)
  BY <1>1, WritesIs
<1>3. CASE ms = <<>>
  <2>1. given[p] \o ms = given[p]
    BY <1>1, <1>3
  <2>2. given' = given /\ high' = high
    BY <2>1, <1>1, <1>3
  <2> QED
    BY <1>2, <2>2 DEF S!Acts
<1>4. CASE ms # <<>>
  <2>1. i.lin \in Lineages /\ last \in 1 .. Len(log[i.lin])
    BY <1>4 DEF Gives
  <2>2. PICK j \in 0 .. last - 1 : /\ j <= high[i.lin] /\ (j < high[i.lin] => p \in anew)
                                   /\ ms = SubSeq(log[i.lin], j + 1, last)
    BY <1>4 DEF Gives
  <2>3. author[i.lin] \notin {"nobody", p}
    BY <1>1, <2>1, TwoPeers
  <2>4. high' = [high EXCEPT ![i.lin] = IF last > high[i.lin] THEN last ELSE high[i.lin]]
    <3>1. /\ high \in [Lineages -> Nat] /\ high' \in [Lineages -> Nat]
          /\ \A x \in Lineages \ {i.lin} : high'[x] = high[x]
          /\ high'[i.lin] = IF last > high[i.lin] THEN last ELSE high[i.lin]
      BY <1>1, <2>1 DEF Advanced, StreamTypes
    <3> QED
      BY <3>1, <2>1
  <2>5. S!Gives(p, i.lin, j, last)
    BY <2>2, <2>3, <2>4 DEF S!Gives
  <2> QED
    BY <1>2, <2>1, <2>2, <2>5 DEF S!Acts
<1> QED
  BY <1>3, <1>4

\* Processes is a step of peer p that handles its documents.
LEMMA Processed ==
  ASSUME TypesHold, VersionsHold, MintingHolds, Bounds(author, log, high),
         NEW p \in Peer, NEW o, NEW i, Handles(p, o, i), NEW ids \in Seq(Message),
         NEW ln, LastIn(ln, i) \in Nat, CursorIn(p, LastIn(ln, i), i, high),
         Processes(p, AllWritten(o, ids), i, ln, ids), UNCHANGED anew
  PROVE  \E r, last, ms :
           /\ Handled(p, o, r, i, last) /\ last \in Nat /\ ms \in Seq(Message)
           /\ doc' = [doc EXCEPT ![p] = [d \in Docs |-> IF d = "outbox" THEN r ELSE i]]
           /\ line' = [line EXCEPT ![p] = [ln EXCEPT !.last = last, !.lin = i.lin]]
           /\ queue' = [queue EXCEPT ![p] = @ \o ms] /\ given' = [given EXCEPT ![p] = @ \o ms]
           /\ S!Acts(p)
<1> DEFINE q     == Other(p)
           from  == LastIn(ln, i)
           fresh == Past(i.msgs, from)
           ms    == [n \in 1 .. Len(fresh) |-> fresh[n].id]
           last  == IF fresh = <<>> THEN from ELSE fresh[Len(fresh)].seq
           r     == Answered(AllWritten(o, ids), i, fresh, last)
<1>1. /\ doc' = [doc EXCEPT ![p] = [d \in Docs |-> IF d = "outbox" THEN r ELSE i]]
      /\ line' = [line EXCEPT ![p] = [ln EXCEPT !.last = last, !.lin = i.lin]]
      /\ queue' = [queue EXCEPT ![p] = @ \o ms] /\ given' = [given EXCEPT ![p] = @ \o ms]
      /\ Advances(p, r.lin, ids, i.lin, last, author, log, high, author', log', high')
  BY DEF Processes, Advances
<1>2. /\ o \in Versions(p) /\ i \in Copies(q) /\ (o.lin = Genesis => p \notin Writers)
  BY DEF Handles
<1>3. /\ VersionIn(o, p, author, log, high) /\ VersionIn(i, q, author, log, high) /\ Sound(o) /\ Sound(i)
      /\ o.lin \in {Genesis} \cup Lineages /\ i.lin \in {Genesis} \cup Lineages
      /\ (o.lin # Genesis => author[o.lin] = p) /\ (i.lin # Genesis => author[i.lin] = q)
  BY <1>2, HandlesTypes
<1>4. /\ Lineage(o) \in Lineages /\ author[Lineage(o)] \in {p, "nobody"}
      /\ o.lin = Genesis => log[Lineage(o)] = <<>> /\ author[Lineage(o)] = "nobody"
      /\ o.lin # Genesis => Len(log[o.lin]) = o.next - 1
  BY LineageIs
<1>5. Gives(p, i, from, last, ms) /\ (fresh = <<>> <=> ms = <<>>) /\ (fresh # <<>> => i.lin # Genesis /\ from < last)
  BY <1>2, GivesIs
<1> HIDE DEF from, fresh, ms, last, r, q
<1>6. last \in Nat /\ ms \in Seq(Message) /\ (i.lin = Genesis => last = 0)
      /\ (i.lin # Genesis => last <= Len(log[i.lin]) /\ high[i.lin] \in Nat)
  BY <1>5 DEF Gives
<1>7. /\ Sound(r) /\ r.next = o.next + Len(ids)
      /\ r.lin = (IF ids = <<>> /\ fresh = <<>> THEN o.lin ELSE Lineage(o))
      /\ r.ackSeq = (IF fresh = <<>> THEN o.ackSeq ELSE last)
      /\ r.ackLin = (IF fresh = <<>> THEN o.ackLin ELSE i.lin)
  <2>1. r = Answered(AllWritten(o, ids), i, fresh, last)
    BY DEF r
  <2> QED
    BY <2>1, <1>3, <1>4, <1>5, <1>6, OutboxBecomes
<1>8. StreamTypes(author, log, high) /\ Genesis \notin Lineages
  BY DEF TypesHold, Genesis, Lineages
<1>9. /\ r.lin \in {Genesis} \cup Lineages /\ (r.lin \in Lineages => author[r.lin] \in {p, "nobody"})
      /\ (ids # <<>> => r.lin \in Lineages) /\ r.lin \in {o.lin, Lineage(o)} /\ (o.lin # Genesis => r.lin = o.lin)
  BY <1>3, <1>4, <1>7, <1>8 DEF Lineage
<1>10. /\ StreamTypes(author', log', high') /\ Bounds(author', log', high')
       /\ Grown(author, log, high, author', log', high')
       /\ Advanced(p, r.lin, ids, i.lin, last, author, log, high, author', log', high')
  <2>1. i.lin \in Lineages => last <= Len(log[i.lin]) /\ author[i.lin] = Other(p)
    BY <1>3, <1>6, <1>8 DEF q
  <2> QED
    BY <2>1, <1>1, <1>6, <1>8, <1>9, StreamsAdvance
<1>11. VersionIn(r, p, author', log', high') /\ (r.lin # Genesis => Len(log'[r.lin]) = r.next - 1)
  <2>1. r = Answered(AllWritten(o, ids), i, fresh, last)
    BY DEF r
  <2>2. VersionIn(i, Other(p), author, log, high)
    BY <1>3 DEF q
  <2> QED
    BY <2>1, <2>2, <1>3, <1>4, <1>5, <1>6, <1>8, <1>10, OutboxAdvances
<1>12. fresh = <<>> => high' = high /\ last = from
  <2> SUFFICES ASSUME fresh = <<>> PROVE high' = high /\ last = from
    OBVIOUS
  <2>1. last = from
    BY DEF last
  <2>2. \A x \in Lineages : high'[x] = high[x]
    <3>1. i.lin \in Lineages => high'[i.lin] = high[i.lin]
      <4> SUFFICES ASSUME i.lin \in Lineages PROVE high'[i.lin] = high[i.lin]
        OBVIOUS
      <4>1. last <= high[i.lin] /\ high[i.lin] \in Nat
        BY <2>1, <1>8 DEF CursorIn, from, StreamTypes
      <4>2. high'[i.lin] = IF last > high[i.lin] THEN last ELSE high[i.lin]
        BY <1>10 DEF Advanced
      <4> QED
        BY <4>1, <4>2, <1>6
    <3> QED
      BY <3>1, <1>10 DEF Advanced
  <2>3. high \in [Lineages -> Nat] /\ high' \in [Lineages -> Nat]
    BY <1>8, <1>10 DEF StreamTypes
  <2> QED
    BY <2>1, <2>2, <2>3
<1>13. S!Acts(p)
  <2>1. i.lin # Genesis => author[i.lin] = Other(p)
    BY <1>3 DEF q
  <2>2. from \in Nat /\ (ms = <<>> => high' = high)
    BY <1>5, <1>12 DEF from
  <2> QED
    BY <2>1, <2>2, <1>1, <1>5, <1>9, <1>10, GivesActs
<1>14. CursorIn(p, last, i, high') /\ (i.lin # Genesis => high'[i.lin] = high[i.lin] \/ high'[i.lin] <= i.next - 1)
  <2>1. CASE fresh = <<>>
    BY <2>1, <1>12 DEF from
  <2>2. CASE fresh # <<>>
    <3>1. i.lin # Genesis /\ from < last /\ ms # <<>>
      BY <2>2, <1>5
    <3>2. i.lin \in Lineages /\ last = i.next - 1 /\ from \in Nat
      BY <3>1, <1>5 DEF Gives, from
    <3>3. high'[i.lin] = (IF last > high[i.lin] THEN last ELSE high[i.lin]) /\ high[i.lin] \in Nat
      BY <3>2, <1>6, <3>1, <1>10 DEF Advanced
    <3>4. p \notin anew => from = high[i.lin]
      BY <3>1 DEF CursorIn, from
    <3>5. last <= high'[i.lin] /\ (p \notin anew => last = high'[i.lin])
          /\ (high'[i.lin] = high[i.lin] \/ high'[i.lin] <= i.next - 1)
      BY <3>1, <3>2, <3>3, <3>4, <1>6
    <3> QED
      BY <3>1, <3>5 DEF CursorIn
  <2> QED
    BY <2>1, <2>2
<1>15. \A x \in Lineages \ {r.lin} : author'[x] = author[x] /\ log'[x] = log[x]
  BY <1>10 DEF Advanced
<1>16. \A x \in Lineages \ {i.lin} : high'[x] = high[x]
  BY <1>10 DEF Advanced
<1>17. \/ high' = high /\ r.ackSeq = o.ackSeq /\ r.ackLin = o.ackLin
       \/ i.lin # Genesis /\ r.ackLin = i.lin /\ r.ackSeq = last
  BY <1>5, <1>7, <1>12
<1>18. Handled(p, o, r, i, last)
  BY <1>9, <1>10, <1>11, <1>14, <1>15, <1>16, <1>17 DEF Handled
<1> QED
  BY <1>1, <1>6, <1>13, <1>18

\* Appending to what a peer has.
LEMMA AppendsTo ==
  ASSUME NEW X, NEW f \in [Peer -> Seq(X)], NEW p \in Peer, NEW s \in Seq(X), NEW g, g = [f EXCEPT ![p] = @ \o s]
  PROVE  g \in [Peer -> Seq(X)]
<1>1. f[p] \o s \in Seq(X)
  OBVIOUS
<1> DEFINE t == f[p] \o s
<1>2. g = [f EXCEPT ![p] = t] /\ t \in Seq(X)
  BY <1>1
<1> HIDE DEF t
<1> QED
  BY <1>2

LEMMA ProcessesKeeps ==
  ASSUME LineInv, NEW p \in Peer, NEW o, NEW i, Handles(p, o, i), NEW ids \in Seq(Message),
         NEW ln \in LineType, ln.open, ln.unsent = <<>>, CursorIn(p, LastIn(ln, i), i, high),
         Processes(p, AllWritten(o, ids), i, ln, ids),
         phase' \in [Peer -> [Docs -> {"absent", "loading", "ready"}]], phase'[Other(p)] = phase[Other(p)],
         \A d \in Docs : phase'[p][d] = "ready" /\ d \notin deleting[p],
         UNCHANGED <<disk, deleting, wire, lost, anew, sends, restarts>>
  PROVE  LineInv' /\ S!Acts(p)
<1>1. TypesHold /\ VersionsHold /\ MintingHolds /\ Bounds(author, log, high)
  BY DEF LineInv
<1>2. LastIn(ln, i) \in Nat
  BY DEF LastIn, LineType
<1>3. PICK r, last, ms :
        /\ Handled(p, o, r, i, last) /\ last \in Nat /\ ms \in Seq(Message)
        /\ doc' = [doc EXCEPT ![p] = [d \in Docs |-> IF d = "outbox" THEN r ELSE i]]
        /\ line' = [line EXCEPT ![p] = [ln EXCEPT !.last = last, !.lin = i.lin]]
        /\ queue' = [queue EXCEPT ![p] = @ \o ms] /\ given' = [given EXCEPT ![p] = @ \o ms]
        /\ S!Acts(p)
  BY <1>1, <1>2, Processed
<1>4. Other(p) \in Peer /\ Other(p) # p /\ p \in Peer
  BY TwoPeers
<1>5. /\ doc \in [Peer -> [Docs -> DocType]] /\ line \in [Peer -> LineType]
      /\ queue \in [Peer -> Seq(Message)] /\ given \in [Peer -> Seq(Message)]
  BY <1>1 DEF TypesHold, LineType
<1>6. r \in DocType /\ i \in DocType /\ i.lin \in {Genesis} \cup Lineages
  <2>1. Sound(i) /\ i.lin \in {Genesis} \cup Lineages
    BY <1>1, HandlesTypes DEF Handles
  <2>2. Sound(r)
    BY <1>3 DEF Handled, VersionIn
  <2> QED
    BY <2>1, <2>2 DEF Sound
<1> DEFINE docs == [d \in Docs |-> IF d = "outbox" THEN r ELSE i]
           ln2 == [ln EXCEPT !.last = last, !.lin = i.lin]
<1>7. docs \in [Docs -> DocType] /\ docs["outbox"] = r /\ docs["inbox"] = i
  BY <1>6 DEF Docs
<1>8. ln2 \in LineType /\ ln2.open /\ ln2.unsent = <<>> /\ ln2.last = last /\ ln2.lin = i.lin
  BY <1>3, <1>6 DEF LineType
<1>9. doc' = [doc EXCEPT ![p] = docs] /\ line' = [line EXCEPT ![p] = ln2]
  BY <1>3
<1> HIDE DEF docs, ln2
<1>10. doc' \in [Peer -> [Docs -> DocType]] /\ doc'[p] = docs /\ doc'[Other(p)] = doc[Other(p)]
  BY <1>4, <1>5, <1>7, <1>9
<1>11. line' \in [Peer -> LineType] /\ line'[p] = ln2 /\ line'[Other(p)] = line[Other(p)]
  BY <1>4, <1>5, <1>8, <1>9
<1>12. queue' \in [Peer -> Seq(Message)] /\ given' \in [Peer -> Seq(Message)]
  BY <1>3, <1>5, AppendsTo
<1>13. TypesHold'
  <2>1. StreamTypes(author', log', high')
    BY <1>3 DEF Handled
  <2> QED
    BY <2>1, <1>1, <1>10, <1>11, <1>12 DEF TypesHold, LineType
<1>14. HandlingStep(p, o, i, r, last)
  BY <1>3, <1>7, <1>8, <1>10, <1>11 DEF HandlingStep
<1> QED
  BY <1>3, <1>13, <1>14, HandlingKeeps

\* A Line that resumes has its cursor where the outbox acknowledged.
LEMMA ResumesKeeps ==
  ASSUME LineInv, NEW p \in Peer, NEW o, NEW i, Handles(p, o, i), NEW ln \in LineType, ln.open,
         Resumes(p, o, i, ln),
         phase' \in [Peer -> [Docs -> {"absent", "loading", "ready"}]], phase'[Other(p)] = phase[Other(p)],
         \A d \in Docs : phase'[p][d] = "ready" /\ d \notin deleting[p],
         UNCHANGED <<disk, deleting, wire, lost, anew, sends, restarts>>
  PROVE  LineInv' /\ S!Acts(p)
<1> DEFINE last == IF o.ackLin = i.lin THEN o.ackSeq ELSE 0
           res  == Resumed(ln, o, i)
<1>1. TypesHold /\ VersionsHold /\ MintingHolds /\ Bounds(author, log, high)
  BY DEF LineInv
<1>2. /\ VersionIn(o, p, author, log, high) /\ Sound(o) /\ i.lin \in {Genesis} \cup Lineages
      /\ (p \notin anew => AckIn(p, o, i, author, high))
  BY <1>1, HandlesTypes DEF Handles
<1>3. o.ackSeq \in Nat /\ last \in Nat
  BY <1>2, SoundTypes
<1>4. CursorIn(p, last, i, high)
  <2>1. i.lin = Genesis => last = 0
    BY <1>2 DEF Sound
  <2>2. i.lin # Genesis => last <= high[i.lin]
    <3>1. o.ackLin # Genesis => o.ackSeq <= high[o.ackLin]
      BY <1>2 DEF VersionIn, AcksIn
    <3>2. i.lin # Genesis => high[i.lin] \in Nat
      BY <1>1, <1>2 DEF TypesHold, StreamTypes
    <3> QED
      BY <3>1, <3>2
  <2>3. i.lin # Genesis /\ p \notin anew => last = high[i.lin]
    BY <1>2 DEF AckIn
  <2> QED
    BY <2>1, <2>2, <2>3 DEF CursorIn
<1> HIDE DEF last
<1>5. res = [ln EXCEPT !.resumed = TRUE, !.unsent = <<>>, !.lin = i.lin, !.last = last]
  BY DEF Resumed, last
<1>6. res \in LineType /\ res.open /\ res.unsent = <<>> /\ res.lin = i.lin /\ res.last = last
  <2>1. <<>> \in Seq(Message) /\ last \in Nat /\ i.lin \in {Genesis} \cup Lineages
    BY <1>2, <1>3
  <2> DEFINE none == <<>>
             lin == i.lin
  <2> HIDE DEF none, lin
  <2>2. none \in Seq(Message) /\ last \in Nat /\ lin \in {Genesis} \cup Lineages
    BY <2>1 DEF none, lin
  <2>3. res = [ln EXCEPT !.resumed = TRUE, !.unsent = none, !.lin = lin, !.last = last]
    BY <1>5 DEF none, lin
  <2>4. res \in LineType /\ res.open = ln.open /\ res.unsent = none /\ res.lin = lin /\ res.last = last
    BY <2>2, <2>3 DEF LineType
  <2> QED
    BY <2>4 DEF none, lin
<1>7. ln.unsent \in Seq(Message)
  BY DEF LineType
<1>8. Processes(p, AllWritten(o, ln.unsent), i, res, ln.unsent)
  BY DEF Resumes
<1> HIDE DEF res
<1>9. LastIn(res, i) = last
  BY <1>6 DEF LastIn
<1> QED
  BY <1>4, <1>6, <1>7, <1>8, <1>9, ProcessesKeeps

-----------------------------------------------------------------------------
(* What a peer handles: its documents in memory, one that was just loaded, or an offer. *)

\* An outbox whose writer's store holds the same is stored first.
LEMMA StoredSelf ==
  ASSUME VersionsHold, Bounds(author, log, high), NEW p \in Peer, NEW o \in Versions(p),
         o.lin # Genesis => Len(log[o.lin]) = o.next - 1
  PROVE  StoredIn(o, o, Copies(p), log, high)
<1>1. CASE o.lin = Genesis
  BY <1>1 DEF StoredIn
<1>2. CASE o.lin # Genesis
  <2>1. Sound(o) /\ o.lin \in Lineages /\ o.next \in Nat
    BY <1>2, SoundTypes DEF VersionsHold, VersionIn
  <2>2. Len(log[o.lin]) = o.next - 1 /\ high[o.lin] <= o.next - 1
    BY <1>2, <2>1 DEF Bounds
  <2>3. ASSUME NEW c \in Copies(p), c.lin = o.lin PROVE c.next <= o.next
    <3>1. c \in Versions(p)
      BY DEF Versions
    <3>2. Sound(c) /\ c.next - 1 <= Len(log[c.lin])
      BY <1>2, <2>3, <3>1 DEF VersionsHold, VersionIn, OutboxIn
    <3>3. c.next \in Nat
      BY <3>2, SoundTypes
    <3> QED
      BY <2>1, <2>2, <2>3, <3>2, <3>3
  <2> QED
    BY <1>2, <2>2, <2>3 DEF StoredIn
<1> QED
  BY <1>1, <1>2

LEMMA HandlesOwn ==
  ASSUME LineInv, NEW p \in Peer, phase[p]["outbox"] = "ready"
  PROVE  Handles(p, doc[p]["outbox"], doc[p]["inbox"])
<1>1. PeerHolds(p)
  BY DEF LineInv
<1>2. doc[p]["outbox"] \in Versions(p) /\ doc[p]["inbox"] \in Copies(Other(p))
  BY TwoPeers DEF Versions, Copies
<1>3. StoredIn(doc[p]["outbox"], disk[p]["outbox"], Copies(p), log, high)
  BY <1>1 DEF PeerHolds, StoredFirst
<1>4. p \notin anew => AckIn(p, doc[p]["outbox"], doc[p]["inbox"], author, high)
  BY <1>1 DEF PeerHolds, AckHolds
<1>5. doc[p]["outbox"].lin = Genesis => p \notin Writers
  BY DEF Writers
<1> QED
  BY <1>2, <1>3, <1>4, <1>5 DEF Handles

\* The documents of p once d is loaded.
With(p, d) == [doc[p] EXCEPT ![d] = disk[p][d]]

LEMMA HandlesLoaded ==
  ASSUME LineInv, NEW p \in Peer, NEW d \in Docs, phase[p][d] = "loading",
         phase[p]["outbox"] = "ready" \/ d = "outbox"
  PROVE  Handles(p, With(p, d)["outbox"], With(p, d)["inbox"])
<1>1. PeerHolds(p) /\ TypesHold /\ PhasesHold /\ VersionsHold /\ Bounds(author, log, high)
  BY DEF LineInv
<1>2. doc[p] \in [Docs -> DocType] /\ Docs = {"outbox", "inbox"}
  BY <1>1 DEF TypesHold, Docs
<1>3. doc[p][d] = Empty /\ (p \notin anew => disk[p][d] = Empty)
  BY <1>1 DEF PhasesHold, PeerHolds, AckHolds
<1>4. p \notin anew => With(p, d) = doc[p]
  BY <1>2, <1>3 DEF With
<1>5. p \notin anew => AckIn(p, With(p, d)["outbox"], With(p, d)["inbox"], author, high)
  BY <1>1, <1>4 DEF PeerHolds, AckHolds
<1>6. CASE d = "outbox"
  <2>1. With(p, d)["outbox"] = disk[p]["outbox"] /\ With(p, d)["inbox"] = doc[p]["inbox"]
    BY <1>2, <1>6 DEF With
  <2>2. disk[p]["outbox"] \in Versions(p) /\ doc[p]["inbox"] \in Copies(Other(p))
    BY TwoPeers DEF Versions, Copies
  <2>3. disk[p]["outbox"].lin # Genesis => Len(log[disk[p]["outbox"].lin]) = disk[p]["outbox"].next - 1
    BY <1>1, <1>6 DEF PeerHolds, StoredFirst
  <2>4. StoredIn(disk[p]["outbox"], disk[p]["outbox"], Copies(p), log, high)
    BY <1>1, <2>2, <2>3, StoredSelf
  <2>5. p \notin Writers
    BY <1>3, <1>6 DEF Writers, Empty
  <2> QED
    BY <1>5, <2>1, <2>2, <2>4, <2>5 DEF Handles
<1>7. CASE d # "outbox"
  <2>1. With(p, d)["outbox"] = doc[p]["outbox"] /\ With(p, d)["inbox"] = disk[p]["inbox"] /\ phase[p]["outbox"] = "ready"
    BY <1>2, <1>7 DEF With
  <2>2. disk[p]["inbox"] \in Copies(Other(p))
    BY TwoPeers DEF Versions, Copies
  <2>3. Handles(p, doc[p]["outbox"], doc[p]["inbox"])
    BY <2>1, HandlesOwn
  <2> QED
    BY <1>5, <2>1, <2>2, <2>3 DEF Handles
<1> QED
  BY <1>6, <1>7

\* An offer that supersedes the inbox, or continues it: of a later stream nothing was given.
LEMMA NewerAck ==
  ASSUME LineInv, NEW p \in Peer, p \notin anew, NEW w, w = wire[Other(p)], Newer(w, doc[p]["inbox"])
  PROVE  AckIn(p, doc[p]["outbox"], w, author, high)
<1> DEFINE o == doc[p]["outbox"]
           i == doc[p]["inbox"]
<1>1. AckIn(p, o, i, author, high)
  BY DEF LineInv, PeerHolds, AckHolds
<1>2. o \in Versions(p) /\ i \in Copies(Other(p)) /\ w \in Copies(Other(p))
  BY TwoPeers DEF Versions, Copies
<1> HIDE DEF o, i
<1>3. /\ i.lin \in Nat /\ w.lin \in Nat /\ w.lin \in {Genesis} \cup Lineages /\ Sound(o)
      /\ (w.lin # Genesis => author[w.lin] = Other(p))
  BY <1>2, HandlesTypes DEF LineInv
<1>4. o.ackLin \in Nat /\ Lineages \subseteq Nat
  BY <1>3, SoundTypes DEF Lineages
<1>5. CASE w.lin = i.lin
  BY <1>1, <1>5 DEF AckIn, o
<1>6. CASE w.lin > i.lin
  <2>1. o.ackLin < w.lin
    BY <1>1, <1>3, <1>4, <1>6 DEF AckIn
  <2>2. \A l \in Lineages : l > w.lin /\ author[l] # p => high[l] = 0
    BY <1>1, <1>3, <1>4, <1>6 DEF AckIn
  <2>3. w.lin # Genesis => high[w.lin] = 0
    BY <1>1, <1>3, <1>6, TwoPeers DEF AckIn
  <2>4. o.ackLin <= w.lin /\ o.ackLin # w.lin
    BY <2>1, <1>3, <1>4
  <2> QED
    BY <2>2, <2>3, <2>4 DEF AckIn, o
<1> QED
  BY <1>5, <1>6 DEF Newer, i

LEMMA HandlesOffer ==
  ASSUME LineInv, NEW p \in Peer, phase[p]["outbox"] = "ready", NEW w, w = wire[Other(p)], Newer(w, doc[p]["inbox"])
  PROVE  Handles(p, doc[p]["outbox"], w)
<1>1. Handles(p, doc[p]["outbox"], doc[p]["inbox"])
  BY HandlesOwn
<1>2. w \in Copies(Other(p))
  BY DEF Copies
<1>3. p \notin anew => AckIn(p, doc[p]["outbox"], w, author, high)
  BY NewerAck
<1> QED
  BY <1>1, <1>2, <1>3 DEF Handles

-----------------------------------------------------------------------------
(* Steps that leave the streams alone. *)

Kept == LineInv' /\ [S!Next]_(S!vars)

\* What the invariant says of a peer, when a step leaves alone what it says it of.
LEMMA StoredStays ==
  ASSUME NEW p \in Peer, StoredFirst(p), UNCHANGED <<log, high>>,
         phase'[p]["outbox"] = "ready" <=> phase[p]["outbox"] = "ready",
         doc'[p]["outbox"] = doc[p]["outbox"], disk'[p]["outbox"] = disk[p]["outbox"],
         Copies(p)' \subseteq Copies(p) \cup {Empty}
  PROVE  StoredFirst(p)'
<1> DEFINE o == doc[p]["outbox"]
           d == disk[p]["outbox"]
<1>1. Empty.lin = Genesis
  BY DEF Empty
<1> HIDE DEF o, d
<1>2. ASSUME StoredIn(o, d, Copies(p), log, high) PROVE StoredIn(o, d, Copies(p)', log, high)
  BY <1>1, <1>2 DEF StoredIn
<1>3. /\ doc'[p]["outbox"] = o /\ disk'[p]["outbox"] = d /\ log' = log /\ high' = high
  BY DEF o, d
<1>4. phase[p]["outbox"] = "ready" => StoredIn(o, d, Copies(p), log, high)
  BY DEF StoredFirst, o, d
<1>5. phase[p]["outbox"] # "ready" /\ d.lin # Genesis => Len(log[d.lin]) = d.next - 1
  BY DEF StoredFirst, d
<1> QED
  BY <1>2, <1>3, <1>4, <1>5 DEF StoredFirst

LEMMA CursorStays ==
  ASSUME NEW p \in Peer, CursorHolds(p), UNCHANGED <<high, anew>>,
         line'[p].resumed => line'[p] = line[p] /\ doc'[p]["inbox"] = doc[p]["inbox"] /\ phase'[p] = phase[p]
  PROVE  CursorHolds(p)'
BY DEF CursorHolds, CursorIn

LEMMA AckStays ==
  ASSUME NEW p \in Peer, AckHolds(p), UNCHANGED <<author, high, anew>>,
         doc'[p] = doc[p], deleting'[p] = deleting[p],
         \A d \in Docs : phase'[p][d] # "ready" /\ p \notin anew => disk'[p][d] = Empty
  PROVE  AckHolds(p)'
BY DEF AckHolds, AckIn

LEMMA OtherStays ==
  ASSUME NEW p \in Peer, PeerHolds(p), UNCHANGED <<author, log, high, anew>>,
         phase'[p] = phase[p], doc'[p] = doc[p], disk'[p] = disk[p], line'[p] = line[p], deleting'[p] = deleting[p],
         Copies(p)' \subseteq Copies(p) \cup {Empty}
  PROVE  PeerHolds(p)'
<1>1. StoredFirst(p)'
  BY StoredStays DEF PeerHolds
<1>2. CursorHolds(p)'
  BY CursorStays DEF PeerHolds
<1>3. AckHolds(p)'
  BY AckStays DEF PeerHolds, AckHolds
<1> QED
  BY <1>1, <1>2, <1>3 DEF PeerHolds

LEMMA QuietKeeps ==
  ASSUME LineInv, UNCHANGED <<author, log, high, given, anew>>, TypesHold', PhasesHold',
         \A p \in Peer : Versions(p)' \subseteq Versions(p) \cup {Empty},
         Writers \subseteq Writers', restarts <= restarts',
         \A p \in Peer : PeerHolds(p)'
  PROVE  Kept
<1>1. TypesHold /\ VersionsHold /\ MintingHolds /\ Bounds(author, log, high)
  BY DEF LineInv
<1>2. StreamTypes(author, log, high)
  BY <1>1 DEF TypesHold
<1>3. Grown(author, log, high, author', log', high')
  BY <1>2 DEF Grown, StreamTypes
<1>4. VersionsHold'
  <2>1. \A p \in Peer : \A c \in Versions(p)' : c \in Versions(p) \/ c = Empty \/ VersionIn(c, p, author', log', high')
    OBVIOUS
  <2> QED
    BY <1>1, <1>2, <1>3, <2>1, VersionsGrow
<1>5. MintingHolds'
  <2>1. Cardinality(Writers) <= Cardinality(Writers') /\ Cardinality(Writers) \in Nat /\ Cardinality(Writers') \in Nat
    <3>1. Writers \subseteq Peer /\ Writers' \subseteq Peer
      BY DEF Writers
    <3> QED
      BY <3>1, SomePeers, FS_Subset
  <2>2. restarts \in Nat /\ restarts' \in Nat
    BY <1>1 DEF TypesHold
  <2>3. PICK k \in Nat : (\A l \in Lineages : author[l] # "nobody" <=> l <= k) /\ k <= restarts + Cardinality(Writers)
    BY <1>1 DEF MintingHolds
  <2>4. k <= restarts' + Cardinality(Writers')
    BY <2>1, <2>2, <2>3
  <2> QED
    BY <2>3, <2>4 DEF MintingHolds
<1>6. Bounds(author', log', high')
  BY <1>1
<1>7. LineInv'
  BY <1>4, <1>5, <1>6 DEF LineInv
<1> QED
  BY <1>7 DEF Kept, S!vars

-----------------------------------------------------------------------------
(* Each action keeps the invariant and is a step of the streams. *)

\* The Line before it is opened, and as it is.
LEMMA NoLineType ==
  /\ NoLine \in LineType /\ ~NoLine.resumed
  /\ [NoLine EXCEPT !.open = TRUE] \in LineType /\ [NoLine EXCEPT !.open = TRUE].open
  /\ ~[NoLine EXCEPT !.open = TRUE].resumed
<1>1. <<>> \in Seq(Message) /\ Genesis \in {Genesis} \cup Lineages
  OBVIOUS
<1>2. NoLine \in LineType /\ ~NoLine.resumed
  BY <1>1 DEF NoLine, LineType
<1> QED
  BY <1>2 DEF LineType

LEMMA ActsKept ==
  ASSUME NEW p \in Peer, LineInv', S!Acts(p)
  PROVE  Kept
BY DEF Kept, S!Next

\* Open: a Line whose documents are both in memory resumes at once.
LEMMA OpenKept ==
  ASSUME LineInv, NEW p \in Peer, Open(p)
  PROVE  Kept
<1> DEFINE ln == [NoLine EXCEPT !.open = TRUE]
           phases == [d \in Docs |-> IF phase[p][d] = "absent" THEN "loading" ELSE phase[p][d]]
<1>1. TypesHold /\ PhasesHold /\ \A x \in Peer : PeerHolds(x)
  BY DEF LineInv
<1>2. ln \in LineType /\ ln.open /\ ~ln.resumed
  BY NoLineType
<1>3. phase \in [Peer -> [Docs -> {"absent", "loading", "ready"}]] /\ phase' = [phase EXCEPT ![p] = phases]
  BY <1>1 DEF Open, TypesHold
<1>4. phases \in [Docs -> {"absent", "loading", "ready"}] /\ \A d \in Docs : phases[d] = "ready" <=> phase[p][d] = "ready"
  <2>1. phase[p] \in [Docs -> {"absent", "loading", "ready"}]
    BY <1>3
  <2> QED
    BY <2>1
<1> HIDE DEF ln, phases
<1>5. /\ phase' \in [Peer -> [Docs -> {"absent", "loading", "ready"}]] /\ phase'[p] = phases
      /\ \A x \in Peer \ {p} : phase'[x] = phase[x]
  BY <1>3, <1>4
<1>6. UNCHANGED <<disk, deleting, wire, lost, anew, sends, restarts>>
  BY DEF Open, store, counters
<1>7. CASE \A d \in Docs : phase[p][d] = "ready"
  <2> DEFINE o == doc[p]["outbox"]
             i == doc[p]["inbox"]
  <2>1. Resumes(p, o, i, ln)
    BY <1>7 DEF Open, ln
  <2>2. Handles(p, o, i)
    BY <1>7, HandlesOwn DEF Docs
  <2>3. \A d \in Docs : phase'[p][d] = "ready" /\ d \notin deleting[p]
    BY <1>1, <1>4, <1>5, <1>7 DEF PhasesHold
  <2>4. phase'[Other(p)] = phase[Other(p)]
    BY <1>5, TwoPeers
  <2> HIDE DEF o, i
  <2>5. LineInv' /\ S!Acts(p)
    BY <1>2, <1>5, <1>6, <2>1, <2>2, <2>3, <2>4, ResumesKeeps
  <2> QED
    BY <2>5, ActsKept
<1>8. CASE ~\A d \in Docs : phase[p][d] = "ready"
  <2>1. line' = [line EXCEPT ![p] = ln] /\ UNCHANGED <<doc, queue, given, author, log, high>>
    BY <1>8 DEF Open, ln, stream
  <2>2. line \in [Peer -> LineType] /\ line' \in [Peer -> LineType] /\ line'[p] = ln /\ \A x \in Peer \ {p} : line'[x] = line[x]
    BY <1>1, <1>2, <2>1 DEF TypesHold, LineType
  <2>3. TypesHold'
    BY <1>1, <1>5, <1>6, <2>1, <2>2 DEF TypesHold, LineType
  <2>4. \A x \in Peer, d \in Docs : phase'[x][d] = "ready" <=> phase[x][d] = "ready"
    BY <1>4, <1>5
  <2>5. PhasesHold'
    BY <1>1, <1>6, <2>1, <2>4 DEF PhasesHold
  <2>6. \A x \in Peer : Copies(x)' = Copies(x) /\ Versions(x)' = Versions(x)
    BY <1>6, <2>1 DEF Copies, Versions
  <2>7. Writers' = Writers /\ restarts \in Nat
    BY <1>1, <2>1 DEF Writers, TypesHold
  <2>8. PeerHolds(p)'
    <3>1. StoredFirst(p)'
      BY <1>1, <1>6, <2>1, <2>4, <2>6, StoredStays DEF PeerHolds, Docs
    <3>2. CursorHolds(p)'
      BY <1>2, <2>2 DEF CursorHolds
    <3>3. AckHolds(p)'
      BY <1>1, <1>6, <2>1, <2>4, AckStays DEF PeerHolds, AckHolds
    <3> QED
      BY <3>1, <3>2, <3>3 DEF PeerHolds
  <2>9. \A x \in Peer \ {p} : PeerHolds(x)'
    <3> SUFFICES ASSUME NEW x \in Peer \ {p} PROVE PeerHolds(x)'
      OBVIOUS
    <3>1. Copies(x)' \subseteq Copies(x) \cup {Empty}
      BY <2>6
    <3> QED
      BY <1>1, <1>5, <1>6, <2>1, <2>2, <3>1, OtherStays
  <2> QED
    BY <1>6, <2>1, <2>3, <2>5, <2>6, <2>7, <2>8, <2>9, QuietKeeps
<1> QED
  BY <1>7, <1>8

\* Close: the Line is dropped.
LEMMA CloseKept ==
  ASSUME LineInv, NEW p \in Peer, Close(p)
  PROVE  Kept
<1>1. TypesHold /\ PhasesHold /\ \A x \in Peer : PeerHolds(x)
  BY DEF LineInv
<1>2. /\ line' = [line EXCEPT ![p] = NoLine] /\ restarts' = restarts + 1 /\ restarts < MaxRestarts
      /\ UNCHANGED <<phase, doc, disk, deleting, wire, queue, given, author, log, high, lost, anew, sends>>
  BY DEF Close, store, stream
<1>3. line' \in [Peer -> LineType] /\ ~line'[p].resumed /\ \A x \in Peer \ {p} : line'[x] = line[x]
  BY <1>1, <1>2, NoLineType DEF TypesHold, LineType
<1>4. restarts \in Nat /\ restarts' \in 0 .. MaxRestarts /\ restarts <= restarts'
  BY <1>1, <1>2, LineAssumption DEF TypesHold
<1>5. TypesHold'
  BY <1>1, <1>2, <1>3, <1>4 DEF TypesHold, LineType
<1>6. PhasesHold'
  BY <1>1, <1>2 DEF PhasesHold
<1>7. \A x \in Peer : Copies(x)' = Copies(x) /\ Versions(x)' = Versions(x)
  BY <1>2 DEF Copies, Versions
<1>8. PeerHolds(p)'
  <2>1. StoredFirst(p)'
    BY <1>1, <1>2, <1>7, StoredStays DEF PeerHolds
  <2>2. CursorHolds(p)'
    BY <1>3 DEF CursorHolds
  <2>3. AckHolds(p)'
    BY <1>1, <1>2, AckStays DEF PeerHolds, AckHolds
  <2> QED
    BY <2>1, <2>2, <2>3 DEF PeerHolds
<1>9. \A x \in Peer \ {p} : PeerHolds(x)'
  <2> SUFFICES ASSUME NEW x \in Peer \ {p} PROVE PeerHolds(x)'
    OBVIOUS
  <2>1. Copies(x)' \subseteq Copies(x) \cup {Empty}
    BY <1>7
  <2> QED
    BY <1>1, <1>2, <1>3, <2>1, OtherStays
<1>10. Writers' = Writers
  BY <1>2 DEF Writers
<1> QED
  BY <1>2, <1>4, <1>5, <1>6, <1>7, <1>8, <1>9, <1>10, QuietKeeps

LEMMA AppendIs ==
  ASSUME NEW X, NEW s \in Seq(X), NEW m
  PROVE  Append(s, m) = s \o <<m>>
OBVIOUS

\* A message written at once is one step of the outbox's stream.
LEMMA SendWrites ==
  ASSUME LineInv, NEW p \in Peer, line[p].resumed, NEW m \in Message, NEW r, r = Written(doc[p]["outbox"], m),
         doc' = [doc EXCEPT ![p]["outbox"] = r], sends' \in [Peer -> Nat],
         Advances(p, r.lin, <<m>>, Genesis, 0, author, log, high, author', log', high'),
         UNCHANGED <<phase, disk, deleting, wire, line, queue, given, lost, anew, restarts>>
  PROVE  Kept
<1> DEFINE o    == doc[p]["outbox"]
           i    == doc[p]["inbox"]
           last == line[p].last
           ids  == <<m>>
<1>1. TypesHold /\ PhasesHold /\ VersionsHold /\ MintingHolds /\ Bounds(author, log, high) /\ CursorHolds(p)
  BY DEF LineInv, PeerHolds
<1>2. /\ line[p].open /\ line[p].unsent = <<>> /\ \A d \in Docs : phase[p][d] = "ready"
      /\ line[p].lin = i.lin /\ CursorIn(p, last, i, high)
  BY <1>1 DEF CursorHolds
<1>3. Handles(p, o, i)
  BY <1>2, HandlesOwn DEF Docs
<1>4. VersionIn(o, p, author, log, high) /\ Sound(o) /\ o.lin \in {Genesis} \cup Lineages
  BY <1>1, <1>3, HandlesTypes DEF Handles
<1>5. /\ Lineage(o) \in Lineages /\ author[Lineage(o)] \in {p, "nobody"}
      /\ o.lin = Genesis => log[Lineage(o)] = <<>> /\ author[Lineage(o)] = "nobody"
      /\ o.lin # Genesis => Len(log[o.lin]) = o.next - 1
  BY <1>1, <1>3, LineageIs
<1>6. doc[p] \in [Docs -> DocType] /\ doc \in [Peer -> [Docs -> DocType]] /\ Docs = {"outbox", "inbox"}
  BY <1>1 DEF TypesHold, Docs
<1>7. r = AllWritten(o, ids)
  BY DEF Written
<1> HIDE DEF o, i, last
<1>8. ids \in Seq(Message) /\ ids # <<>>
  OBVIOUS
<1>9. StreamTypes(author, log, high)
  BY <1>1 DEF TypesHold
<1> HIDE DEF ids
<1>10. Sound(r) /\ r.lin = Lineage(o) /\ r.ackSeq = o.ackSeq /\ r.ackLin = o.ackLin /\ r \in DocType
  BY <1>4, <1>5, <1>7, <1>8, WrittenIs DEF Sound
<1>11. r = Answered(AllWritten(o, ids), Empty, <<>>, 0) /\ Empty.lin = Genesis /\ Genesis \notin Lineages
  BY <1>7 DEF Answered, Pruned, Empty, Genesis, Lineages
<1>12. Advances(p, r.lin, ids, Genesis, 0, author, log, high, author', log', high') /\ high' = high
  BY DEF Advances, ids
<1>13. /\ StreamTypes(author', log', high') /\ Bounds(author', log', high')
       /\ Grown(author, log, high, author', log', high')
       /\ Advanced(p, r.lin, ids, Genesis, 0, author, log, high, author', log', high')
  <2>1. 0 \in Nat /\ r.lin \in {Genesis} \cup Lineages /\ (r.lin \in Lineages => author[r.lin] \in {p, "nobody"})
        /\ (ids # <<>> => r.lin \in Lineages) /\ (Genesis \in Lineages => 0 <= Len(log[Genesis]) /\ author[Genesis] = Other(p))
    BY <1>5, <1>10, <1>11
  <2>2. Bounds(author, log, high)
    BY <1>1
  <2> QED
    BY <2>1, <2>2, <1>8, <1>9, <1>12, StreamsAdvance
<1>14. VersionIn(r, p, author', log', high') /\ (r.lin # Genesis => Len(log'[r.lin]) = r.next - 1)
  <2>1. VersionIn(Empty, Other(p), author, log, high)
    BY EmptyIs
  <2>2. Advanced(p, r.lin, ids, Empty.lin, 0, author, log, high, author', log', high')
    BY <1>11, <1>13
  <2>3. 0 \in Nat /\ (<<>> # <<>> => Empty.lin # Genesis) /\ Lineage(o) \in Lineages
    BY <1>5
  <2>4. r = Answered(AllWritten(o, ids), Empty, <<>>, 0)
    BY <1>11
  <2> QED
    BY <2>1, <2>2, <2>3, <2>4, <1>4, <1>5, <1>8, <1>9, <1>13, OutboxAdvances
<1>15. Handled(p, o, r, i, last)
  <2>1. \A x \in Lineages \ {r.lin} : author'[x] = author[x] /\ log'[x] = log[x]
    BY <1>13 DEF Advanced
  <2>2. r.lin \in {o.lin, Lineage(o)} /\ (o.lin # Genesis => r.lin = o.lin)
    BY <1>10 DEF Lineage
  <2>3. CursorIn(p, last, i, high') /\ high' = high
    BY <1>2, <1>12
  <2> QED
    BY <1>10, <1>13, <1>14, <2>1, <2>2, <2>3 DEF Handled
<1>16. S!Acts(p)
  <2>1. S!Writes(p)
    BY <1>5, <1>8, <1>9, <1>10, <1>13, WritesIs
  <2> QED
    BY <2>1, <1>12 DEF S!Acts
<1>17. doc' \in [Peer -> [Docs -> DocType]] /\ doc'[p]["outbox"] = r /\ doc'[p]["inbox"] = i /\ doc'[Other(p)] = doc[Other(p)]
  BY <1>6, <1>10, TwoPeers DEF i
<1>18. TypesHold'
  BY <1>1, <1>13, <1>17 DEF TypesHold
<1>19. HandlingStep(p, o, i, r, last)
  BY <1>1, <1>2, <1>3, <1>15, <1>17 DEF HandlingStep, PhasesHold, last
<1> QED
  BY <1>16, <1>18, <1>19, HandlingKeeps, ActsKept

\* The stream it is written to.
LEMMA WritesTo ==
  ASSUME LineInv, NEW p \in Peer, line[p].resumed, NEW m \in Message
  PROVE  Written(doc[p]["outbox"], m).lin \in Lineages
<1> DEFINE o == doc[p]["outbox"]
           r == Written(o, m)
           ids == <<m>>
<1>1. Handles(p, o, doc[p]["inbox"])
  BY HandlesOwn DEF LineInv, PeerHolds, CursorHolds, Docs
<1> HIDE DEF o
<1>2. Sound(o) /\ Lineage(o) \in Lineages
  <2>1. TypesHold /\ VersionsHold /\ MintingHolds /\ Bounds(author, log, high)
    BY DEF LineInv
  <2>2. o \in Versions(p) /\ doc[p]["inbox"] \in Copies(Other(p))
    BY <1>1 DEF Handles
  <2> QED
    BY <1>1, <2>1, <2>2, HandlesTypes, LineageIs
<1>3. ids \in Seq(Message) /\ ids # <<>> /\ r = AllWritten(o, ids)
  BY DEF Written
<1> HIDE DEF r, ids
<1>4. r.lin = Lineage(o)
  BY <1>2, <1>3, WrittenIs
<1> QED
  BY <1>2, <1>4 DEF r, o

\* Send: a Line that has not resumed keeps the message.
LEMMA SendKept ==
  ASSUME LineInv, NEW p \in Peer, Send(p)
  PROVE  Kept
<1> DEFINE m == <<p, sends'[p]>>
<1>1. TypesHold /\ PhasesHold /\ \A x \in Peer : PeerHolds(x)
  BY DEF LineInv
<1>2. sends' \in [Peer -> Nat] /\ m \in Message
  <2>1. sends \in [Peer -> Nat] /\ sends' = [sends EXCEPT ![p] = @ + 1]
    BY <1>1 DEF Send, TypesHold
  <2>2. sends' \in [Peer -> Nat] /\ sends'[p] \in Nat \ {0}
    BY <2>1
  <2> QED
    BY <2>2 DEF Message
<1>3. UNCHANGED <<phase, disk, deleting, wire, queue, given, lost, anew, restarts>>
  BY DEF Send, store
<1>4. CASE line[p].resumed
  <2> DEFINE r == Written(doc[p]["outbox"], m)
  <2>1. /\ doc' = [doc EXCEPT ![p]["outbox"] = r] /\ author' = [author EXCEPT ![r.lin] = p]
        /\ log' = [log EXCEPT ![r.lin] = Append(@, m)] /\ UNCHANGED <<line, high>>
    BY <1>4 DEF Send
  <2> HIDE DEF m
  <2>2. r = Written(doc[p]["outbox"], m)
    OBVIOUS
  <2> HIDE DEF r
  <2>3. r.lin \in Lineages
    BY <1>1, <1>2, <1>4, <2>2, WritesTo
  <2>4. Advances(p, r.lin, <<m>>, Genesis, 0, author, log, high, author', log', high')
    <3>1. log[r.lin] \in Seq(Message)
      BY <1>1, <2>3 DEF TypesHold, StreamTypes
    <3>2. Append(log[r.lin], m) = log[r.lin] \o <<m>>
      BY <3>1, AppendIs
    <3>3. log' = [log EXCEPT ![r.lin] = log[r.lin] \o <<m>>]
      BY <2>1, <3>2
    <3>4. log' = IF <<m>> # <<>> THEN [log EXCEPT ![r.lin] = @ \o <<m>>] ELSE log
      BY <3>3
    <3>5. author' = IF r.lin \in Lineages THEN [author EXCEPT ![r.lin] = p] ELSE author
      BY <2>1, <2>3
    <3>6. high' = IF 0 > 0 /\ Genesis \in Lineages THEN [high EXCEPT ![Genesis] = IF 0 > @ THEN 0 ELSE @] ELSE high
      BY <2>1
    <3> QED
      BY <3>4, <3>5, <3>6 DEF Advances
  <2>5. doc' = [doc EXCEPT ![p]["outbox"] = r] /\ line' = line
    BY <2>1
  <2> QED
    BY <1>2, <1>3, <1>4, <2>2, <2>4, <2>5, SendWrites
<1>5. CASE ~line[p].resumed
  <2>1. line' = [line EXCEPT ![p].unsent = Append(@, m)] /\ UNCHANGED <<doc, author, log, high>>
    BY <1>5 DEF Send, stream
  <2> DEFINE un == Append(line[p].unsent, m)
  <2>2. line \in [Peer -> LineType] /\ line[p] \in LineType
    BY <1>1 DEF TypesHold, LineType
  <2>3. un \in Seq(Message)
    BY <2>2, <1>2 DEF LineType
  <2> HIDE DEF m, un
  <2>4. line' = [line EXCEPT ![p] = [line[p] EXCEPT !.unsent = un]]
    BY <2>1, <2>2 DEF un
  <2> DEFINE ln == [line[p] EXCEPT !.unsent = un]
  <2>5. ln \in LineType /\ ~ln.resumed
    BY <2>2, <2>3, <1>5 DEF LineType
  <2> HIDE DEF ln
  <2>6. line' \in [Peer -> LineType] /\ ~line'[p].resumed /\ \A x \in Peer \ {p} : line'[x] = line[x]
    <3>1. line' = [line EXCEPT ![p] = ln]
      BY <2>4 DEF ln
    <3> QED
      BY <3>1, <2>2, <2>5
  <2>7. TypesHold'
    BY <1>1, <1>2, <1>3, <2>1, <2>6 DEF TypesHold, LineType
  <2>8. PhasesHold'
    BY <1>1, <1>3, <2>1 DEF PhasesHold
  <2>9. \A x \in Peer : Copies(x)' = Copies(x) /\ Versions(x)' = Versions(x)
    BY <1>3, <2>1 DEF Copies, Versions
  <2>10. PeerHolds(p)'
    <3>1. StoredFirst(p)'
      BY <1>1, <1>3, <2>1, <2>9, StoredStays DEF PeerHolds
    <3>2. CursorHolds(p)'
      BY <2>6 DEF CursorHolds
    <3>3. AckHolds(p)'
      BY <1>1, <1>3, <2>1, AckStays DEF PeerHolds, AckHolds
    <3> QED
      BY <3>1, <3>2, <3>3 DEF PeerHolds
  <2>11. \A x \in Peer \ {p} : PeerHolds(x)'
    <3> SUFFICES ASSUME NEW x \in Peer \ {p} PROVE PeerHolds(x)'
      OBVIOUS
    <3>1. Copies(x)' \subseteq Copies(x) \cup {Empty}
      BY <2>9
    <3> QED
      BY <1>1, <1>3, <2>1, <2>6, <3>1, OtherStays
  <2>12. Writers' = Writers /\ restarts <= restarts'
    BY <1>1, <1>3, <2>1 DEF Writers, TypesHold
  <2> QED
    BY <1>3, <2>1, <2>7, <2>8, <2>9, <2>10, <2>11, <2>12, QuietKeeps
<1> QED
  BY <1>4, <1>5

\* One document of a peer is replaced.
LEMMA DocSet ==
  ASSUME NEW X, NEW f \in [Peer -> [Docs -> X]], NEW p \in Peer, NEW d \in Docs, NEW v \in X, NEW g, g = [f EXCEPT ![p][d] = v]
  PROVE  /\ g \in [Peer -> [Docs -> X]] /\ g[p][d] = v
         /\ (\A e \in Docs \ {d} : g[p][e] = f[p][e]) /\ \A x \in Peer \ {p} : g[x] = f[x]
OBVIOUS

\* Store: what leaves a peer's memory for its store is what it holds.
LEMMA StoreKept ==
  ASSUME LineInv, NEW p \in Peer, NEW d \in Docs, Store(p, d)
  PROVE  Kept
<1> DEFINE q == Other(p)
<1>0. q \in Peer /\ q # p /\ Other(q) = p /\ \A x \in Peer : x = p \/ x = q
  BY TwoPeers
<1> HIDE DEF q
<1>1. TypesHold /\ PhasesHold /\ VersionsHold /\ Bounds(author, log, high) /\ \A x \in Peer : PeerHolds(x)
  BY DEF LineInv
<1>2. /\ phase[p][d] = "ready" /\ disk' = [disk EXCEPT ![p][d] = doc[p][d]]
      /\ UNCHANGED <<phase, doc, deleting, wire, line, queue, given, author, log, high, lost, anew, sends, restarts>>
  BY DEF Store, stream, counters
<1>3. disk \in [Peer -> [Docs -> DocType]] /\ doc[p][d] \in DocType
  BY <1>1 DEF TypesHold
<1>4. /\ disk' \in [Peer -> [Docs -> DocType]] /\ disk'[p][d] = doc[p][d]
      /\ (\A e \in Docs \ {d} : disk'[p][e] = disk[p][e]) /\ \A x \in Peer \ {p} : disk'[x] = disk[x]
  BY <1>2, <1>3, DocSet
<1>5. "outbox" \in Docs /\ "inbox" \in Docs
  BY DEF Docs
<1>6. TypesHold' /\ PhasesHold'
  BY <1>1, <1>2, <1>4 DEF TypesHold, PhasesHold
<1>7. Copies(p)' = Copies(p) /\ Copies(q)' \subseteq Copies(q)
  BY <1>0, <1>2, <1>4, <1>5 DEF Copies, q
<1>8. \A x \in Peer : Copies(x)' \subseteq Copies(x) \cup {Empty} /\ Versions(x)' \subseteq Versions(x) \cup {Empty}
  <2>1. disk'[p]["outbox"] \in {disk[p]["outbox"], doc[p]["outbox"]} /\ disk'[q]["outbox"] = disk[q]["outbox"]
    BY <1>0, <1>4, <1>5
  <2> QED
    BY <2>1, <1>0, <1>2, <1>7 DEF Versions
<1>9. PeerHolds(p)'
  <2>1. StoredFirst(p)'
    <3>1. CASE d = "outbox"
      <4> DEFINE o == doc[p]["outbox"]
      <4>1. o \in Versions(p) /\ (o.lin # Genesis => Len(log[o.lin]) = o.next - 1)
        BY <1>1, <1>2, <3>1 DEF Versions, PeerHolds, StoredFirst, StoredIn
      <4>2. StoredIn(o, o, Copies(p), log, high)
        BY <1>1, <4>1, StoredSelf
      <4> QED
        BY <1>2, <1>4, <1>7, <3>1, <4>2 DEF StoredFirst
    <3>2. CASE d # "outbox"
      <4>1. disk'[p]["outbox"] = disk[p]["outbox"]
        BY <1>4, <1>5, <3>2
      <4> QED
        BY <1>1, <1>2, <1>7, <4>1, StoredStays DEF PeerHolds
    <3> QED
      BY <3>1, <3>2
  <2>2. CursorHolds(p)'
    BY <1>1, <1>2, CursorStays DEF PeerHolds
  <2>3. AckHolds(p)'
    BY <1>1, <1>2, <1>4, AckStays DEF PeerHolds, AckHolds
  <2> QED
    BY <2>1, <2>2, <2>3 DEF PeerHolds
<1>10. \A x \in Peer \ {p} : PeerHolds(x)'
  BY <1>1, <1>2, <1>4, <1>8, OtherStays
<1>11. Writers' = Writers /\ restarts <= restarts'
  BY <1>1, <1>2 DEF Writers, TypesHold
<1>12. \A x \in Peer : PeerHolds(x)'
  BY <1>9, <1>10
<1> QED
  BY <1>2, <1>6, <1>8, <1>11, <1>12, QuietKeeps

\* Deleted: the store forgets a document that is not in memory.
LEMMA DeletedKept ==
  ASSUME LineInv, NEW p \in Peer, NEW d \in Docs, Deleted(p, d)
  PROVE  Kept
<1> DEFINE q == Other(p)
<1>0. q \in Peer /\ q # p /\ Other(q) = p /\ \A x \in Peer : x = p \/ x = q
  BY TwoPeers
<1> HIDE DEF q
<1>1. TypesHold /\ PhasesHold /\ \A x \in Peer : PeerHolds(x)
  BY DEF LineInv
<1>2. /\ d \in deleting[p] /\ deleting' = [deleting EXCEPT ![p] = @ \ {d}] /\ disk' = [disk EXCEPT ![p][d] = Empty]
      /\ UNCHANGED <<phase, doc, wire, line, queue, given, author, log, high, lost, anew, sends, restarts>>
  BY DEF Deleted, stream, counters
<1>3. disk \in [Peer -> [Docs -> DocType]] /\ Empty \in DocType /\ deleting \in [Peer -> SUBSET Docs]
  BY <1>1, EmptyIs DEF TypesHold
<1>4. /\ disk' \in [Peer -> [Docs -> DocType]] /\ disk'[p][d] = Empty
      /\ (\A e \in Docs \ {d} : disk'[p][e] = disk[p][e]) /\ \A x \in Peer \ {p} : disk'[x] = disk[x]
  BY <1>2, <1>3, DocSet
<1>5. "outbox" \in Docs /\ "inbox" \in Docs
  BY DEF Docs
<1>6. /\ deleting' \in [Peer -> SUBSET Docs] /\ (\A x \in Peer \ {p} : deleting'[x] = deleting[x])
      /\ deleting'[p] \subseteq deleting[p]
  BY <1>2, <1>3
<1>7. TypesHold' /\ PhasesHold'
  BY <1>1, <1>2, <1>4, <1>6 DEF TypesHold, PhasesHold
<1>8. Copies(p)' = Copies(p) /\ Copies(q)' \subseteq Copies(q) \cup {Empty}
  BY <1>0, <1>2, <1>4, <1>5 DEF Copies, q
<1>9. \A x \in Peer : Copies(x)' \subseteq Copies(x) \cup {Empty} /\ Versions(x)' \subseteq Versions(x) \cup {Empty}
  <2>1. disk'[p]["outbox"] \in {disk[p]["outbox"], Empty} /\ disk'[q]["outbox"] = disk[q]["outbox"]
    BY <1>0, <1>4, <1>5
  <2> QED
    BY <2>1, <1>0, <1>2, <1>8 DEF Versions
<1>10. PeerHolds(p)'
  <2>1. StoredFirst(p)'
    <3>1. CASE d = "outbox"
      <4>1. phase'[p]["outbox"] # "ready" /\ disk'[p]["outbox"].lin = Genesis
        BY <1>1, <1>2, <1>4, <3>1 DEF PhasesHold, Empty
      <4> QED
        BY <4>1 DEF StoredFirst
    <3>2. CASE d # "outbox"
      <4>1. disk'[p]["outbox"] = disk[p]["outbox"]
        BY <1>4, <1>5, <3>2
      <4> QED
        BY <1>1, <1>2, <1>8, <4>1, StoredStays DEF PeerHolds
    <3> QED
      BY <3>1, <3>2
  <2>2. CursorHolds(p)'
    BY <1>1, <1>2, CursorStays DEF PeerHolds
  <2>3. AckHolds(p)'
    BY <1>1, <1>2 DEF PeerHolds, AckHolds
  <2> QED
    BY <2>1, <2>2, <2>3 DEF PeerHolds
<1>11. \A x \in Peer \ {p} : PeerHolds(x)'
  BY <1>1, <1>2, <1>4, <1>6, <1>9, OtherStays
<1>12. Writers' = Writers /\ restarts <= restarts'
  BY <1>1, <1>2 DEF Writers, TypesHold
<1>13. \A x \in Peer : PeerHolds(x)'
  BY <1>10, <1>11
<1> QED
  BY <1>2, <1>7, <1>9, <1>12, <1>13, QuietKeeps

\* Export: an outbox is offered as its store holds it.
LEMMA ExportKept ==
  ASSUME LineInv, NEW p \in Peer, Export(p)
  PROVE  Kept
<1> DEFINE q == Other(p)
           o == doc[p]["outbox"]
<1>0. q \in Peer /\ q # p /\ Other(q) = p /\ \A x \in Peer : x = p \/ x = q
  BY TwoPeers
<1>1. TypesHold /\ PhasesHold /\ VersionsHold /\ Bounds(author, log, high) /\ \A x \in Peer : PeerHolds(x)
  BY DEF LineInv
<1>2. /\ phase[p]["outbox"] = "ready" /\ disk[p]["outbox"] = o /\ wire' = [wire EXCEPT ![p] = o]
      /\ UNCHANGED <<phase, doc, disk, deleting, line, queue, given, author, log, high, lost, anew, sends, restarts>>
  BY DEF Export, Published, store, stream, counters
<1>3. wire \in [Peer -> DocType] /\ o \in DocType
  BY <1>1 DEF TypesHold, Docs
<1> HIDE DEF q
<1>4. wire' \in [Peer -> DocType] /\ wire'[p] = o /\ \A x \in Peer \ {p} : wire'[x] = wire[x]
  BY <1>2, <1>3
<1>5. TypesHold' /\ PhasesHold'
  BY <1>1, <1>2, <1>4 DEF TypesHold, PhasesHold
<1>6. Copies(p)' \subseteq Copies(p) \cup {o} /\ Copies(q)' = Copies(q)
  BY <1>0, <1>2, <1>4 DEF Copies, q
<1>7. \A x \in Peer : Versions(x)' \subseteq Versions(x)
  BY <1>0, <1>2, <1>6 DEF Versions
<1>8. o \in Versions(p)
  BY DEF Versions
<1>9. PeerHolds(p)'
  <2> HIDE DEF o
  <2>1. StoredFirst(p)'
    <3>1. StoredIn(o, o, Copies(p), log, high)
      BY <1>1, <1>2 DEF PeerHolds, StoredFirst, o
    <3>2. o.next \in Nat
      BY <1>3 DEF DocType
    <3>3. StoredIn(o, o, Copies(p)', log, high)
      BY <1>6, <3>1, <3>2 DEF StoredIn
    <3>4. phase'[p]["outbox"] = "ready" /\ doc'[p]["outbox"] = o /\ disk'[p]["outbox"] = o /\ log' = log /\ high' = high
      BY <1>2 DEF o
    <3> QED
      BY <3>3, <3>4 DEF StoredFirst
  <2>2. CursorHolds(p)'
    BY <1>1, <1>2, CursorStays DEF PeerHolds
  <2>3. AckHolds(p)'
    BY <1>1, <1>2, AckStays DEF PeerHolds, AckHolds
  <2> QED
    BY <2>1, <2>2, <2>3 DEF PeerHolds
<1>10. \A x \in Peer \ {p} : PeerHolds(x)'
  <2> SUFFICES ASSUME NEW x \in Peer \ {p} PROVE PeerHolds(x)'
    OBVIOUS
  <2>1. Copies(x)' \subseteq Copies(x) \cup {Empty}
    BY <1>0, <1>6
  <2> QED
    BY <1>1, <1>2, <2>1, OtherStays
<1>11. Writers' = Writers /\ restarts <= restarts'
  BY <1>1, <1>2 DEF Writers, TypesHold
<1>12. \A x \in Peer : PeerHolds(x)'
  BY <1>9, <1>10
<1>13. \A x \in Peer : Versions(x)' \subseteq Versions(x) \cup {Empty}
  BY <1>7
<1> QED
  BY <1>2, <1>5, <1>11, <1>12, <1>13, QuietKeeps

\* Arrive: an offer reaches the inbox, and an open Line that has resumed handles it.
LEMMA ArriveKept ==
  ASSUME LineInv, NEW p \in Peer, Arrive(p)
  PROVE  Kept
<1> DEFINE q == Other(p)
           w == wire[q]
           i == doc[p]["inbox"]
<1>0. q \in Peer /\ q # p /\ Other(q) = p /\ \A x \in Peer : x = p \/ x = q
  BY TwoPeers
<1>1. TypesHold /\ PhasesHold /\ VersionsHold /\ \A x \in Peer : PeerHolds(x)
  BY DEF LineInv
<1>2. /\ phase[p]["inbox"] = "ready" /\ Newer(w, i)
      /\ UNCHANGED <<phase, disk, deleting, wire, lost, anew, sends, restarts>>
  BY DEF Arrive, store, counters
<1>3. i \in Copies(q) /\ w \in Copies(q)
  BY <1>0 DEF Copies
<1>4. Sound(w) /\ w \in DocType /\ i.lin \in Nat /\ w.lin \in Nat /\ w.lin \in {Genesis} \cup Lineages
      /\ (w.lin # Genesis => author[w.lin] = q)
  <2>1. doc[p]["outbox"] \in Versions(p)
    BY DEF Versions
  <2> QED
    BY <2>1, <1>1, <1>3, HandlesTypes DEF Sound
<1>5. CASE line[p].resumed
  <2> DEFINE o == doc[p]["outbox"]
             ln == line[p]
  <2>1. Processes(p, o, w, ln, <<>>)
    BY <1>5 DEF Arrive
  <2>2. /\ ln.open /\ ln.unsent = <<>> /\ \A d \in Docs : phase[p][d] = "ready"
        /\ ln.lin = i.lin /\ CursorIn(p, ln.last, i, high)
    BY <1>1, <1>5 DEF PeerHolds, CursorHolds
  <2>3. Handles(p, o, w)
    BY <1>2, <2>2, HandlesOffer DEF Docs
  <2>4. ln \in LineType
    BY <1>1 DEF TypesHold, LineType
  <2> HIDE DEF o, ln
  <2>5. o = AllWritten(o, <<>>) /\ <<>> \in Seq(Message)
    BY DEF AllWritten
  <2>6. CursorIn(p, LastIn(ln, w), w, high)
    <3>1. CASE w.lin = i.lin
      <4>1. LastIn(ln, w) = ln.last
        BY <2>2, <3>1 DEF LastIn
      <4> QED
        BY <2>2, <3>1, <4>1 DEF CursorIn
    <3>2. CASE w.lin # i.lin
      <4>1. LastIn(ln, w) = 0 /\ w.lin > i.lin
        BY <1>2, <2>2, <3>2 DEF LastIn, Newer
      <4>2. w.lin # Genesis => high[w.lin] \in Nat
        BY <1>1, <1>4 DEF TypesHold, StreamTypes
      <4>3. p \notin anew /\ w.lin # Genesis => high[w.lin] = 0
        <5> SUFFICES ASSUME p \notin anew, w.lin # Genesis PROVE high[w.lin] = 0
          OBVIOUS
        <5>1. AckIn(p, doc[p]["outbox"], i, author, high)
          BY <1>1 DEF PeerHolds, AckHolds
        <5> QED
          BY <5>1, <1>0, <1>4, <4>1 DEF AckIn
      <4> QED
        BY <4>1, <4>2, <4>3 DEF CursorIn
    <3> QED
      BY <3>1, <3>2
  <2>7. \A d \in Docs : phase'[p][d] = "ready" /\ d \notin deleting[p]
    BY <1>1, <1>2, <2>2 DEF PhasesHold
  <2>8. phase' \in [Peer -> [Docs -> {"absent", "loading", "ready"}]] /\ phase'[Other(p)] = phase[Other(p)]
    BY <1>1, <1>2 DEF TypesHold
  <2> HIDE DEF w
  <2>9. Processes(p, AllWritten(o, <<>>), w, ln, <<>>)
    BY <2>1, <2>5
  <2>10. LineInv' /\ S!Acts(p)
    BY <1>2, <2>2, <2>3, <2>4, <2>5, <2>6, <2>7, <2>8, <2>9, ProcessesKeeps
  <2> QED
    BY <2>10, ActsKept
<1>6. CASE ~line[p].resumed
  <2>1. doc' = [doc EXCEPT ![p]["inbox"] = w] /\ UNCHANGED <<line, queue, given, author, log, high>>
    BY <1>6 DEF Arrive, stream
  <2>2. doc \in [Peer -> [Docs -> DocType]] /\ "inbox" \in Docs /\ "outbox" \in Docs
    BY <1>1 DEF TypesHold, Docs
  <2> HIDE DEF q, w, i
  <2>3. /\ doc' \in [Peer -> [Docs -> DocType]] /\ doc'[p]["inbox"] = w
        /\ doc'[p]["outbox"] = doc[p]["outbox"] /\ \A x \in Peer \ {p} : doc'[x] = doc[x]
    BY <1>4, <2>1, <2>2, DocSet
  <2>4. TypesHold'
    BY <1>1, <1>2, <2>1, <2>3 DEF TypesHold
  <2>5. PhasesHold'
    <3> SUFFICES ASSUME NEW x \in Peer, NEW d \in Docs
                 PROVE  (phase[x][d] = "ready" => d \notin deleting[x]) /\ (phase[x][d] # "ready" => doc'[x][d] = Empty)
      BY <1>2 DEF PhasesHold
    <3>1. (phase[x][d] = "ready" => d \notin deleting[x]) /\ (phase[x][d] # "ready" => doc[x][d] = Empty)
      BY <1>1 DEF PhasesHold
    <3>2. phase[x][d] # "ready" => doc'[x][d] = doc[x][d]
      BY <1>2, <2>3 DEF Docs
    <3> QED
      BY <3>1, <3>2
  <2>6. Copies(p)' = Copies(p) /\ Copies(q)' \subseteq Copies(q)
    BY <1>0, <1>2, <1>3, <2>3 DEF Copies, q
  <2>7. \A x \in Peer : Copies(x)' \subseteq Copies(x) \cup {Empty} /\ Versions(x)' \subseteq Versions(x) \cup {Empty}
    BY <1>0, <1>2, <2>3, <2>6 DEF Versions
  <2>8. PeerHolds(p)'
    <3>1. StoredFirst(p)'
      BY <1>1, <1>2, <2>1, <2>3, <2>6, StoredStays DEF PeerHolds
    <3>2. CursorHolds(p)'
      BY <1>6, <2>1 DEF CursorHolds
    <3>3. AckHolds(p)'
      <4>1. p \notin anew => AckIn(p, doc[p]["outbox"], w, author, high)
        BY <1>2, NewerAck DEF q, w, i
      <4> QED
        BY <1>1, <1>2, <2>1, <2>3, <4>1 DEF PeerHolds, AckHolds
    <3> QED
      BY <3>1, <3>2, <3>3 DEF PeerHolds
  <2>9. \A x \in Peer \ {p} : PeerHolds(x)'
    BY <1>1, <1>2, <2>1, <2>3, <2>7, OtherStays
  <2>10. \A x \in Peer : PeerHolds(x)'
    BY <2>8, <2>9
  <2>11. Writers' = Writers /\ restarts <= restarts'
    <3>1. \A x \in Peer : doc'[x]["outbox"] = doc[x]["outbox"]
      BY <2>3
    <3> QED
      BY <1>1, <1>2, <3>1 DEF Writers, TypesHold
  <2> QED
    BY <1>2, <2>1, <2>4, <2>5, <2>7, <2>10, <2>11, QuietKeeps
<1> QED
  BY <1>5, <1>6

\* Loaded: a document comes from the store, and the last of the two lets an open Line resume.
LEMMA LoadedKept ==
  ASSUME LineInv, NEW p \in Peer, NEW d \in Docs, Loaded(p, d)
  PROVE  Kept
<1> DEFINE q == Other(p)
           docs == With(p, d)
           resumes == IsOpen(p) /\ \A e \in Docs : phase'[p][e] = "ready"
<1>0. q \in Peer /\ q # p /\ Other(q) = p /\ \A x \in Peer : x = p \/ x = q
  BY TwoPeers
<1>1. TypesHold /\ PhasesHold /\ VersionsHold /\ Bounds(author, log, high) /\ \A x \in Peer : PeerHolds(x)
  BY DEF LineInv
<1>2. /\ phase[p][d] = "loading" /\ d \notin deleting[p] /\ phase' = [phase EXCEPT ![p][d] = "ready"]
      /\ UNCHANGED <<disk, deleting, wire, lost, anew, sends, restarts>>
  BY DEF Loaded, store, counters
<1>3. /\ resumes => Resumes(p, docs["outbox"], docs["inbox"], line[p])
      /\ ~resumes => doc' = [doc EXCEPT ![p] = docs] /\ UNCHANGED <<line, queue, given, author, log, high>>
  BY DEF Loaded, With, stream
<1>4. phase \in [Peer -> [Docs -> {"absent", "loading", "ready"}]] /\ doc \in [Peer -> [Docs -> DocType]]
      /\ disk \in [Peer -> [Docs -> DocType]] /\ line \in [Peer -> LineType] /\ "inbox" \in Docs /\ "outbox" \in Docs
  BY <1>1 DEF TypesHold, LineType, Docs
<1>5. /\ phase' \in [Peer -> [Docs -> {"absent", "loading", "ready"}]] /\ phase'[p][d] = "ready"
      /\ (\A e \in Docs \ {d} : phase'[p][e] = phase[p][e]) /\ \A x \in Peer \ {p} : phase'[x] = phase[x]
  BY <1>2, <1>4, DocSet
<1>6. docs \in [Docs -> DocType] /\ docs[d] = disk[p][d] /\ \A e \in Docs \ {d} : docs[e] = doc[p][e]
  BY <1>4 DEF With
<1>7. CASE resumes
  <2>1. IsOpen(p) /\ \A e \in Docs : phase'[p][e] = "ready"
    BY <1>7
  <2> HIDE DEF resumes
  <2>2. phase[p]["outbox"] = "ready" \/ d = "outbox"
    BY <1>4, <1>5, <2>1
  <2>3. Handles(p, docs["outbox"], docs["inbox"])
    BY <1>2, <2>2, HandlesLoaded
  <2>4. \A e \in Docs : phase'[p][e] = "ready" /\ e \notin deleting[p]
    BY <1>1, <1>2, <1>5, <2>1 DEF PhasesHold
  <2>5. phase'[Other(p)] = phase[Other(p)] /\ line[p] \in LineType /\ line[p].open
    BY <1>0, <1>4, <1>5, <2>1 DEF IsOpen
  <2> HIDE DEF docs
  <2>6. Resumes(p, docs["outbox"], docs["inbox"], line[p])
    BY <1>3, <1>7
  <2>7. LineInv' /\ S!Acts(p)
    BY <1>2, <1>5, <2>3, <2>4, <2>5, <2>6, ResumesKeeps
  <2> QED
    BY <2>7, ActsKept
<1>8. CASE ~resumes
  <2>1. doc' = [doc EXCEPT ![p] = docs] /\ UNCHANGED <<line, queue, given, author, log, high>>
    BY <1>3, <1>8
  <2> HIDE DEF resumes, docs, q
  <2>2. doc' \in [Peer -> [Docs -> DocType]] /\ doc'[p] = docs /\ \A x \in Peer \ {p} : doc'[x] = doc[x]
    BY <1>4, <1>6, <2>1
  <2>3. TypesHold'
    BY <1>1, <1>2, <1>5, <2>1, <2>2 DEF TypesHold
  <2>4. PhasesHold'
    <3> SUFFICES ASSUME NEW x \in Peer, NEW e \in Docs
                 PROVE  (phase'[x][e] = "ready" => e \notin deleting[x]) /\ (phase'[x][e] # "ready" => doc'[x][e] = Empty)
      BY <1>2 DEF PhasesHold
    <3>1. (phase[x][e] = "ready" => e \notin deleting[x]) /\ (phase[x][e] # "ready" => doc[x][e] = Empty)
      BY <1>1 DEF PhasesHold
    <3>2. CASE x = p /\ e = d
      BY <1>2, <1>5, <3>2
    <3>3. CASE x = p /\ e # d
      BY <1>5, <1>6, <2>2, <3>1, <3>3
    <3>4. CASE x # p
      BY <1>5, <2>2, <3>1, <3>4
    <3> QED
      BY <3>2, <3>3, <3>4
  <2>5. \A e \in Docs : doc'[p][e] \in {doc[p][e], disk[p][e]}
    BY <1>6, <2>2
  <2>6. Copies(p)' = Copies(p) /\ Copies(q)' \subseteq Copies(q)
    BY <1>0, <1>2, <1>4, <2>2, <2>5 DEF Copies, q
  <2>7. \A x \in Peer : Copies(x)' \subseteq Copies(x) \cup {Empty} /\ Versions(x)' \subseteq Versions(x) \cup {Empty}
    BY <1>0, <1>2, <1>4, <2>2, <2>5, <2>6 DEF Versions
  <2>8. doc[p][d] = Empty /\ ~line[p].resumed /\ (p \notin anew => docs = doc[p])
    <3>1. doc[p][d] = Empty /\ ~line[p].resumed
      BY <1>1, <1>2 DEF PhasesHold, PeerHolds, CursorHolds
    <3>2. p \notin anew => disk[p][d] = Empty
      BY <1>1, <1>2 DEF PeerHolds, AckHolds
    <3>3. p \notin anew => docs = doc[p]
      BY <1>4, <1>6, <3>1, <3>2
    <3> QED
      BY <3>1, <3>3
  <2>9. PeerHolds(p)'
    <3>1. StoredFirst(p)'
      <4>1. CASE d = "outbox"
        <5> DEFINE o == disk[p]["outbox"]
        <5>1. o \in Versions(p) /\ (o.lin # Genesis => Len(log[o.lin]) = o.next - 1)
          BY <1>1, <1>2, <4>1 DEF Versions, PeerHolds, StoredFirst
        <5>2. StoredIn(o, o, Copies(p), log, high)
          BY <1>1, <5>1, StoredSelf
        <5>3. doc'[p]["outbox"] = o /\ disk'[p]["outbox"] = o /\ phase'[p]["outbox"] = "ready"
          BY <1>2, <1>5, <1>6, <2>2, <4>1
        <5> QED
          BY <2>1, <2>6, <5>2, <5>3 DEF StoredFirst
      <4>2. CASE d # "outbox"
        <5>1. doc'[p]["outbox"] = doc[p]["outbox"] /\ phase'[p]["outbox"] = phase[p]["outbox"]
          BY <1>4, <1>5, <1>6, <2>2, <4>2
        <5> QED
          BY <1>1, <1>2, <2>1, <2>6, <5>1, StoredStays DEF PeerHolds
      <4> QED
        BY <4>1, <4>2
    <3>2. CursorHolds(p)'
      BY <2>1, <2>8 DEF CursorHolds
    <3>3. AckHolds(p)'
      <4>1. \A e \in Docs : phase'[p][e] # "ready" => phase[p][e] # "ready"
        BY <1>5
      <4> QED
        BY <1>1, <1>2, <2>1, <2>2, <2>8, <4>1 DEF PeerHolds, AckHolds
    <3> QED
      BY <3>1, <3>2, <3>3 DEF PeerHolds
  <2>10. \A x \in Peer \ {p} : PeerHolds(x)'
    BY <1>1, <1>2, <1>5, <2>1, <2>2, <2>7, OtherStays
  <2>11. \A x \in Peer : PeerHolds(x)'
    BY <2>9, <2>10
  <2>12. Writers \subseteq Writers' /\ restarts <= restarts'
    <3>1. \A x \in Peer : doc[x]["outbox"].lin # Genesis => doc'[x]["outbox"] = doc[x]["outbox"]
      <4> SUFFICES ASSUME NEW x \in Peer, doc[x]["outbox"].lin # Genesis PROVE doc'[x]["outbox"] = doc[x]["outbox"]
        OBVIOUS
      <4>1. Empty.lin = Genesis
        BY DEF Empty
      <4>2. x = p => d # "outbox"
        BY <2>8, <4>1
      <4> QED
        BY <1>4, <1>6, <2>2, <4>2
    <3> QED
      BY <1>1, <1>2, <3>1 DEF Writers, TypesHold
  <2> QED
    BY <1>2, <2>1, <2>3, <2>4, <2>7, <2>11, <2>12, QuietKeeps
<1> QED
  BY <1>7, <1>8

-----------------------------------------------------------------------------
(* A Line is destroyed or its peer stops: what its store lacks of the outbox is forgotten. *)

\* A version needs no more of a stream than it was written for.
LEMMA VersionStays ==
  ASSUME NEW p \in Peer, NEW o, NEW aus, NEW logs, NEW highs, NEW logs2, VersionIn(o, p, aus, logs, highs),
         o.lin # Genesis => /\ o.next - 1 <= Len(logs2[o.lin])
                            /\ \A n \in 1 .. o.next - 1 : logs2[o.lin][n] = logs[o.lin][n]
  PROVE  VersionIn(o, p, aus, logs2, highs)
<1>1. Sound(o) /\ OutboxIn(o, p, aus, logs, highs) /\ AcksIn(o, p, aus, highs)
  BY DEF VersionIn
<1>2. o.next \in Nat /\ Gone(o) \in Nat /\ Len(o.msgs) \in Nat /\ o.msgs \in Seq(Numbered) /\ Gone(o) = o.next - Len(o.msgs) - 1
  BY <1>1, SoundTypes DEF Gone
<1>3. \A n \in DOMAIN o.msgs : o.msgs[n].seq \in 1 .. o.next - 1
  <2>1. \A n \in 1 .. Len(o.msgs) : Gone(o) + n \in 1 .. o.next - 1
    BY <1>2
  <2>2. DOMAIN o.msgs = 1 .. Len(o.msgs)
    BY <1>2
  <2> QED
    BY <2>1, <2>2, <1>1 DEF Sound
<1>4. OutboxIn(o, p, aus, logs2, highs)
  <2> SUFFICES ASSUME o.lin # Genesis PROVE OutboxIn(o, p, aus, logs2, highs)
    BY DEF OutboxIn
  <2>1. \A n \in DOMAIN o.msgs : o.msgs[n].id = logs2[o.lin][o.msgs[n].seq]
    BY <1>1, <1>3 DEF OutboxIn
  <2> QED
    BY <2>1, <1>1 DEF OutboxIn
<1> QED
  BY <1>1, <1>4 DEF VersionIn

\* What Forgets makes of the streams.
Forgot(p, l, k) ==
  /\ StreamTypes(author, log', high)
  /\ \A x \in Lineages \ {l} : log'[x] = log[x]
  /\ l # Genesis => /\ l \in Lineages /\ author[l] = p /\ k \in Nat /\ k <= Len(log[l]) /\ high[l] <= k
                    /\ log'[l] = SubSeq(log[l], 1, k)
                    /\ Len(log'[l]) = k /\ \A n \in 1 .. k : log'[l][n] = log[l][n]

LEMMA PrefixIs ==
  ASSUME NEW X, NEW s \in Seq(X), NEW k \in Nat, k <= Len(s)
  PROVE  /\ SubSeq(s, 1, k) \in Seq(X) /\ Len(SubSeq(s, 1, k)) = k
         /\ \A n \in 1 .. k : SubSeq(s, 1, k)[n] = s[n]
OBVIOUS

LEMMA ForgetsIs ==
  ASSUME LineInv, NEW p \in Peer, Forgets(p), NEW o, o = doc[p]["outbox"], NEW d, d = disk[p]["outbox"]
  PROVE  /\ Forgot(p, o.lin, IF d.lin = o.lin THEN d.next - 1 ELSE 0)
         /\ \A c \in Copies(p) \cup {d} : c.lin = o.lin /\ o.lin # Genesis => d.lin = o.lin /\ c.next <= d.next
         /\ d.lin # Genesis => Len(log'[d.lin]) = d.next - 1
<1> DEFINE l == o.lin
           k == IF d.lin = o.lin THEN d.next - 1 ELSE 0
<1>1. /\ TypesHold /\ PhasesHold /\ VersionsHold /\ Bounds(author, log, high) /\ StoredFirst(p)
      /\ StreamTypes(author, log, high)
  BY DEF LineInv, PeerHolds, TypesHold
<1>2. d \in Versions(p) /\ o \in Versions(p)
  BY DEF Versions
<1>3. /\ VersionIn(o, p, author, log, high) /\ VersionIn(d, p, author, log, high) /\ Sound(o) /\ Sound(d)
      /\ o.lin \in {Genesis} \cup Lineages /\ d.next \in Nat \ {0}
      /\ (l # Genesis => author[l] = p) /\ (d.lin # Genesis => d.next - 1 <= Len(log[d.lin]))
  <2>1. VersionIn(o, p, author, log, high) /\ VersionIn(d, p, author, log, high)
    BY <1>1, <1>2 DEF VersionsHold
  <2> QED
    BY <2>1, SoundTypes DEF VersionIn, OutboxIn
<1>4. l # Genesis => phase[p]["outbox"] = "ready"
  BY <1>1 DEF PhasesHold, Docs, Empty
<1>5. phase[p]["outbox"] = "ready" => StoredIn(o, d, Copies(p), log, high)
  BY <1>1 DEF StoredFirst
<1>6. log' = IF l = Genesis THEN log ELSE [log EXCEPT ![l] = SubSeq(log[l], 1, k)]
  BY DEF Forgets
<1>7. CASE l = Genesis
  <2>1. log' = log
    BY <1>6, <1>7
  <2>2. d.lin # Genesis => Len(log[d.lin]) = d.next - 1
    BY <1>1, <1>5, <1>7 DEF StoredFirst, StoredIn
  <2> QED
    BY <2>1, <2>2, <1>1, <1>7 DEF Forgot
<1>8. CASE l # Genesis
  <2>1. /\ l \in Lineages /\ log[l] \in Seq(Message) /\ log \in [Lineages -> Seq(Message)]
    BY <1>1, <1>3, <1>8 DEF StreamTypes
  <2>2. StoredIn(o, d, Copies(p), log, high)
    BY <1>4, <1>5, <1>8
  <2>3. d.lin \in {Genesis, l} /\ k \in Nat /\ k <= Len(log[l]) /\ high[l] <= k
    <3>1. CASE d.lin = l
      BY <1>3, <1>8, <2>1, <2>2, <3>1 DEF StoredIn
    <3>2. CASE d.lin # l
      BY <1>8, <2>1, <2>2, <3>2 DEF StoredIn
    <3> QED
      BY <3>1, <3>2
  <2>4. \A c \in Copies(p) \cup {d} : c.lin = l => d.lin = l /\ c.next <= d.next
    <3>1. CASE d.lin = l
      BY <1>3, <1>8, <2>2, <3>1 DEF StoredIn
    <3>2. CASE d.lin # l
      BY <1>8, <2>2, <3>2 DEF StoredIn
    <3> QED
      BY <3>1, <3>2
  <2> DEFINE s == SubSeq(log[l], 1, k)
  <2>5. log' = [log EXCEPT ![l] = s]
    BY <1>6, <1>8
  <2>6. k = (IF d.lin = l THEN d.next - 1 ELSE 0)
    OBVIOUS
  <2> HIDE DEF k
  <2>7. s \in Seq(Message) /\ Len(s) = k /\ \A n \in 1 .. k : s[n] = log[l][n]
    BY <2>1, <2>3, PrefixIs
  <2> HIDE DEF s, l
  <2>8. log' \in [Lineages -> Seq(Message)] /\ log'[l] = s /\ \A x \in Lineages \ {l} : log'[x] = log[x]
    BY <2>1, <2>5, <2>7
  <2>9. Forgot(p, l, k)
    <3>1. StreamTypes(author, log', high)
      BY <2>8, <1>1 DEF StreamTypes
    <3>2. author[l] = p /\ log'[l] = SubSeq(log[l], 1, k)
      BY <2>8, <1>3, <1>8 DEF s, l
    <3> QED
      BY <3>1, <3>2, <2>1, <2>3, <2>7, <2>8 DEF Forgot
  <2>10. d.lin # Genesis => Len(log'[d.lin]) = d.next - 1
    BY <2>3, <2>6, <2>7, <2>8
  <2> QED
    BY <2>4, <2>9, <2>10 DEF k, l
<1> QED
  BY <1>7, <1>8

\* What stops: the documents of p leave memory, and its Line with them.
Stops(p) ==
  /\ phase' = [phase EXCEPT ![p] = [d \in Docs |-> "absent"]]
  /\ doc' = [doc EXCEPT ![p] = [d \in Docs |-> Empty]]
  /\ line' = [line EXCEPT ![p] = NoLine]
  /\ Forgets(p)
  /\ restarts < MaxRestarts /\ anew' = anew \cup {p} /\ restarts' = restarts + 1
  /\ \A x \in Peer \ {p} : deleting'[x] = deleting[x]
  /\ \A x \in Peer : wire'[x] \in {wire[x], Empty}
  /\ UNCHANGED <<disk, given, author, high, sends>>

LEMMA StopTypes ==
  ASSUME LineInv, NEW p \in Peer, Stops(p), deleting' \in [Peer -> SUBSET Docs], wire' \in [Peer -> DocType],
         queue' \in [Peer -> Seq(Message)], lost' \in [Peer -> SUBSET Message]
  PROVE  /\ TypesHold' /\ PhasesHold'
         /\ \A d \in Docs : phase'[p][d] = "absent" /\ doc'[p][d] = Empty
         /\ ~line'[p].resumed
         /\ \A x \in Peer \ {p} : phase'[x] = phase[x] /\ doc'[x] = doc[x] /\ line'[x] = line[x]
<1>1. TypesHold /\ PhasesHold
  BY DEF LineInv
<1>2. /\ phase' = [phase EXCEPT ![p] = [d \in Docs |-> "absent"]]
      /\ doc' = [doc EXCEPT ![p] = [d \in Docs |-> Empty]]
      /\ line' = [line EXCEPT ![p] = NoLine]
      /\ restarts < MaxRestarts /\ anew' = anew \cup {p} /\ restarts' = restarts + 1
      /\ (\A x \in Peer \ {p} : deleting'[x] = deleting[x])
      /\ UNCHANGED <<disk, given, author, high, sends>>
  BY DEF Stops
<1>3. /\ phase \in [Peer -> [Docs -> {"absent", "loading", "ready"}]] /\ doc \in [Peer -> [Docs -> DocType]]
      /\ line \in [Peer -> LineType] /\ Empty \in DocType /\ NoLine \in LineType /\ ~NoLine.resumed
  BY <1>1, EmptyIs, NoLineType DEF TypesHold, LineType
<1>4. /\ phase' \in [Peer -> [Docs -> {"absent", "loading", "ready"}]]
      /\ (\A d \in Docs : phase'[p][d] = "absent") /\ \A x \in Peer \ {p} : phase'[x] = phase[x]
  BY <1>2, <1>3
<1>5. /\ doc' \in [Peer -> [Docs -> DocType]]
      /\ (\A d \in Docs : doc'[p][d] = Empty) /\ \A x \in Peer \ {p} : doc'[x] = doc[x]
  BY <1>2, <1>3
<1>6. /\ line' \in [Peer -> LineType] /\ ~line'[p].resumed /\ \A x \in Peer \ {p} : line'[x] = line[x]
  BY <1>2, <1>3
<1>7. StreamTypes(author', log', high')
  <2>1. StreamTypes(author, log', high)
    <3> DEFINE o == doc[p]["outbox"]
               d == disk[p]["outbox"]
    <3>1. Forgets(p)
      BY DEF Stops
    <3> HIDE DEF o, d
    <3>2. Forgot(p, o.lin, IF d.lin = o.lin THEN d.next - 1 ELSE 0)
      BY <3>1, ForgetsIs DEF o, d
    <3> QED
      BY <3>2 DEF Forgot
  <2> QED
    BY <2>1, <1>2
<1>8. restarts' \in 0 .. MaxRestarts /\ anew' \subseteq Peer
  BY <1>1, <1>2, LineAssumption DEF TypesHold
<1>9. TypesHold'
  BY <1>1, <1>2, <1>4, <1>5, <1>6, <1>7, <1>8 DEF TypesHold, LineType
<1>10. PhasesHold'
  <2> SUFFICES ASSUME NEW x \in Peer, NEW d \in Docs
               PROVE  (phase'[x][d] = "ready" => d \notin deleting'[x]) /\ (phase'[x][d] # "ready" => doc'[x][d] = Empty)
    BY DEF PhasesHold
  <2>1. CASE x = p
    BY <1>4, <1>5, <2>1
  <2>2. CASE x # p
    BY <1>1, <1>2, <1>4, <1>5, <2>2 DEF PhasesHold
  <2> QED
    BY <2>1, <2>2
<1> QED
  BY <1>4, <1>5, <1>6, <1>9, <1>10

LEMMA StopKept ==
  ASSUME LineInv, NEW p \in Peer, Stops(p), deleting' \in [Peer -> SUBSET Docs], wire' \in [Peer -> DocType],
         queue' \in [Peer -> Seq(Message)], lost' \in [Peer -> SUBSET Message]
  PROVE  Kept
<1> DEFINE q == Other(p)
           o == doc[p]["outbox"]
           d == disk[p]["outbox"]
           l == o.lin
           k == IF d.lin = o.lin THEN d.next - 1 ELSE 0
<1>0. q \in Peer /\ q # p /\ Other(q) = p /\ (\A x \in Peer : x = p \/ x = q) /\ p # "nobody" /\ q # "nobody"
  BY TwoPeers
<1>1. /\ TypesHold /\ PhasesHold /\ VersionsHold /\ MintingHolds /\ Bounds(author, log, high)
      /\ StreamTypes(author, log, high) /\ \A x \in Peer : PeerHolds(x)
  BY DEF LineInv, TypesHold
<1>2. /\ TypesHold' /\ PhasesHold'
      /\ \A e \in Docs : phase'[p][e] = "absent" /\ doc'[p][e] = Empty
      /\ ~line'[p].resumed
      /\ \A x \in Peer \ {p} : phase'[x] = phase[x] /\ doc'[x] = doc[x] /\ line'[x] = line[x]
  BY StopTypes
<1>3. /\ Forgets(p) /\ restarts < MaxRestarts /\ anew' = anew \cup {p} /\ restarts' = restarts + 1
      /\ (\A x \in Peer \ {p} : deleting'[x] = deleting[x]) /\ (\A x \in Peer : wire'[x] \in {wire[x], Empty})
      /\ UNCHANGED <<disk, given, author, high, sends>>
  BY DEF Stops
<1>4. /\ Forgot(p, l, k)
      /\ \A c \in Copies(p) \cup {d} : c.lin = l /\ l # Genesis => d.lin = l /\ c.next <= d.next
      /\ d.lin # Genesis => Len(log'[d.lin]) = d.next - 1
  BY <1>3, ForgetsIs
<1>5. "outbox" \in Docs /\ "inbox" \in Docs /\ Empty.lin = Genesis
  BY DEF Docs, Empty
<1>6. d.next \in Nat
  <2>1. disk[p]["outbox"] \in DocType
    BY <1>1, <1>5 DEF TypesHold
  <2>2. d.next \in Nat \ {0}
    BY <2>1 DEF DocType
  <2> QED
    BY <2>2
<1> HIDE DEF q, o, d, l
<1>7. Copies(p)' \subseteq Copies(p) \cup {Empty} /\ Copies(q)' \subseteq Copies(q) \cup {Empty}
  BY <1>0, <1>2, <1>3, <1>5 DEF Copies, q
<1>8. Versions(p)' \subseteq Copies(p) \cup {d, Empty} /\ Versions(q)' \subseteq Versions(q) \cup {Empty}
  BY <1>0, <1>2, <1>3, <1>5, <1>7 DEF Versions, d
<1>9. \A c \in Versions(q) : c.lin # Genesis => c.lin \in Lineages /\ author[c.lin] = q /\ log'[c.lin] = log[c.lin]
  <2> SUFFICES ASSUME NEW c \in Versions(q), c.lin # Genesis
               PROVE  c.lin \in Lineages /\ author[c.lin] = q /\ log'[c.lin] = log[c.lin]
    OBVIOUS
  <2>1. VersionIn(c, q, author, log, high)
    BY <1>0, <1>1 DEF VersionsHold
  <2>2. c.lin \in Lineages /\ author[c.lin] = q
    BY <2>1, SoundTypes DEF VersionIn, OutboxIn
  <2>3. c.lin # l
    BY <2>2, <1>0, <1>4 DEF Forgot
  <2> QED
    BY <2>2, <2>3, <1>4 DEF Forgot
<1>10. VersionsHold'
  <2>1. ASSUME NEW c \in Versions(q)' PROVE VersionIn(c, q, author, log', high)
    <3>1. CASE c = Empty
      BY <3>1, EmptyIs
    <3>2. CASE c \in Versions(q)
      <4>1. VersionIn(c, q, author, log, high)
        BY <1>0, <1>1, <3>2 DEF VersionsHold
      <4>2. c.lin # Genesis => log'[c.lin] = log[c.lin] /\ c.next - 1 <= Len(log[c.lin])
        BY <1>9, <3>2, <4>1 DEF VersionIn, OutboxIn
      <4> QED
        BY <1>0, <4>1, <4>2, VersionStays
    <3> QED
      BY <1>8, <2>1, <3>1, <3>2
  <2>2. ASSUME NEW c \in Versions(p)' PROVE VersionIn(c, p, author, log', high)
    <3>1. CASE c = Empty
      BY <3>1, EmptyIs
    <3>2. CASE c \in Copies(p) \cup {d}
      <4>1. c \in Versions(p)
        BY <3>2 DEF Versions, d
      <4>2. VersionIn(c, p, author, log, high) /\ Sound(c) /\ (c.lin # Genesis => c.lin \in Lineages)
        <5>1. VersionIn(c, p, author, log, high)
          BY <1>1, <4>1 DEF VersionsHold
        <5> QED
          BY <5>1, SoundTypes DEF VersionIn
      <4>3. c.lin # Genesis => /\ c.next - 1 <= Len(log'[c.lin])
                               /\ \A n \in 1 .. c.next - 1 : log'[c.lin][n] = log[c.lin][n]
        <5>1. CASE c.lin # l \/ c.lin = Genesis
          <6>1. c.lin # Genesis => log'[c.lin] = log[c.lin] /\ c.next - 1 <= Len(log[c.lin])
            BY <1>4, <4>2, <5>1 DEF Forgot, VersionIn, OutboxIn
          <6> QED
            BY <6>1
        <5>2. CASE c.lin = l /\ c.lin # Genesis
          <6>1. d.lin = l /\ c.next <= d.next /\ k = d.next - 1
            BY <1>4, <3>2, <5>2 DEF l
          <6>2. Len(log'[l]) = k /\ \A n \in 1 .. k : log'[l][n] = log[l][n]
            BY <1>4, <5>2 DEF Forgot
          <6>3. c.next \in Nat
            BY <4>2, SoundTypes
          <6> HIDE DEF k
          <6>4. c.next - 1 <= k /\ 1 .. c.next - 1 \subseteq 1 .. k
            BY <6>1, <6>3, <1>6
          <6> QED
            BY <5>2, <6>2, <6>4
        <5> QED
          BY <5>1, <5>2
      <4> QED
        BY <4>2, <4>3, VersionStays
    <3> QED
      BY <1>8, <2>2, <3>1, <3>2
  <2> QED
    BY <2>1, <2>2, <1>0, <1>3 DEF VersionsHold
<1>11. Bounds(author', log', high')
  <2> SUFFICES ASSUME NEW x \in Lineages
               PROVE  high[x] <= Len(log'[x]) /\ (author[x] = "nobody" => log'[x] = <<>> /\ high[x] = 0)
    BY <1>3 DEF Bounds
  <2>1. CASE x # l
    BY <1>1, <1>4, <2>1 DEF Bounds, Forgot
  <2>2. CASE x = l
    <3>1. l # Genesis
      BY <2>2 DEF Genesis, Lineages
    <3> QED
      BY <1>0, <1>4, <2>2, <3>1 DEF Forgot
  <2> QED
    BY <2>1, <2>2
<1>12. MintingHolds'
  <2>1. Writers \subseteq Peer /\ Writers' = Writers \ {p}
    BY <1>2, <1>5 DEF Writers
  <2>2. Cardinality(Writers) \in Nat /\ Cardinality(Writers') \in Nat /\ Cardinality(Writers) <= Cardinality(Writers') + 1
    <3>1. IsFiniteSet(Writers) /\ Cardinality(Writers) \in Nat
      BY <2>1, SomePeers
    <3>2. CASE p \in Writers
      <4>1. Cardinality(Writers \ {p}) = Cardinality(Writers) - 1 /\ Cardinality(Writers \ {p}) \in Nat
        BY <3>1, <3>2, FS_RemoveElement, FS_CardinalityType
      <4> QED
        BY <2>1, <3>1, <4>1
    <3>3. CASE p \notin Writers
      <4>1. Writers' = Writers
        BY <2>1, <3>3
      <4> QED
        BY <3>1, <4>1
    <3> QED
      BY <3>2, <3>3
  <2>3. PICK n \in Nat : (\A x \in Lineages : author[x] # "nobody" <=> x <= n) /\ n <= restarts + Cardinality(Writers)
    BY <1>1 DEF MintingHolds
  <2>4. restarts \in Nat /\ restarts' = restarts + 1
    BY <1>1, <1>3 DEF TypesHold
  <2>5. n <= restarts' + Cardinality(Writers')
    BY <2>2, <2>3, <2>4
  <2> QED
    BY <2>3, <2>5, <1>3 DEF MintingHolds
<1>13. PeerHolds(p)'
  <2>1. StoredFirst(p)'
    <3>1. phase'[p]["outbox"] # "ready" /\ disk'[p]["outbox"] = d
      BY <1>2, <1>3, <1>5 DEF d
    <3> QED
      BY <1>4, <3>1 DEF StoredFirst
  <2>2. CursorHolds(p)'
    BY <1>2 DEF CursorHolds
  <2>3. AckHolds(p)'
    BY <1>3 DEF AckHolds
  <2> QED
    BY <2>1, <2>2, <2>3 DEF PeerHolds
<1>14. PeerHolds(q)'
  <2> DEFINE oq == doc[q]["outbox"]
             dq == disk[q]["outbox"]
  <2>1. PeerHolds(q) /\ phase'[q] = phase[q] /\ doc'[q] = doc[q] /\ line'[q] = line[q] /\ deleting'[q] = deleting[q]
        /\ disk' = disk /\ author' = author /\ high' = high /\ (q \notin anew <=> q \notin anew')
    BY <1>0, <1>1, <1>2, <1>3
  <2>2. oq \in Versions(q) /\ dq \in Versions(q)
    BY DEF Versions
  <2>3. (oq.lin # Genesis => log'[oq.lin] = log[oq.lin]) /\ (dq.lin # Genesis => log'[dq.lin] = log[dq.lin])
    BY <1>9, <2>2
  <2>4. StoredFirst(q)'
    <3>1. doc'[q]["outbox"] = oq /\ disk'[q]["outbox"] = dq /\ phase'[q]["outbox"] = phase[q]["outbox"]
      BY <2>1
    <3>2. phase[q]["outbox"] = "ready" => StoredIn(oq, dq, Copies(q), log, high)
      BY <2>1 DEF PeerHolds, StoredFirst
    <3>3. phase[q]["outbox"] # "ready" /\ dq.lin # Genesis => Len(log[dq.lin]) = dq.next - 1
      BY <2>1 DEF PeerHolds, StoredFirst
    <3> HIDE DEF oq, dq
    <3>4. StoredIn(oq, dq, Copies(q), log, high) => StoredIn(oq, dq, Copies(q)', log', high)
      BY <1>5, <1>7, <2>3 DEF StoredIn
    <3>5. phase[q]["outbox"] = "ready" => StoredIn(oq, dq, Copies(q)', log', high')
      BY <2>1, <3>2, <3>4
    <3>6. phase[q]["outbox"] # "ready" /\ dq.lin # Genesis => Len(log'[dq.lin]) = dq.next - 1
      BY <2>3, <3>3
    <3> QED
      BY <3>1, <3>5, <3>6 DEF StoredFirst
  <2>5. CursorHolds(q)'
    BY <2>1 DEF PeerHolds, CursorHolds, CursorIn
  <2>6. AckHolds(q)'
    BY <2>1 DEF PeerHolds, AckHolds, AckIn
  <2> QED
    BY <2>4, <2>5, <2>6 DEF PeerHolds
<1>15. \A x \in Peer : PeerHolds(x)'
  BY <1>0, <1>13, <1>14
<1>16. S!StartsAnew(p)
  <2>1. \A x \in Lineages : \/ log'[x] = log[x]
                            \/ author[x] = p /\ \E n \in high[x] .. Len(log[x]) : log'[x] = SubSeq(log[x], 1, n)
    <3> SUFFICES ASSUME NEW x \in Lineages, log'[x] # log[x]
                 PROVE  author[x] = p /\ \E n \in high[x] .. Len(log[x]) : log'[x] = SubSeq(log[x], 1, n)
      OBVIOUS
    <3>1. x = l /\ l # Genesis
      BY <1>4 DEF Forgot, Genesis, Lineages
    <3>2. author[l] = p /\ k \in Nat /\ k <= Len(log[l]) /\ high[l] <= k /\ log'[l] = SubSeq(log[l], 1, k)
      BY <1>4, <3>1 DEF Forgot
    <3>3. high[l] \in Nat /\ Len(log[l]) \in Nat
      BY <1>1, <3>1 DEF StreamTypes
    <3> HIDE DEF k
    <3>4. k \in high[l] .. Len(log[l])
      BY <3>2, <3>3
    <3> QED
      BY <3>1, <3>2, <3>4
  <2> QED
    BY <2>1, <1>3 DEF S!StartsAnew
<1>17. LineInv'
  BY <1>2, <1>10, <1>11, <1>12, <1>15 DEF LineInv
<1> QED
  BY <1>16, <1>17 DEF Kept, S!Next

LEMMA DestroyKept ==
  ASSUME LineInv, NEW p \in Peer, Destroy(p)
  PROVE  Kept
<1>1. TypesHold
  BY DEF LineInv
<1>2. /\ phase' = [phase EXCEPT ![p] = [d \in Docs |-> "absent"]]
      /\ doc' = [doc EXCEPT ![p] = [d \in Docs |-> Empty]]
      /\ deleting' = [deleting EXCEPT ![p] = Docs]
      /\ line' = [line EXCEPT ![p] = NoLine]
      /\ Forgets(p) /\ restarts < MaxRestarts
      /\ anew' = anew \cup {p} /\ restarts' = restarts + 1
      /\ UNCHANGED <<disk, wire, queue, given, author, high, lost, sends>>
  BY DEF Destroy
<1>3. /\ deleting \in [Peer -> SUBSET Docs] /\ wire \in [Peer -> DocType]
      /\ queue \in [Peer -> Seq(Message)] /\ lost \in [Peer -> SUBSET Message]
  BY <1>1 DEF TypesHold
<1>4. deleting' \in [Peer -> SUBSET Docs] /\ \A x \in Peer \ {p} : deleting'[x] = deleting[x]
  BY <1>2, <1>3
<1>5. Stops(p)
  BY <1>2, <1>4 DEF Stops
<1>6. wire' \in [Peer -> DocType] /\ queue' \in [Peer -> Seq(Message)] /\ lost' \in [Peer -> SUBSET Message]
  BY <1>2, <1>3
<1> QED
  BY <1>4, <1>5, <1>6, StopKept

LEMMA CrashKept ==
  ASSUME LineInv, NEW p \in Peer, Crash(p)
  PROVE  Kept
<1>1. TypesHold
  BY DEF LineInv
<1>2. /\ phase' = [phase EXCEPT ![p] = [d \in Docs |-> "absent"]]
      /\ doc' = [doc EXCEPT ![p] = [d \in Docs |-> Empty]]
      /\ deleting' = [deleting EXCEPT ![p] = {}]
      /\ wire' = [wire EXCEPT ![Other(p)] = Empty]
      /\ line' = [line EXCEPT ![p] = NoLine]
      /\ queue' = [queue EXCEPT ![p] = <<>>]
      /\ Forgets(p) /\ restarts < MaxRestarts
      /\ anew' = anew \cup {p} /\ restarts' = restarts + 1
      /\ UNCHANGED <<disk, given, author, high, sends>>
  BY DEF Crash
<1>3. /\ deleting \in [Peer -> SUBSET Docs] /\ wire \in [Peer -> DocType]
      /\ queue \in [Peer -> Seq(Message)] /\ lost \in [Peer -> SUBSET Message]
  BY <1>1 DEF TypesHold
<1>4. deleting' \in [Peer -> SUBSET Docs] /\ \A x \in Peer \ {p} : deleting'[x] = deleting[x]
  BY <1>2, <1>3
<1>5. wire' \in [Peer -> DocType] /\ \A x \in Peer : wire'[x] \in {wire[x], Empty}
  <2>1. Empty \in DocType
    BY EmptyIs
  <2>2. \A x \in Peer : wire'[x] = IF x = Other(p) THEN Empty ELSE wire[x]
    BY <1>2, <1>3
  <2>3. wire' \in [Peer -> DocType]
    BY <1>2, <1>3, <2>1
  <2> QED
    BY <2>2, <2>3
<1>6. queue' \in [Peer -> Seq(Message)]
  <2>1. <<>> \in Seq(Message)
    OBVIOUS
  <2> QED
    BY <1>2, <1>3, <2>1
<1>7. lost' \in [Peer -> SUBSET Message]
  <2>1. PICK n \in 0 .. Len(queue[p]) :
          lost' = [lost EXCEPT ![p] = @ \cup {queue[p][k] : k \in n + 1 .. Len(queue[p])}]
    BY DEF Crash
  <2>2. {queue[p][k] : k \in n + 1 .. Len(queue[p])} \subseteq Message
    <3> SUFFICES ASSUME NEW k \in n + 1 .. Len(queue[p])
                 PROVE  queue[p][k] \in Message
      OBVIOUS
    <3>1. queue[p] \in Seq(Message)
      BY <1>3
    <3>2. k \in 1 .. Len(queue[p])
      BY <3>1
    <3> QED
      BY <3>1, <3>2
  <2> DEFINE unread == {queue[p][k] : k \in n + 1 .. Len(queue[p])}
  <2> HIDE DEF unread
  <2>3. lost' = [lost EXCEPT ![p] = @ \cup unread] /\ unread \subseteq Message
    BY <2>1, <2>2 DEF unread
  <2> QED
    BY <1>3, <2>3
<1>8. Stops(p)
  BY <1>2, <1>4, <1>5 DEF Stops
<1> QED
  BY <1>4, <1>5, <1>6, <1>7, <1>8, StopKept

-----------------------------------------------------------------------------
(* The theorems. *)

LEMMA Initially ==
  ASSUME Init
  PROVE  LineInv /\ S!Init
<1>1. /\ phase = [p \in Peer |-> [d \in Docs |-> "absent"]]
      /\ doc = [p \in Peer |-> [d \in Docs |-> Empty]] /\ disk = doc
      /\ deleting = [p \in Peer |-> {}] /\ wire = [p \in Peer |-> Empty] /\ line = [p \in Peer |-> NoLine]
      /\ queue = [p \in Peer |-> <<>>] /\ lost = [p \in Peer |-> {}] /\ given = [p \in Peer |-> <<>>]
      /\ author = [l \in Lineages |-> "nobody"] /\ log = [l \in Lineages |-> <<>>] /\ high = [l \in Lineages |-> 0]
      /\ anew = {} /\ sends = [p \in Peer |-> 0] /\ restarts = 0
  BY DEF Init, Fresh
<1>2. Empty \in DocType /\ NoLine \in LineType /\ ~NoLine.resumed /\ MaxRestarts \in Nat /\ <<>> \in Seq(Message)
  BY EmptyIs, NoLineType, LineAssumption
<1>3. StreamTypes(author, log, high)
  BY <1>1, <1>2 DEF StreamTypes
<1>4. TypesHold
  BY <1>1, <1>2, <1>3 DEF TypesHold, LineType
<1>5. PhasesHold
  BY <1>1 DEF PhasesHold
<1>6. "outbox" \in Docs /\ "inbox" \in Docs
  BY DEF Docs
<1>7. \A p \in Peer : doc[p]["outbox"] = Empty /\ doc[p]["inbox"] = Empty /\ disk[p]["outbox"] = Empty /\ disk[p]["inbox"] = Empty
  BY <1>1, <1>6
<1>8. VersionsHold
  <2> SUFFICES ASSUME NEW p \in Peer, NEW o \in Versions(p)
               PROVE  VersionIn(o, p, author, log, high)
    BY DEF VersionsHold
  <2>1. o = Empty
    BY <1>1, <1>7, TwoPeers DEF Versions, Copies
  <2> QED
    BY <2>1, EmptyIs
<1>9. Bounds(author, log, high)
  <2> SUFFICES ASSUME NEW l \in Lineages
               PROVE  high[l] <= Len(log[l]) /\ log[l] = <<>> /\ high[l] = 0
    BY DEF Bounds
  <2> QED
    BY <1>1
<1>10. MintingHolds
  <2>1. Cardinality(Writers) \in Nat
    <3>1. Writers \subseteq Peer
      BY DEF Writers
    <3> QED
      BY <3>1, SomePeers
  <2>2. \A l \in Lineages : author[l] # "nobody" <=> l <= 0
    <3>1. \A l \in Lineages : ~(l <= 0)
      BY DEF Lineages
    <3>2. \A l \in Lineages : author[l] = "nobody"
      BY <1>1
    <3> QED
      BY <3>1, <3>2
  <2> QED
    BY <1>1, <2>1, <2>2 DEF MintingHolds
<1>11. ASSUME NEW p \in Peer PROVE PeerHolds(p)
  <2>1. StoredFirst(p)
    <3>1. phase[p]["outbox"] # "ready" /\ disk[p]["outbox"].lin = Genesis
      BY <1>1, <1>6, <1>7 DEF Empty
    <3> QED
      BY <3>1 DEF StoredFirst
  <2>2. CursorHolds(p)
    BY <1>1, <1>2 DEF CursorHolds
  <2>3. AckHolds(p)
    <3>1. Empty.lin = Genesis /\ Empty.ackLin = Genesis
      BY DEF Empty
    <3>2. AckIn(p, Empty, Empty, author, high)
      BY <1>1, <3>1 DEF AckIn, Genesis
    <3>3. \A d \in Docs : disk[p][d] = Empty
      BY <1>1
    <3>4. deleting[p] = {}
      BY <1>1
    <3> QED
      BY <1>7, <3>2, <3>3, <3>4 DEF AckHolds
  <2> QED
    BY <2>1, <2>2, <2>3 DEF PeerHolds
<1>12. S!Init
  BY <1>1 DEF S!Init
<1> QED
  BY <1>4, <1>5, <1>8, <1>9, <1>10, <1>11, <1>12 DEF LineInv

\* Every step keeps the invariant, and is a step of the streams or none.
LEMMA NextKept ==
  ASSUME LineInv, [Next]_vars
  PROVE  Kept
<1>1. CASE UNCHANGED vars
  <2>1. UNCHANGED <<phase, doc, disk, deleting, wire, line, queue, given, author, log, high, lost, anew, sends, restarts>>
    BY <1>1 DEF vars
  <2>2. UNCHANGED S!vars
    BY <2>1 DEF S!vars
  <2>3. TypesHold'
    BY <2>1 DEF LineInv, TypesHold, StreamTypes
  <2>4. PhasesHold'
    BY <2>1 DEF LineInv, PhasesHold
  <2>5. \A p \in Peer : Versions(p)' = Versions(p) /\ Copies(p)' = Copies(p)
    BY <2>1 DEF Versions, Copies
  <2>6. Writers' = Writers
    BY <2>1 DEF Writers
  <2>7. \A p \in Peer : PeerHolds(p)'
    BY <2>1, <2>5, OtherStays DEF LineInv
  <2>8. restarts <= restarts'
    BY <2>1 DEF LineInv, TypesHold
  <2> QED
    BY <2>1, <2>3, <2>4, <2>5, <2>6, <2>7, <2>8, QuietKeeps
<1>2. ASSUME NEW p \in Peer, Application(p) PROVE Kept
  BY <1>2, OpenKept, SendKept, CloseKept, DestroyKept DEF Application
<1>3. ASSUME NEW p \in Peer, System(p) PROVE Kept
  BY <1>3, ExportKept, ArriveKept, LoadedKept, StoreKept, DeletedKept DEF System
<1>4. ASSUME NEW p \in Peer, Crash(p) PROVE Kept
  BY <1>4, CrashKept
<1> QED
  BY <1>1, <1>2, <1>3, <1>4 DEF Next

\* In every state the copies of an outbox agree with its stream, what left its writer's memory is stored, and cursors and
\* acknowledgements say no more than was given.
THEOREM LineInvariant == Spec => []LineInv
<1>1. Init => LineInv
  BY Initially
<1>2. LineInv /\ [Next]_vars => LineInv'
  BY NextKept DEF Kept
<1> QED
  BY <1>1, <1>2, PTL DEF Spec

\* The types hold, and the messages of every document, in memory and in the store, are numbered without a gap up to the
\* next sequence number, as `write` gives them and `pruneOutbox` leaves them.
THEOREM LineTypeCorrect == Spec => []LineTypeOK
<1>1. ASSUME LineInv PROVE LineTypeOK
  <2>1. TypesHold /\ VersionsHold
    BY <1>1 DEF LineInv
  <2>2. ASSUME NEW f \in {doc, disk}, NEW p \in Peer, NEW d \in Docs
        PROVE  /\ f[p][d] \in DocType
               /\ \A n \in DOMAIN f[p][d].msgs : f[p][d].msgs[n].seq = f[p][d].next - Len(f[p][d].msgs) + n - 1
    <3>1. f[p][d] \in Versions(p) \cup Versions(Other(p))
      BY TwoPeers DEF Docs, Versions, Copies
    <3>2. Sound(f[p][d])
      BY <2>1, <3>1, TwoPeers DEF VersionsHold, VersionIn
    <3> DEFINE o == f[p][d]
    <3> HIDE DEF o
    <3>3. Sound(o)
      BY <3>2 DEF o
    <3>4. o \in DocType /\ o.next \in Nat /\ Len(o.msgs) \in Nat /\ o.msgs \in Seq(Numbered)
      BY <3>3, SoundTypes DEF Sound
    <3>5. ASSUME NEW n \in DOMAIN o.msgs PROVE o.msgs[n].seq = o.next - Len(o.msgs) + n - 1
      <4>1. n \in Nat
        BY <3>4
      <4>2. o.msgs[n].seq = o.next - Len(o.msgs) - 1 + n
        BY <3>3 DEF Sound, Gone
      <4> QED
        BY <3>4, <4>1, <4>2
    <3> QED
      BY <3>4, <3>5 DEF o
  <2>3. \A p \in Peer : queue[p] \in Seq(Message) /\ given[p] \in Seq(Message) /\ lost[p] \subseteq Message
    BY <2>1 DEF TypesHold
  <2> QED
    BY <2>1, <2>2, <2>3 DEF LineTypeOK, TypesHold
<1> QED
  BY <1>1, LineInvariant, PTL

\* What an outbox no longer holds was queued by the other peer, whatever acknowledgements and lineages met.
THEOREM PrunedCorrect == Spec => []PrunedIsGiven
<1>1. ASSUME LineInv PROVE PrunedIsGiven
  <2> SUFFICES ASSUME NEW p \in Peer, NEW o \in {doc[p]["outbox"], disk[p]["outbox"]}, o.lin # Genesis
               PROVE  o.next - Len(o.msgs) - 1 <= high[o.lin]
    BY DEF PrunedIsGiven
  <2>1. VersionIn(o, p, author, log, high)
    BY <1>1 DEF LineInv, VersionsHold, Versions
  <2> QED
    BY <2>1 DEF VersionIn, OutboxIn, Gone
<1> QED
  BY <1>1, LineInvariant, PTL

\* The Line implements the streams: nothing written is left out or reordered, a message is given twice only to a peer that
\* started anew, and a writer that does so forgets at most what nobody was given.
THEOREM StreamImplemented == Spec => StreamSpec
<1>1. Init => S!Init
  BY Initially
<1>2. LineInv /\ [Next]_vars => [S!Next]_(S!vars)
  BY NextKept DEF Kept
<1> QED
  BY <1>1, <1>2, LineInvariant, PTL DEF Spec, StreamSpec, S!Spec
=============================================================================
