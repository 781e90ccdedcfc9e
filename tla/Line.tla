-------------------------------- MODULE Line --------------------------------
(***************************************************************************)
(* A `Line` between two stored peers (packages/exchange/src/line.ts).  Each*)
(* peer writes an outbox document and holds a copy of the other's, its     *)
(* inbox.  An outbox carries messages with sequence numbers, and the       *)
(* acknowledgement of what its writer queued from its inbox.  Documents    *)
(* load and are stored one by one; the sync layer carries outboxes, lossily*)
(* and only once stored (the publish gate); a peer may stop and start.     *)
(***************************************************************************)
EXTENDS Integers, Sequences, FiniteSets

CONSTANTS
  Peer,           \* the two seats
  MaxSends,       \* messages a peer sends
  MaxRestarts     \* Lines closed or destroyed, and peers stopped

ASSUME LineAssumption ==
  /\ IsFiniteSet(Peer) /\ Cardinality(Peer) = 2 /\ "nobody" \notin Peer
  /\ MaxSends \in [Peer -> Nat] /\ MaxRestarts \in Nat

VARIABLES
  phase,      \* a document at a peer: absent, loading or ready
  doc,        \* what it holds in memory
  disk,       \* what it holds in the store
  deleting,   \* the documents whose deletion the store has not finished
  wire,       \* the state of an outbox last exported to the other peer
  line,       \* the peer's Line
  queue,      \* messages queued for its iterator since the peer started
  given,      \* messages ever queued, in order
  lost,       \* messages that were queued and not read when the peer stopped
  author, log, high,    \* the streams written: see Stream
  anew, sends, restarts

store == <<disk, deleting>>
stream == <<author, log, high>>
counters == <<lost, anew, sends, restarts>>
vars == <<phase, doc, disk, deleting, wire, line, queue, given, author, log, high, lost, anew, sends, restarts>>

Docs == {"outbox", "inbox"}
Other(p) == CHOOSE q \in Peer : q # p

\* Lineages are numbered as they are minted, so the greater supersedes; 0 is genesis.
Genesis == 0
Lineages == 1 .. Cardinality(Peer) + MaxRestarts
Minted == {l \in Lineages : author[l] # "nobody"}
NextLineage == Cardinality(Minted) + 1

Empty == [lin |-> Genesis, ver |-> 0, msgs |-> <<>>, next |-> 1, ackSeq |-> 0, ackLin |-> Genesis]
NoLine == [open |-> FALSE, resumed |-> FALSE, unsent |-> <<>>, last |-> 0, lin |-> Genesis]
IsOpen(p) == line[p].open

\* Two peers that have neither Line nor documents.
Fresh ==
  /\ phase = [p \in Peer |-> [d \in Docs |-> "absent"]]
  /\ doc = [p \in Peer |-> [d \in Docs |-> Empty]]
  /\ disk = doc
  /\ deleting = [p \in Peer |-> {}]
  /\ wire = [p \in Peer |-> Empty]
  /\ line = [p \in Peer |-> NoLine]
  /\ queue = [p \in Peer |-> <<>>]
  /\ lost = [p \in Peer |-> {}]
  /\ given = [p \in Peer |-> <<>>]
  /\ author = [l \in Lineages |-> "nobody"]
  /\ log = [l \in Lineages |-> <<>>]
  /\ high = [l \in Lineages |-> 0]
  /\ anew = {}

Init == Fresh /\ sends = [p \in Peer |-> 0] /\ restarts = 0

-----------------------------------------------------------------------------
(* The outbox and the inbox. *)

\* A local batch on an outbox; the first mints its lineage.
Flushed(o) == [o EXCEPT !.ver = @ + 1, !.lin = IF @ = Genesis THEN NextLineage ELSE @]

\* Faulty variant: the counter is not advanced.
WrittenSameSeq(o, m) == [Flushed(o) EXCEPT !.msgs = Append(@, [seq |-> o.next, id |-> m])]

\* Messages are written in order, each in a batch of its own.
AllWritten(o, ms) ==
  LET written == [n \in DOMAIN ms |-> [seq |-> o.next + n - 1, id |-> ms[n]]]
  IN  IF ms = <<>> THEN o
      ELSE [Flushed(o) EXCEPT !.ver = o.ver + Len(ms), !.msgs = @ \o written, !.next = @ + Len(ms)]

Written(o, m) == AllWritten(o, <<m>>)

Acked(o, seq, lin) == [Flushed(o) EXCEPT !.ackSeq = seq, !.ackLin = lin]

\* Both loops of the code run from the front: messages up to a sequence number are passed over, what follows is left
\* (as their numbers ascend, the loop over the inbox passes over no later one).
FirstPast(msgs, seq) ==
  CHOOSE n \in 1 .. Len(msgs) + 1 :
    /\ n <= Len(msgs) => msgs[n].seq > seq
    /\ \A k \in 1 .. n - 1 : msgs[k].seq <= seq

Past(msgs, seq) == SubSeq(msgs, FirstPast(msgs, seq), Len(msgs))

\* Faulty variant: an acknowledgement of an earlier lineage prunes.
PrunedAnyLineage(o, i) ==
  LET left == Past(o.msgs, i.ackSeq)
  IN  IF i.ackSeq > 0 /\ left # o.msgs THEN [Flushed(o) EXCEPT !.msgs = left] ELSE o

\* Messages the other peer acknowledged, of this lineage of the outbox, are deleted.  (An emptied outbox is compacted,
\* which changes its history and not what it holds.)
Pruned(o, i) ==
  LET left == Past(o.msgs, i.ackSeq)
  IN  IF i.ackLin = o.lin /\ i.ackSeq > 0 /\ left # o.msgs THEN [Flushed(o) EXCEPT !.msgs = left] ELSE o

\* Faulty variant: only a message received prunes.
AnsweredIfAdvanced(o, i, fresh, last) == IF fresh = <<>> THEN o ELSE Pruned(Acked(o, last, i.lin), i)

\* What the outbox becomes: acknowledging if anything was queued, and pruned in any case.
Answered(o, i, fresh, last) == Pruned(IF fresh = <<>> THEN o ELSE Acked(o, last, i.lin), i)

\* Faulty variant: the cursor outlives the lineage.
LastKept(ln, i) == ln.last

\* A new lineage of the inbox has nothing processed.
LastIn(ln, i) == IF i.lin = ln.lin THEN ln.last ELSE 0

\* What a Line of peer p reads at resume, o and i being its documents then.
Resumed(ln, o, i) ==
  [ln EXCEPT !.resumed = TRUE, !.unsent = <<>>, !.lin = i.lin, !.last = IF o.ackLin = i.lin THEN o.ackSeq ELSE 0]

\* Messages are queued, acknowledged and, if the other acknowledged ours, pruned: one synchronous run.
\* `ids` are the messages this step wrote to o before.
Processes(p, o, i, ln, ids) ==
  LET fresh == Past(i.msgs, LastIn(ln, i))
      ms    == [n \in 1 .. Len(fresh) |-> fresh[n].id]
      last  == IF fresh = <<>> THEN LastIn(ln, i) ELSE fresh[Len(fresh)].seq
      o2    == Answered(o, i, fresh, last)
  IN  /\ doc' = [doc EXCEPT ![p] = [d \in Docs |-> IF d = "outbox" THEN o2 ELSE i]]
      /\ line' = [line EXCEPT ![p] = [ln EXCEPT !.last = last, !.lin = i.lin]]
      /\ queue' = [queue EXCEPT ![p] = @ \o ms]
      /\ given' = [given EXCEPT ![p] = @ \o ms]
      /\ high' = IF last > 0 /\ i.lin \in Lineages THEN [high EXCEPT ![i.lin] = IF last > @ THEN last ELSE @] ELSE high
      /\ author' = IF o2.lin \in Lineages THEN [author EXCEPT ![o2.lin] = p] ELSE author
      /\ log' = IF ids # <<>> THEN [log EXCEPT ![o2.lin] = @ \o ids] ELSE log

\* resume(): cursors from the documents, then what was sent meanwhile, then the inbox.
Resumes(p, o, i, ln) ==
  Processes(p, AllWritten(o, ln.unsent), i, Resumed(ln, o, i), ln.unsent)

-----------------------------------------------------------------------------
(* The application. *)

\* The first sender(), claimReceiver(), manager() or listener: later ones share the Line, which their last close() closes.
Open(p) ==
  /\ ~IsOpen(p)
  /\ phase' = [phase EXCEPT ![p] = [d \in Docs |-> IF @[d] = "absent" THEN "loading" ELSE @[d]]]
  /\ LET ln == [NoLine EXCEPT !.open = TRUE]
     IN  IF \A d \in Docs : phase[p][d] = "ready"
         THEN Resumes(p, doc[p]["outbox"], doc[p]["inbox"], ln)
         ELSE line' = [line EXCEPT ![p] = ln] /\ UNCHANGED <<doc, queue, given, stream>>
  /\ UNCHANGED <<store, wire, counters>>

Send(p) ==
  /\ IsOpen(p) /\ sends[p] < MaxSends[p]
  /\ sends' = [sends EXCEPT ![p] = @ + 1]
  /\ LET m == <<p, sends'[p]>> IN
     IF line[p].resumed
     THEN LET o == Written(doc[p]["outbox"], m)
          IN  /\ doc' = [doc EXCEPT ![p]["outbox"] = o]
              /\ author' = [author EXCEPT ![o.lin] = p]
              /\ log' = [log EXCEPT ![o.lin] = Append(@, m)]
              /\ UNCHANGED <<line, high>>
     ELSE line' = [line EXCEPT ![p].unsent = Append(@, m)] /\ UNCHANGED <<doc, stream>>
  /\ UNCHANGED <<phase, store, wire, queue, given, lost, anew, restarts>>

\* The last close drops the Line, with what it had not written; its queue may still be read.
Close(p) ==
  /\ IsOpen(p) /\ restarts < MaxRestarts
  /\ line' = [line EXCEPT ![p] = NoLine]
  /\ restarts' = restarts + 1
  /\ UNCHANGED <<phase, doc, store, wire, queue, given, stream, lost, anew, sends>>

\* Of the outbox's stream, what the store holds is all that may come back.
Forgets(p) ==
  LET l == doc[p]["outbox"].lin
      d == disk[p]["outbox"]
  IN  log' = IF l = Genesis THEN log ELSE [log EXCEPT ![l] = SubSeq(@, 1, IF d.lin = l THEN d.next - 1 ELSE 0)]

\* Both documents leave memory at once; the store deletes each in its own call.
Destroy(p) ==
  /\ IsOpen(p) /\ restarts < MaxRestarts
  /\ phase' = [phase EXCEPT ![p] = [d \in Docs |-> "absent"]]
  /\ doc' = [doc EXCEPT ![p] = [d \in Docs |-> Empty]]
  /\ deleting' = [deleting EXCEPT ![p] = Docs]
  /\ line' = [line EXCEPT ![p] = NoLine]
  /\ Forgets(p)
  /\ anew' = anew \cup {p} /\ restarts' = restarts + 1
  /\ UNCHANGED <<disk, wire, queue, given, author, high, lost, sends>>

-----------------------------------------------------------------------------
(* The store, the sync layer and the process. *)

\* A load waits for the deletion ahead of it; once both are in, the Line resumes.
Loaded(p, d) ==
  /\ phase[p][d] = "loading" /\ d \notin deleting[p]
  /\ phase' = [phase EXCEPT ![p][d] = "ready"]
  /\ LET loaded == [doc[p] EXCEPT ![d] = disk[p][d]]
     IN  IF IsOpen(p) /\ \A e \in Docs : phase'[p][e] = "ready"
         THEN Resumes(p, loaded["outbox"], loaded["inbox"], line[p])
         ELSE doc' = [doc EXCEPT ![p] = loaded] /\ UNCHANGED <<line, queue, given, stream>>
  /\ UNCHANGED <<store, wire, counters>>

Store(p, d) ==
  /\ phase[p][d] = "ready" /\ disk[p][d] # doc[p][d]
  /\ disk' = [disk EXCEPT ![p][d] = doc[p][d]]
  /\ UNCHANGED <<phase, doc, deleting, wire, line, queue, given, stream, counters>>

Deleted(p, d) ==
  /\ d \in deleting[p]
  /\ deleting' = [deleting EXCEPT ![p] = @ \ {d}]
  /\ disk' = [disk EXCEPT ![p][d] = Empty]
  /\ UNCHANGED <<phase, doc, wire, line, queue, given, stream, counters>>

\* The publish gate: what a peer is offered is stored first.
Published(p) == disk[p]["outbox"] = doc[p]["outbox"]

Export(p) ==
  /\ phase[p]["outbox"] = "ready" /\ Published(p) /\ wire[p] # doc[p]["outbox"]
  /\ wire' = [wire EXCEPT ![p] = doc[p]["outbox"]]
  /\ UNCHANGED <<phase, doc, store, line, queue, given, stream, counters>>

\* An offer continues the inbox's lineage, or supersedes it.
Newer(w, i) == w.lin > i.lin \/ (w.lin = i.lin /\ w.ver > i.ver)

\* An offer reaches the inbox, and its changefeed an open Line that has resumed.
Arrive(p) ==
  LET w == wire[Other(p)] IN
  /\ phase[p]["inbox"] = "ready" /\ Newer(w, doc[p]["inbox"])
  /\ IF line[p].resumed
     THEN Processes(p, doc[p]["outbox"], w, line[p], <<>>)
     ELSE doc' = [doc EXCEPT ![p]["inbox"] = w] /\ UNCHANGED <<line, queue, given, stream>>
  /\ UNCHANGED <<phase, store, wire, counters>>

\* The process stops, and its deletions with it; offers on their way to it are lost.  Reading the queue changes
\* nothing else, so how far the iterator had come is settled here.
Crash(p) ==
  /\ restarts < MaxRestarts
  /\ phase' = [phase EXCEPT ![p] = [d \in Docs |-> "absent"]]
  /\ doc' = [doc EXCEPT ![p] = [d \in Docs |-> Empty]]
  /\ deleting' = [deleting EXCEPT ![p] = {}]
  /\ wire' = [wire EXCEPT ![Other(p)] = Empty]
  /\ line' = [line EXCEPT ![p] = NoLine]
  /\ \E n \in 0 .. Len(queue[p]) : lost' = [lost EXCEPT ![p] = @ \cup {queue[p][k] : k \in n + 1 .. Len(queue[p])}]
  /\ queue' = [queue EXCEPT ![p] = <<>>]
  /\ Forgets(p)
  /\ anew' = anew \cup {p} /\ restarts' = restarts + 1
  /\ UNCHANGED <<disk, given, author, high, sends>>

Application(p) == Open(p) \/ Send(p) \/ Close(p) \/ Destroy(p)
System(p) == Export(p) \/ Arrive(p) \/ \E d \in Docs : Loaded(p, d) \/ Store(p, d) \/ Deleted(p, d)

Next == \E p \in Peer : Application(p) \/ System(p) \/ Crash(p)

Spec == Init /\ [][Next]_vars

\* The system never rests while a call of a store can end or a peer lacks what another published.
Fairness == WF_vars(\E p \in Peer : System(p))

FairSpec == Spec /\ Fairness

-----------------------------------------------------------------------------
(* Properties. *)

Message == Peer \X (Nat \ {0})

DocType == [lin : {Genesis} \cup Lineages, ver : Nat, msgs : Seq([seq : Nat \ {0}, id : Message]),
            next : Nat \ {0}, ackSeq : Nat, ackLin : {Genesis} \cup Lineages]

\* Types of the variables; the sequence numbers of an outbox are consecutive up to `nextSeq`, as `write` gives them.
LineTypeOK ==
  /\ phase \in [Peer -> [Docs -> {"absent", "loading", "ready"}]]
  /\ \A f \in {doc, disk} : \A p \in Peer, d \in Docs :
       /\ f[p][d] \in DocType
       /\ \A n \in DOMAIN f[p][d].msgs : f[p][d].msgs[n].seq = f[p][d].next - Len(f[p][d].msgs) + n - 1
  /\ deleting \in [Peer -> SUBSET Docs]
  /\ line \in [Peer -> [open : BOOLEAN, resumed : BOOLEAN, unsent : Seq(Message), last : Nat, lin : {Genesis} \cup Lineages]]
  /\ \A p \in Peer : queue[p] \in Seq(Message) /\ given[p] \in Seq(Message) /\ lost[p] \subseteq Message
  /\ anew \subseteq Peer

\* The Line implements the streams: nothing is left out or reordered, and only a peer that stopped, or destroyed its
\* Line, is given a message twice.
S == INSTANCE Stream WITH Lineage <- Lineages

StreamSpec == S!Spec

\* What an outbox, in memory or stored, no longer holds of its stream was queued by the other peer: `pruneOutbox` deletes
\* nothing on the word of an acknowledgement of another lineage, or of one that was never stored.
PrunedIsGiven ==
  \A p \in Peer : \A o \in {doc[p]["outbox"], disk[p]["outbox"]} :
    o.lin # Genesis => o.next - Len(o.msgs) - 1 <= high[o.lin]

\* An outbox drains once both peers have their Lines open: acknowledgements travel even when only one of them sends.
Drains ==
  <>[](\A p \in Peer : IsOpen(p)) => <>[](\A p \in Peer : doc[p]["outbox"].msgs = <<>>)

\* What a peer had not read when it stopped it is given again: the other still holds it, or it is already queued anew.
\* packages/exchange/TECHNICAL.md says of a restart that "nothing sent is lost or processed twice".
NothingLost ==
  \A p \in Peer : \A m \in lost[p] :
    LET o == doc[Other(p)]["outbox"]
        kept(f) == \E n \in DOMAIN f.msgs : f.msgs[n].id = m
    IN  kept(o) \/ kept(disk[Other(p)]["outbox"]) \/ \E n \in DOMAIN queue[p] : queue[p][n] = m
=============================================================================
