---------------------------- MODULE Persistence -----------------------------
(***************************************************************************)
(* One stored, concurrent-writer (Yjs, Loro) document of a Runtime, from   *)
(* the local write to the store and out to the network: the drain of own   *)
(* writes, the store program with its executor, the per-document queue of  *)
(* `serialStore`, the storage several processes share, and the publish     *)
(* gate.  The process may crash between any two steps and open again.      *)
(*                                                                         *)
(* An operation is a record.  `by` is who issued it: "own" the seat of the *)
(* process, which is reused by the next run of the process; "temp" the     *)
(* throwaway identity a document writes under until its load adopts the    *)
(* seat; "other" any other peer.  An own operation's ADDRESS is its `pos`: *)
(* the counter a replica issues from what it has loaded.  `run` tells two  *)
(* operations issued at one address apart, which no version can.           *)
(* A version is the set of operations it covers, and reaching is inclusion.*)
(***************************************************************************)
EXTENDS StoreProgram, Sequences

CONSTANTS
  MaxOwn,      \* bound: own counters
  MaxOther,    \* bound: operations of other peers
  MaxRuns,     \* bound: crashes
  MaxFaults,   \* bound: store calls that fail
  MaxGens,     \* bound: instances built in all
  MaxDemands,  \* bound: compactions asked for
  MaxMarks,    \* bound: the mark up to which other seats write
  Strays,      \* may the stream hold a record no replica can take in?
  Rivals       \* may another process claim this one's seat?

ASSUME BoundsAssumption ==
  /\ {MaxOwn, MaxOther, MaxRuns, MaxFaults, MaxGens, MaxDemands, MaxMarks} \subseteq Nat
  /\ {Strays, Rivals} \subseteq BOOLEAN

Op == [by : {"own", "temp", "other"}, pos : Nat, run : Nat]

ASSUME NothingAssumption == Nothing \notin SUBSET Op

VARIABLES
  \* the process's memory
  phase,      \* the store program's phase of the document
  releasing,  \* the generation to be released, or 0
  seatLost,   \* the store program is terminal
  inst,       \* the document's lifecycle, as far as the store sees it
  gen,        \* generation of the latest instance
  replica,    \* the operations the live replica holds
  dirty,      \* own writes the drain has not reached
  imported,   \* a merge the Synchronizer has not reported yet
  ownHigh,    \* the version whose confirmation the gate waits for
  calls,      \* the document's queue of store calls
  retry,      \* the retry timer is armed
  fence,      \* the fence of this run's claim on the seat
  run,        \* number of this run of the process
  \* the storage
  disk,       \* the document's records
  mark,       \* the last mark issued
  seatFence,  \* the fence of the seat's latest claim
  ghosts,     \* calls of dead runs, still on their way to the storage
  \* ghost state
  published,  \* own operations that left the process
  faults,     \* store calls that failed, for the bound
  demands     \* compactions asked for, for the bound

memory  == <<phase, releasing, seatLost, inst, gen, replica, dirty, imported, ownHigh, calls, retry>>
storage == <<disk, mark>>
seat    == <<fence, run, seatFence, ghosts>>
bounds  == <<faults, demands>>
vars    == <<memory, storage, seat, published, bounds>>

Kinds == {"append", "replace", "none", "mark", "loadAll", "writerOf", "load", "delete"}
Call  == [kind : Kinds, gen : Nat, ops : SUBSET Op, version : SUBSET Op, through : Nat]
Record == [at : Nat, ops : SUBSET Op, readable : BOOLEAN]

CallOf(kind) == [kind |-> kind, gen |-> gen, ops |-> {}, version |-> {}, through |-> 0]

WriteKinds == {"append", "replace", "none", "mark", "loadAll"}

Own(ops) == {o \in ops : o.by = "own"}

\* Everything readable in the document's stream.
Contents(records) == UNION {r.ops : r \in {x \in records : x.readable}}
Stored == Contents(disk)

\* The counter a replica holding `ops` issues next.
NextPos(ops, p) ==
  /\ \A o \in Own(ops) : o.pos < p
  /\ \A q \in 1 .. (p - 1) : \E o \in Own(ops) : o.pos = q

-----------------------------------------------------------------------------
(* The publish gate.                                                       *)

\* Faulty variant: any confirmation opens the gate.
GateOpenUnstored(high, confirmed, current) == high = Nothing \/ confirmed # Nothing

GateOpen(high, confirmed, current) ==
  \/ high = Nothing
  \/ ~(high \subseteq current)
  \/ confirmed # Nothing /\ high \subseteq confirmed

-----------------------------------------------------------------------------
(* The store program's executor.                                           *)

\* The first store call of a write: what it stores is read from the replica now.
Prepared(w, p, rep) ==
  CASE w = "compact"                      -> CallOf("mark")
    [] w = "register"                     -> [CallOf("append") EXCEPT !.ops = rep, !.version = rep]
    [] w = "since" /\ rep = p.version     -> [CallOf("none") EXCEPT !.version = rep]
    [] w = "since" /\ rep # p.version     -> [CallOf("append") EXCEPT !.ops = rep \ p.version, !.version = rep]

(***************************************************************************)
(* What the store program's effects read and write.  A handler hands       *)
(* Dispatch these as it left them.                                         *)
(***************************************************************************)
Now == [inst |-> inst, replica |-> replica, calls |-> calls, retry |-> retry,
        ownHigh |-> ownHigh, releasing |-> releasing]

\* #confirmed: a confirmation that reaches ownHigh opens the gate.
HighAfter(s, now) ==
  IF /\ s.persisted # Nothing
     /\ now.ownHigh # Nothing
     /\ GateOpen(now.ownHigh, s.persisted, now.replica)
  THEN Nothing ELSE now.ownHigh

CallsAfter(s, now) ==
  IF s.write = "none" THEN now.calls
  ELSE Append(now.calls, Prepared(s.write, s.phase, now.replica))

\* `persist` cancels a scheduled retry, `retry` arms one.
RetryAfter(s, now) == s.write = "none" /\ (now.retry \/ s.retry)

Keeps(s, now) ==
  /\ phase' = s.phase
  /\ releasing' = now.releasing
  /\ inst' = now.inst
  /\ replica' = now.replica
  /\ calls' = CallsAfter(s, now)
  /\ retry' = RetryAfter(s, now)
  /\ ownHigh' = HighAfter(s, now)

\* The lifecycle takes a release: the instance closes and leaves memory.
Unloads(s, now) ==
  /\ phase' = Untracked
  /\ releasing' = 0
  /\ inst' = "unloaded"
  /\ replica' = {}
  /\ calls' = now.calls
  /\ retry' = RetryAfter(s, now)
  /\ ownHigh' = Nothing

\* A subscriber of the confirmation opened the document before the release
\* was acted on: the lifecycle, ready again, hands the release back.
HandsBack(s, now) ==
  /\ s.persisted # Nothing
  /\ Keeps([OnHydrated(Untracked, s.phase.version) EXCEPT !.persisted = s.persisted],
           [now EXCEPT !.inst = "ready", !.releasing = 0])

\* An input to the store program: its step `s`, then one check for a
\* release, then the effects.  A terminal program answers with nothing.
Dispatch(s, now) ==
  IF seatLost THEN Keeps(Ignored(phase), now)
  ELSE IF now.releasing # 0 /\ StoredEntirely(s.phase)
       THEN Unloads(s, now) \/ HandsBack(s, now)
       ELSE Keeps(s, now)

-----------------------------------------------------------------------------
(* Doors: get, unload, destroy, compact, and the local write.              *)

Held == inst \in {"ready", "storing"}

\* Faulty variant: hydration is one store call.
GetInOneCall ==
  /\ inst \in {"absent", "unloaded"}
  /\ gen < MaxGens
  /\ gen' = gen + 1
  /\ inst' = "loading"
  /\ replica' = {}
  /\ ownHigh' = Nothing
  /\ calls' = Append(calls, [CallOf("load") EXCEPT !.gen = gen + 1])
  /\ UNCHANGED <<phase, releasing, seatLost, dirty, imported, retry, storage, seat, published, bounds>>

\* get / open of a document with no instance: build one, and load it.
Get ==
  /\ inst \in {"absent", "unloaded"}
  /\ gen < MaxGens
  /\ gen' = gen + 1
  /\ inst' = "loading"
  /\ replica' = {}
  /\ ownHigh' = Nothing
  /\ calls' = Append(calls, [CallOf("writerOf") EXCEPT !.gen = gen + 1])
  /\ UNCHANGED <<phase, releasing, seatLost, dirty, imported, retry, storage, seat, published, bounds>>

\* A write on the ref while it loads goes under the throwaway identity.
WriteWhileLoading ==
  /\ inst = "loading"
  /\ LET o == [by |-> "temp", pos |-> gen, run |-> run] IN
     /\ o \notin replica
     /\ replica' = replica \cup {o}
  /\ UNCHANGED <<phase, releasing, seatLost, inst, gen, dirty, imported, ownHigh, calls, retry, storage, seat, published, bounds>>

\* A write under the adopted seat: the local-update signal marks it dirty.
LocalWrite ==
  /\ inst = "ready"
  /\ \E p \in 1 .. MaxOwn :
       /\ NextPos(replica, p)
       /\ replica' = replica \cup {[by |-> "own", pos |-> p, run |-> run]}
  /\ dirty' = TRUE
  /\ UNCHANGED <<phase, releasing, seatLost, inst, gen, imported, ownHigh, calls, retry, storage, seat, published, bounds>>

\* The microtask: bring own writes into view, and ask for their storage.
Drain ==
  /\ dirty
  /\ dirty' = FALSE
  /\ IF Held
     THEN Dispatch(OnStateAdvanced(phase), [Now EXCEPT !.ownHigh = replica])
     ELSE UNCHANGED <<phase, releasing, inst, replica, calls, retry, ownHigh>>
  /\ UNCHANGED <<seatLost, gen, imported, storage, seat, published, bounds>>

\* Runtime.publishable, then the export: drain, ask the gate, send.
Export ==
  LET high == IF dirty THEN replica ELSE ownHigh
      s    == IF dirty /\ ~seatLost THEN OnStateAdvanced(phase) ELSE Ignored(phase)
  IN /\ Held
     /\ dirty' = FALSE
     /\ Dispatch(s, [Now EXCEPT !.ownHigh = high])
     /\ published' = IF GateOpen(high, ConfirmedVersion(s.phase), replica)
                     THEN published \cup Own(replica) ELSE published
     /\ UNCHANGED <<seatLost, gen, imported, storage, seat, bounds>>

\* A peer's offer is merged; the store hears of it at the next quiet point.
\* A leaving document takes nothing in.
Merge ==
  /\ inst = "ready"
  /\ \E k \in 1 .. MaxOther :
       LET o == [by |-> "other", pos |-> k, run |-> 0] IN
       /\ o \notin replica
       /\ replica' = replica \cup {o}
  /\ imported' = TRUE
  /\ UNCHANGED <<phase, releasing, seatLost, inst, gen, dirty, ownHigh, calls, retry, storage, seat, published, bounds>>

QuietPoint ==
  /\ imported
  /\ imported' = FALSE
  /\ Dispatch(OnStateAdvanced(phase), Now)
  /\ UNCHANGED <<seatLost, gen, dirty, storage, seat, published, bounds>>

Compact ==
  /\ Held
  /\ demands < MaxDemands
  /\ demands' = demands + 1
  /\ Dispatch(OnCompact(phase), Now)
  /\ UNCHANGED <<seatLost, gen, dirty, imported, storage, seat, published, faults>>

RetryFires ==
  /\ retry
  /\ Dispatch(OnStateAdvanced(phase), [Now EXCEPT !.retry = FALSE])
  /\ UNCHANGED <<seatLost, gen, dirty, imported, storage, seat, published, bounds>>

\* unload: own writes are refused from here on, a last write is asked for
\* (after the drain's own request, if there was one), then the release.
Unload ==
  LET s1 == IF dirty THEN OnStateAdvanced(phase) ELSE Ignored(phase)
      s2 == OnStateAdvanced(s1.phase)
      s  == [s2 EXCEPT !.write = IF s1.write # "none" THEN s1.write ELSE s2.write]
  IN /\ inst = "ready"
     /\ dirty' = FALSE
     /\ Dispatch(s, [Now EXCEPT !.inst = "storing",
                                !.ownHigh = IF dirty THEN replica ELSE ownHigh,
                                !.releasing = IF seatLost THEN 0 ELSE gen])
     /\ UNCHANGED <<seatLost, gen, imported, storage, seat, published, bounds>>

\* get / open before the release: cancel the unload.
Reopen ==
  /\ inst = "storing"
  /\ Dispatch(Ignored(phase), [Now EXCEPT !.inst = "ready", !.releasing = 0])
  /\ UNCHANGED <<seatLost, gen, dirty, imported, storage, seat, published, bounds>>

\* destroy: the instance ends, the store program forgets the document, and
\* the delete queues behind the calls already made.  What the document
\* published is no longer its own: a destroyed id must not be reused.
Destroy ==
  /\ inst # "absent" \/ disk # {}
  /\ \A i \in DOMAIN calls : calls[i].kind # "delete"   \* bound: one at a time
  /\ inst' = "absent"
  /\ replica' = {}
  /\ ownHigh' = Nothing
  /\ published' = {}
  /\ IF seatLost
     THEN UNCHANGED <<phase, releasing, calls, retry>>
     ELSE /\ phase' = Untracked
          /\ releasing' = 0
          /\ calls' = Append(calls, CallOf("delete"))
          /\ retry' = FALSE
  /\ UNCHANGED <<seatLost, gen, dirty, imported, storage, seat, bounds>>

-----------------------------------------------------------------------------
(* Store calls.  The queue runs one call of the document at a time; each   *)
(* action below is the call at its head reaching the storage and its       *)
(* caller being told, which queues the caller's next call.                 *)

\* Faulty variant: a write is not checked against the seat's latest claim.
SeatHeldUnfenced(f) == TRUE

\* The check of every write transaction: is the fence still the latest?
SeatHeld(f) == f = seatFence

HeadIs(kind) == calls # <<>> /\ Head(calls).kind = kind

Dequeued == [Now EXCEPT !.calls = Tail(calls)]

Appended(ops) == disk \cup {[at |-> mark + 1, ops |-> ops, readable |-> TRUE]}

\* Faulty variant: everything is replaced, whatever was read.
ReplacedAll(through, ops) == {[at |-> mark + 1, ops |-> ops, readable |-> TRUE]}

\* What `compact` makes of the stream: the records through the mark replaced.
Replaced(through, ops) ==
  {r \in disk : r.at > through} \cup {[at |-> mark + 1, ops |-> ops, readable |-> TRUE]}

Applied(c) ==
  /\ disk' = IF c.kind = "append" THEN Appended(c.ops) ELSE Replaced(c.through, c.ops)
  /\ mark' = mark + 1

WriteDone ==
  LET c == Head(calls) IN
  /\ HeadIs("append") \/ HeadIs("replace")
  /\ SeatHeld(fence)
  /\ Applied(c)
  /\ Dispatch(OnWriteSucceeded(phase, c.version), Dequeued)
  /\ UNCHANGED <<seatLost, gen, dirty, imported, seat, published, bounds>>

\* A `since` write that found nothing new touches no store.
NothingToWrite ==
  /\ HeadIs("none")
  /\ Dispatch(OnWriteSucceeded(phase, Head(calls).version), Dequeued)
  /\ UNCHANGED <<seatLost, gen, dirty, imported, storage, seat, published, bounds>>

\* A call of a write fails; a failed write may have been applied all the same.
WriteFault ==
  /\ \E k \in {"append", "replace", "mark", "loadAll"} : HeadIs(k)
  /\ faults < MaxFaults
  /\ faults' = faults + 1
  /\ \/ UNCHANGED storage
     \/ /\ HeadIs("append") \/ HeadIs("replace")
        /\ SeatHeld(fence)
        /\ Applied(Head(calls))
  /\ Dispatch(OnWriteFailed(phase), Dequeued)
  /\ UNCHANGED <<seatLost, gen, dirty, imported, seat, published, demands>>

\* A write finds the seat claimed again: the program becomes terminal.
SeatLost ==
  /\ \E k \in {"append", "replace", "delete"} : HeadIs(k)
  /\ ~SeatHeld(fence)
  /\ seatLost' = TRUE
  /\ phase' = Untracked
  /\ releasing' = 0
  /\ retry' = FALSE
  /\ calls' = Tail(calls)
  /\ UNCHANGED <<inst, gen, replica, dirty, imported, ownHigh, storage, seat, published, bounds>>

\* Compaction, first call: the mark.
MarkRead ==
  /\ HeadIs("mark")
  /\ calls' = Append(Tail(calls), [Head(calls) EXCEPT !.kind = "loadAll", !.through = mark])
  /\ UNCHANGED <<phase, releasing, seatLost, inst, gen, replica, dirty, imported, ownHigh, retry, storage, seat, published, bounds>>

\* Compaction, second call: take the stream into the live replica, then write
\* the whole document over what was read.  With a record that cannot be taken
\* in it appends what a plain write would; without the instance it fails.
CompactionRead ==
  LET c     == Head(calls)
      taken == replica \cup Stored
      whole == [c EXCEPT !.kind = "replace", !.ops = taken, !.version = taken]
      w     == IF ConfirmedVersion(phase) = Nothing THEN "register" ELSE "since"
      next  == IF \A r \in disk : r.readable THEN whole ELSE Prepared(w, phase, taken)
  IN /\ HeadIs("loadAll")
     /\ IF Held /\ c.gen = gen
        THEN /\ replica' = taken
             /\ calls' = Append(Tail(calls), next)
             /\ UNCHANGED <<phase, releasing, inst, ownHigh, retry>>
        ELSE Dispatch(OnWriteFailed(phase), Dequeued)
     /\ UNCHANGED <<seatLost, gen, dirty, imported, storage, seat, published, bounds>>

\* Hydration's first call.  It goes on whatever became of its instance.
WriterRead ==
  /\ HeadIs("writerOf")
  /\ calls' = Append(Tail(calls), [Head(calls) EXCEPT !.kind = "load"])
  /\ UNCHANGED <<phase, releasing, seatLost, inst, gen, replica, dirty, imported, ownHigh, retry, storage, seat, published, bounds>>

\* Faulty variant: a load reports the replica's live version as stored.
LoadedVersionLive(rep) == rep

\* The version a load reports: the join of the entries it took in.
LoadedVersion(rep) == Stored

\* The load ends: a stale generation is ignored; otherwise the document is
\* ready, adopts the seat, and the store program hears what the store holds.
Loaded ==
  LET c     == Head(calls)
      taken == replica \cup Stored
      found == \E r \in disk : r.readable
      s     == IF found THEN OnHydrated(phase, LoadedVersion(taken)) ELSE OnRegister(phase)
  IN /\ HeadIs("load")
     /\ IF inst = "loading" /\ c.gen = gen
        THEN Dispatch(s, [Dequeued EXCEPT !.inst = "ready", !.replica = taken])
        ELSE Keeps(Ignored(phase), Dequeued)
     /\ UNCHANGED <<seatLost, gen, dirty, imported, storage, seat, published, bounds>>

LoadFault ==
  /\ HeadIs("writerOf") \/ HeadIs("load")
  /\ faults < MaxFaults
  /\ faults' = faults + 1
  /\ calls' = Tail(calls)
  /\ inst' = IF inst = "loading" /\ Head(calls).gen = gen THEN "failed" ELSE inst
  /\ UNCHANGED <<phase, releasing, seatLost, gen, replica, dirty, imported, ownHigh, retry, storage, seat, published, demands>>

DeleteDone ==
  /\ HeadIs("delete")
  /\ SeatHeld(fence)
  /\ disk' = {}
  /\ calls' = Tail(calls)
  /\ UNCHANGED <<phase, releasing, seatLost, inst, gen, replica, dirty, imported, ownHigh, retry, mark, seat, published, bounds>>

DeleteFault ==
  /\ HeadIs("delete")
  /\ faults < MaxFaults
  /\ faults' = faults + 1
  /\ calls' = Tail(calls)
  /\ UNCHANGED <<phase, releasing, seatLost, inst, gen, replica, dirty, imported, ownHigh, retry, storage, seat, published, demands>>

-----------------------------------------------------------------------------
(* The environment: crashes, and other processes on the same storage.      *)

\* The process dies and opens again under the same seat, claiming it with the
\* next fence.  The call at the storage when it died may still arrive there.
Crash ==
  /\ run < MaxRuns
  /\ run' = run + 1
  /\ seatFence' = seatFence + 1
  /\ fence' = seatFence + 1
  /\ ghosts' = ghosts \cup {[call |-> calls[i], fence |-> fence] : i \in
                  {j \in DOMAIN calls : j = 1 /\ calls[j].kind \in {"append", "replace"}}}
  /\ phase' = Untracked /\ releasing' = 0 /\ seatLost' = FALSE
  /\ inst' = "absent" /\ replica' = {} /\ dirty' = FALSE /\ imported' = FALSE
  /\ ownHigh' = Nothing /\ calls' = <<>> /\ retry' = FALSE
  /\ UNCHANGED <<gen, storage, published, bounds>>

GhostArrives ==
  /\ \E g \in ghosts :
       /\ ghosts' = ghosts \ {g}
       /\ IF SeatHeld(g.fence) THEN Applied(g.call) ELSE UNCHANGED storage
  /\ UNCHANGED <<memory, fence, run, seatFence, published, bounds>>

\* Another process is given this one's seat: its lock was released while it
\* lives (a frozen tab).  That process is store-first too: it writes at the
\* next address the stream leaves free, stores it, then sends it.
SeatTaken ==
  /\ Rivals
  /\ fence = seatFence
  /\ seatFence' = seatFence + 1
  /\ UNCHANGED <<memory, storage, fence, run, ghosts, published, bounds>>

RivalWrites ==
  /\ fence # seatFence
  /\ \E p \in 1 .. MaxOwn :
       LET o == [by |-> "own", pos |-> p, run |-> MaxRuns + seatFence] IN
       /\ NextPos(Stored, p)
       /\ disk' = Appended({o})
       /\ mark' = mark + 1
       /\ published' = published \cup {o}
  /\ UNCHANGED <<memory, seat, bounds>>

\* Another seat of the storage appends what it holds, or leaves a record
\* this replica cannot read.
OtherSeatAppends ==
  /\ mark < MaxMarks
  /\ \/ \E k \in 1 .. MaxOther :
          LET o == [by |-> "other", pos |-> k, run |-> 0] IN
          o \notin Stored /\ disk' = Appended({o})
     \/ /\ Strays
        /\ \A r \in disk : r.readable
        /\ disk' = disk \cup {[at |-> mark + 1, ops |-> {}, readable |-> FALSE]}
  /\ mark' = mark + 1
  /\ UNCHANGED <<memory, seat, published, bounds>>

\* Another seat compacts: what it read, through its mark, becomes one record.
OtherSeatCompacts ==
  /\ mark < MaxMarks
  /\ \A r \in disk : r.readable
  /\ \E m \in {r.at : r \in disk} :
       LET read == {r \in disk : r.at <= m} IN
       /\ \E r, s \in read : r # s
       /\ disk' = (disk \ read)
                    \cup {[at |-> mark + 1, ops |-> Contents(read), readable |-> TRUE]}
  /\ mark' = mark + 1
  /\ UNCHANGED <<memory, seat, published, bounds>>

-----------------------------------------------------------------------------
Init ==
  /\ phase = Untracked /\ releasing = 0 /\ seatLost = FALSE
  /\ inst = "absent" /\ gen = 0 /\ replica = {} /\ dirty = FALSE /\ imported = FALSE
  /\ ownHigh = Nothing /\ calls = <<>> /\ retry = FALSE
  /\ fence = 1 /\ run = 0
  /\ disk = {} /\ mark = 0 /\ seatFence = 1 /\ ghosts = {}
  /\ published = {} /\ faults = 0 /\ demands = 0

Doors == Get \/ WriteWhileLoading \/ LocalWrite \/ Compact \/ Unload \/ Reopen \/ Destroy

Network == Merge \/ Export

Shell == Drain \/ QuietPoint \/ RetryFires

StoreCalls ==
  \/ WriteDone \/ NothingToWrite \/ SeatLost
  \/ MarkRead \/ CompactionRead
  \/ WriterRead \/ Loaded \/ DeleteDone

Faults == WriteFault \/ LoadFault \/ DeleteFault \/ Crash \/ GhostArrives

Others == SeatTaken \/ RivalWrites \/ OtherSeatAppends \/ OtherSeatCompacts

Next == Doors \/ Network \/ Shell \/ StoreCalls \/ Faults \/ Others

(***************************************************************************)
(* Microtasks run, timers fire and a store answers every call, by success  *)
(* or by error; nobody has to write, and nothing has to fail.              *)
(***************************************************************************)
Fairness ==
  /\ WF_vars(Drain) /\ WF_vars(QuietPoint) /\ WF_vars(RetryFires)
  /\ WF_vars(StoreCalls)

Spec == Init /\ [][Next]_vars /\ Fairness

-----------------------------------------------------------------------------
(* Properties.                                                             *)

Version == SUBSET Op
Phase == [status : {"untracked", "settled", "writing"}, version : Version \cup {Nothing},
          failures : Nat, owed : {"none", "advance", "compact"}]

\* Type invariant of the process and of the storage.
TypeOK ==
  /\ phase \in Phase /\ releasing \in Nat /\ seatLost \in BOOLEAN
  /\ inst \in {"absent", "loading", "failed", "ready", "storing", "unloaded"}
  /\ gen \in Nat /\ replica \in Version /\ dirty \in BOOLEAN /\ imported \in BOOLEAN
  /\ ownHigh \in Version \cup {Nothing}
  /\ calls \in Seq(Call) /\ retry \in BOOLEAN
  /\ fence \in Nat /\ run \in Nat /\ seatFence \in Nat
  /\ disk \in SUBSET Record /\ mark \in Nat
  /\ ghosts \in SUBSET [call : Call, fence : Nat]
  /\ published \in Version /\ faults \in Nat /\ demands \in Nat

\* Store-first (publish-gate.ts, Runtime.publishable): an own operation that
\* left the process is in the store, whatever crashes, fails or is compacted.
StoreFirst == Own(published) \subseteq Stored

\* What store-first is for: no two operations that were stored or sent were
\* ever issued at one address, over every run that used the seat.
NoAddressReuse ==
  \A o, q \in Own(published \cup Stored) : o.pos = q.pos => o = q

\* The version the store program records as confirmed (confirmedVersion) is
\* one the store really holds: a delta is never computed from less.
ConfirmedIsStored == phase.version = Nothing \/ phase.version \subseteq Stored

\* When nothing is in flight, owed, dirty, to be reported or to be retried,
\* everything the replica holds is in the store: no change is ever forgotten.
QuietMeansStored ==
  /\ inst = "ready" /\ ~seatLost /\ IsSettled(phase)
  /\ ~dirty /\ ~imported /\ ~retry
  => phase.status = "settled" /\ replica \subseteq Stored

\* Runtime.#prepareWrite calls a write of a document not held "a broken
\* invariant"; and a tracked document has one write in flight or none,
\* exactly as its phase says, so no report is waited for that cannot come.
OneWriteInFlight ==
  LET live == {i \in DOMAIN calls : calls[i].kind \in WriteKinds /\ calls[i].gen = gen} IN
  /\ phase.status # "untracked" => Held
  /\ phase.status = "writing" => \E i \in live : live = {i}
  /\ phase.status = "settled" => live = {}

\* What the phase says of the calls under way and of the store is true.
PhaseIsTrue == OneWriteInFlight /\ QuietMeansStored

\* released is taken only when the store holds all of the document: an
\* instance that leaves memory leaves nothing behind.
UnloadLosesNothing ==
  [][inst' = "unloaded" /\ inst # "unloaded" => replica \subseteq Stored']_vars

\* Reports carry no generation and are told apart only by the order
\* serialStore keeps: a document never takes the report of an instance that
\* was destroyed before it.
ReportsAreOurs ==
  [][/\ WriteDone \/ NothingToWrite \/ CompactionRead \/ WriteFault
     /\ Head(calls).gen # gen
     => phase' = phase]_vars

\* Only a delete removes anything from the stream: no append, no compaction
\* of this process or another's, and no call of a dead run loses a record.
NothingStoredIsLost ==
  [][/\ ~HeadIs("delete")
     => /\ Stored \subseteq Stored'
        /\ \A r \in disk : ~r.readable => r \in disk']_vars

\* A document held back for the store is let go in the end: the store
\* confirms its own writes, unless the document is closed or its seat lost.
GateReopens == (ownHigh # Nothing) ~> (ownHigh = Nothing \/ seatLost)

\* An unload ends: the document leaves memory, is kept, or the seat is lost.
UnloadEnds == (inst = "storing") ~> (inst # "storing" \/ seatLost)

-----------------------------------------------------------------------------
(* The invariant that makes StoreFirst and ConfirmedIsStored inductive.    *)

HeldIn == {"ready", "storing"}

Writes == {"append", "replace", "none"}

\* A queued write reports as stored no more than the store will then hold,
\* and a queued replacement keeps all that its compaction read.
CallOK(c, g, records, m) ==
  /\ c.gen <= g
  /\ c.kind \in {"append", "replace"} => c.version \subseteq Contents(records) \cup c.ops
  /\ c.kind = "none" => c.version \subseteq Contents(records)
  /\ c.kind \in {"loadAll", "replace"} => c.through <= m
  /\ c.kind = "replace" => Contents({r \in records : r.at <= c.through}) \subseteq c.ops

QueueOK(cs, g, records, m) == \A k \in DOMAIN cs : CallOK(cs[k], g, records, m)

\* While a delete is queued the document is not held, no write is queued
\* behind it, and the load under way is.
DeleteOK(cs, i, g) ==
  \A k \in DOMAIN cs : cs[k].kind = "delete" =>
    /\ i \notin HeldIn
    /\ \A j \in DOMAIN cs :
         /\ j > k => cs[j].kind \notin Writes
         /\ j < k /\ i = "loading" /\ cs[j].kind \in {"writerOf", "load"} => cs[j].gen # g

\* An own operation of a held document is stored, waits for the drain, or is
\* what the gate waits for.
GateOK(i, rep, high, d, st) ==
  /\ i \in HeldIn => \A o \in Own(rep) : o \in st \/ d \/ (high # Nothing /\ o \in high)
  /\ high # Nothing => i \in HeldIn /\ high \subseteq rep
  /\ i = "loading" => Own(rep) = {}

\* Only a held document is tracked, and none once the seat is lost.
TrackedOK == (seatLost \/ inst \notin HeldIn) => phase = Untracked

\* No dead run can write any more; a delete erases nothing published.
SeatOK ==
  /\ fence <= seatFence
  /\ \A g \in ghosts : g.fence < seatFence
  /\ fence = seatFence /\ (\E k \in DOMAIN calls : calls[k].kind = "delete") => published = {}

\* Store-first with all it rests on: what the queue of store calls, the
\* phase, the gate and the fences promise each other (runtime.ts, seats.ts,
\* serial-store.ts).
StoreFirstInv ==
  /\ ConfirmedIsStored /\ StoreFirst
  /\ QueueOK(calls, gen, disk, mark) /\ DeleteOK(calls, inst, gen)
  /\ GateOK(inst, replica, ownHigh, dirty, Stored)
  /\ TrackedOK /\ SeatOK

=============================================================================
