-------------------------- MODULE PersistenceProofs --------------------------
(***************************************************************************)
(* Proofs about Persistence, for every value of its bounds.  First its     *)
(* type invariant, and store-first: nothing of this process's own leaves   *)
(* it before the store holds it, over every crash, failed write,           *)
(* compaction, delete and seat taken away.                                 *)
(*                                                                         *)
(* Then, from a second inductive invariant on top of store-first's: what   *)
(* the store program's phase says of the calls under way and of the store  *)
(* is true, an unload loses nothing, no instance takes another's report,   *)
(* only a delete takes anything from the stream, and no address of the     *)
(* seat is issued twice.                                                   *)
(***************************************************************************)
EXTENDS Persistence, TLAPS

Steps == [phase : Phase, write : {"none", "register", "since", "compact"},
          persisted : Version \cup {Nothing}, retry : BOOLEAN]

Shells == [inst : {"absent", "loading", "failed", "ready", "storing", "unloaded"},
           replica : Version, calls : Seq(Call), retry : BOOLEAN,
           ownHigh : Version \cup {Nothing}, releasing : Nat]

-----------------------------------------------------------------------------
(* Every input of the store program makes a step.                          *)

\* Starting a write from a settled phase is a step of the program.
LEMMA StartTyped ==
  ASSUME NEW p \in Phase, NEW owed \in {"advance", "compact"}
  PROVE  Start(p, owed) \in Steps
BY DEF Start, Step, WriteKind, Steps, Phase

\* So is requesting one.
LEMMA RequestTyped ==
  ASSUME NEW p \in Phase, NEW owed \in {"advance", "compact"}
  PROVE  Request(p, owed) \in Steps
<1>1. CASE p.status = "writing"
  <2>1. [p EXCEPT !.owed = JoinOwed(p.owed, owed)] \in Phase
    BY DEF JoinOwed, Phase
  <2>2. QED
    BY <1>1, <2>1 DEF Request, Ignored, Step, Steps
<1>2. CASE p.status # "writing"
  BY <1>2, StartTyped DEF Request
<1>3. QED
  BY <1>1, <1>2

\* A settled phase at a version or at none is a phase.
LEMMA SettledTyped ==
  ASSUME NEW v \in Version \cup {Nothing}, NEW f \in Nat
  PROVE  SettledAt(v, f) \in Phase
BY DEF SettledAt, Phase

\* The inputs that carry no version.
LEMMA InputsTyped ==
  ASSUME NEW p \in Phase
  PROVE  /\ Ignored(p) \in Steps
         /\ OnRegister(p) \in Steps
         /\ OnStateAdvanced(p) \in Steps
         /\ OnCompact(p) \in Steps
         /\ OnWriteFailed(p) \in Steps
<1>1. Ignored(p) \in Steps
  BY DEF Ignored, Step, Steps
<1>2. OnRegister(p) \in Steps
  BY SettledTyped, RequestTyped DEF OnRegister
<1>3. OnStateAdvanced(p) \in Steps
  BY <1>1, RequestTyped DEF OnStateAdvanced
<1>4. OnCompact(p) \in Steps
  BY <1>1, RequestTyped DEF OnCompact
<1>5. OnWriteFailed(p) \in Steps
  <2>1. SettledAt(p.version, p.failures + 1) \in Phase
    <3>1. p.version \in Version \cup {Nothing} /\ p.failures + 1 \in Nat
      BY DEF Phase
    <3>2. QED
      BY <3>1, SettledTyped
  <2>2. SettleWrite(p, SettledAt(p.version, p.failures + 1)) \in Steps
    BY <2>1, StartTyped DEF SettleWrite, Ignored, Step, Steps, Phase
  <2>3. QED
    BY <1>1, <2>2 DEF OnWriteFailed, Steps
<1>6. QED
  BY <1>1, <1>2, <1>3, <1>4, <1>5

\* The inputs that carry one.
LEMMA VersionInputsTyped ==
  ASSUME NEW p \in Phase, NEW v \in Version
  PROVE  /\ OnHydrated(p, v) \in Steps
         /\ OnWriteSucceeded(p, v) \in Steps
<1>1. SettledAt(v, 0) \in Phase
  BY SettledTyped
<1>2. SettleWrite(p, SettledAt(v, 0)) \in Steps
  BY <1>1, StartTyped DEF SettleWrite, Ignored, Step, Steps, Phase
<1>3. QED
  BY <1>1, <1>2, RequestTyped, InputsTyped DEF OnHydrated, OnWriteSucceeded, Steps

-----------------------------------------------------------------------------
(* The executor.                                                           *)

\* Every write the program asks for is prepared as a store call.
LEMMA PreparedTyped ==
  ASSUME gen \in Nat, NEW w \in {"register", "since", "compact"},
         NEW p \in Phase, NEW rep \in Version
  PROVE  Prepared(w, p, rep) \in Call
BY DEF Prepared, CallOf, Call, Kinds, Version, Phase

\* What keeping the document leaves is well typed.
LEMMA KeepsTyped ==
  ASSUME TypeOK, NEW t \in Steps, NEW n \in Shells, Keeps(t, n)
  PROVE  /\ phase' \in Phase
         /\ releasing' \in Nat
         /\ inst' \in {"absent", "loading", "failed", "ready", "storing", "unloaded"}
         /\ replica' \in Version
         /\ calls' \in Seq(Call)
         /\ retry' \in BOOLEAN
         /\ ownHigh' \in Version \cup {Nothing}
<1>1. CallsAfter(t, n) \in Seq(Call)
  <2>1. CASE t.write = "none"
    BY <2>1 DEF CallsAfter, Shells
  <2>2. CASE t.write # "none"
    <3>1. Prepared(t.write, t.phase, n.replica) \in Call
      BY <2>2, PreparedTyped DEF TypeOK, Steps, Shells
    <3>2. QED
      BY <2>2, <3>1 DEF CallsAfter, Shells
  <2>3. QED
    BY <2>1, <2>2
<1>2. HighAfter(t, n) \in Version \cup {Nothing}
  BY DEF HighAfter, Shells
<1>3. RetryAfter(t, n) \in BOOLEAN
  BY DEF RetryAfter, Shells, Steps
<1>4. QED
  BY <1>1, <1>2, <1>3 DEF Keeps, Steps, Shells

\* What dispatching a step leaves is well typed.
LEMMA DispatchTyped ==
  ASSUME TypeOK, NEW s \in Steps, NEW now \in Shells, Dispatch(s, now)
  PROVE  /\ phase' \in Phase
         /\ releasing' \in Nat
         /\ inst' \in {"absent", "loading", "failed", "ready", "storing", "unloaded"}
         /\ replica' \in Version
         /\ calls' \in Seq(Call)
         /\ retry' \in BOOLEAN
         /\ ownHigh' \in Version \cup {Nothing}
<1>1. CASE Keeps(s, now)
  BY <1>1, KeepsTyped
<1>2. CASE seatLost /\ Keeps(Ignored(phase), now)
  BY <1>2, KeepsTyped, InputsTyped DEF TypeOK
<1>3. CASE Unloads(s, now)
  <2>1. Untracked \in Phase
    BY DEF Untracked, Phase
  <2>2. RetryAfter(s, now) \in BOOLEAN
    BY DEF RetryAfter, Shells, Steps
  <2>3. QED
    BY <1>3, <2>1, <2>2 DEF Unloads, Shells, Version
<1>4. CASE HandsBack(s, now) /\ StoredEntirely(s.phase)
  <2>1. s.phase.version \in Version
    BY <1>4 DEF StoredEntirely, Steps, Phase
  <2>2. Untracked \in Phase
    BY DEF Untracked, Phase
  <2>3. [OnHydrated(Untracked, s.phase.version) EXCEPT !.persisted = s.persisted] \in Steps
    BY <2>1, <2>2, VersionInputsTyped DEF Steps
  <2>4. [now EXCEPT !.inst = "ready", !.releasing = 0] \in Shells
    BY DEF Shells
  <2>5. QED
    BY <1>4, <2>3, <2>4, KeepsTyped DEF HandsBack
<1>5. QED
  BY <1>1, <1>2, <1>3, <1>4 DEF Dispatch

-----------------------------------------------------------------------------
(* The type invariant.                                                     *)

\* The process's memory, as Dispatch is handed it.
LEMMA NowTyped ==
  ASSUME TypeOK
  PROVE  Now \in Shells
BY DEF TypeOK, Now, Shells

\* The same, with the call at the head of the queue taken off.
LEMMA DequeuedTyped ==
  ASSUME TypeOK, calls # <<>>
  PROVE  Head(calls) \in Call /\ Tail(calls) \in Seq(Call) /\ Dequeued \in Shells
<1>1. Head(calls) \in Call /\ Tail(calls) \in Seq(Call)
  BY DEF TypeOK
<1>2. QED
  BY <1>1, NowTyped DEF Dequeued, Shells

\* A write transaction leaves records and a mark.
LEMMA AppliedTyped ==
  ASSUME TypeOK, NEW c \in Call, Applied(c)
  PROVE  disk' \in SUBSET Record /\ mark' \in Nat
<1>1. disk \in SUBSET Record /\ mark \in Nat
  BY DEF TypeOK
<1>2. [at |-> mark + 1, ops |-> c.ops, readable |-> TRUE] \in Record
  BY <1>1 DEF Call, Record
<1>3. Appended(c.ops) \in SUBSET Record /\ Replaced(c.through, c.ops) \in SUBSET Record
  BY <1>1, <1>2 DEF Appended, Replaced
<1>4. mark + 1 \in Nat
  BY <1>1
<1>5. QED
  BY <1>3, <1>4 DEF Applied

\* What the stream holds is a version.
LEMMA StoredTyped ==
  ASSUME TypeOK
  PROVE  Stored \in Version
<1>1. ASSUME NEW r \in disk
      PROVE  r.ops \subseteq Op
  BY DEF TypeOK, Record
<1>2. QED
  BY <1>1 DEF Stored, Contents, Version

\* The initial state is well typed.
LEMMA TypeInit ==
  ASSUME Init
  PROVE  TypeOK
<1>1. Untracked \in Phase
  BY DEF Untracked, Phase
<1>2. calls \in Seq(Call) /\ ghosts \in SUBSET [call : Call, fence : Nat] /\ disk \in SUBSET Record
  BY DEF Init
<1>3. replica \in Version /\ published \in Version /\ ownHigh \in Version \cup {Nothing}
  BY DEF Init, Version
<1>4. QED
  BY <1>1, <1>2, <1>3 DEF Init, TypeOK

\* A call of any kind, for the current generation.
LEMMA CallOfTyped ==
  ASSUME TypeOK, NEW kind \in Kinds
  PROVE  CallOf(kind) \in Call
BY DEF TypeOK, CallOf, Call

\* The doors keep the types.
LEMMA DoorsTyped ==
  ASSUME TypeOK, Doors
  PROVE  TypeOK'
<1>1. CASE Get
  <2>1. [CallOf("writerOf") EXCEPT !.gen = gen + 1] \in Call
    <3>1. CallOf("writerOf") \in Call
      BY CallOfTyped DEF Kinds
    <3>2. gen + 1 \in Nat
      BY DEF TypeOK
    <3>3. QED
      BY <3>1, <3>2 DEF Call
  <2>2. QED
    BY <1>1, <2>1 DEF Get, TypeOK, Version, storage, seat, bounds
<1>2. CASE WriteWhileLoading
  BY <1>2 DEF WriteWhileLoading, TypeOK, Version, Op, storage, seat, bounds
<1>3. CASE LocalWrite
  <2>1. ASSUME NEW p \in 1 .. MaxOwn
        PROVE  [by |-> "own", pos |-> p, run |-> run] \in Op
    BY DEF TypeOK, Op
  <2>2. replica' \in Version
    BY <1>3, <2>1 DEF LocalWrite, TypeOK, Version
  <2>3. QED
    BY <1>3, <2>2 DEF LocalWrite, TypeOK, storage, seat, bounds
<1>4. CASE Compact
  <2>1. demands' \in Nat
    BY <1>4 DEF Compact, TypeOK
  <2>2. OnCompact(phase) \in Steps
    BY InputsTyped DEF TypeOK
  <2>3. Dispatch(OnCompact(phase), Now)
    BY <1>4 DEF Compact
  <2>4. QED
    BY <1>4, <2>1, <2>2, <2>3, NowTyped, DispatchTyped
    DEF Compact, TypeOK, storage, seat
<1>5. CASE Unload
  <2> DEFINE s1 == IF dirty THEN OnStateAdvanced(phase) ELSE Ignored(phase)
             s2 == OnStateAdvanced(s1.phase)
             s  == [s2 EXCEPT !.write = IF s1.write # "none" THEN s1.write ELSE s2.write]
             n  == [Now EXCEPT !.inst = "storing",
                               !.ownHigh = IF dirty THEN replica ELSE ownHigh,
                               !.releasing = IF seatLost THEN 0 ELSE gen]
  <2>1. s1 \in Steps /\ s1.phase \in Phase
    BY InputsTyped DEF TypeOK, Steps
  <2>2. s2 \in Steps
    BY <2>1, InputsTyped
  <2>3. s \in Steps
    <3> HIDE DEF s1, s2
    <3> QED BY <2>1, <2>2 DEF Steps
  <2>4. n \in Shells
    BY NowTyped DEF TypeOK, Shells
  <2>5. Dispatch(s, n)
    BY <1>5 DEF Unload
  <2> HIDE DEF s, n
  <2>6. QED
    BY <1>5, <2>3, <2>4, <2>5, DispatchTyped DEF Unload, TypeOK, storage, seat, bounds
<1>6. CASE Reopen
  <2> DEFINE n == [Now EXCEPT !.inst = "ready", !.releasing = 0]
  <2>1. n \in Shells
    BY NowTyped DEF Shells
  <2>2. Ignored(phase) \in Steps
    BY InputsTyped DEF TypeOK
  <2>3. Dispatch(Ignored(phase), n)
    BY <1>6 DEF Reopen
  <2> HIDE DEF n
  <2>4. QED
    BY <1>6, <2>1, <2>2, <2>3, DispatchTyped DEF Reopen, TypeOK, storage, seat, bounds
<1>7. CASE Destroy
  <2>1. CallOf("delete") \in Call
    BY CallOfTyped DEF Kinds
  <2>2. Untracked \in Phase
    BY DEF Untracked, Phase
  <2>3. phase' \in Phase /\ releasing' \in Nat /\ calls' \in Seq(Call) /\ retry' \in BOOLEAN
    <3>1. CASE seatLost
      BY <1>7, <3>1 DEF Destroy, TypeOK
    <3>2. CASE ~seatLost
      <4>1. calls \in Seq(Call)
        BY DEF TypeOK
      <4>2. /\ phase' = Untracked /\ releasing' = 0 /\ retry' = FALSE
            /\ calls' = Append(calls, CallOf("delete"))
        BY <1>7, <3>2 DEF Destroy
      <4>3. calls' \in Seq(Call)
        BY <2>1, <4>1, <4>2
      <4>4. QED
        BY <2>2, <4>2, <4>3
    <3>3. QED
      BY <3>1, <3>2
  <2>4. inst' = "absent" /\ replica' = {} /\ ownHigh' = Nothing /\ published' = {}
    BY <1>7 DEF Destroy
  <2>5. QED
    BY <1>7, <2>3, <2>4 DEF Destroy, TypeOK, Version, storage, seat, bounds
<1>8. QED
  BY <1>1, <1>2, <1>3, <1>4, <1>5, <1>6, <1>7 DEF Doors

\* The network keeps the types.
LEMMA NetworkTyped ==
  ASSUME TypeOK, Network
  PROVE  TypeOK'
<1>1. CASE Merge
  <2>1. ASSUME NEW k \in 1 .. MaxOther
        PROVE  [by |-> "other", pos |-> k, run |-> 0] \in Op
    BY DEF Op
  <2>2. replica' \in Version
    BY <1>1, <2>1 DEF Merge, TypeOK, Version
  <2>3. QED
    BY <1>1, <2>2 DEF Merge, TypeOK, storage, seat, bounds
<1>2. CASE Export
  <2> DEFINE high == IF dirty THEN replica ELSE ownHigh
             s    == IF dirty /\ ~seatLost THEN OnStateAdvanced(phase) ELSE Ignored(phase)
             n    == [Now EXCEPT !.ownHigh = high]
  <2>1. s \in Steps
    BY InputsTyped DEF TypeOK
  <2>2. n \in Shells
    BY NowTyped DEF TypeOK, Shells
  <2>3. Dispatch(s, n)
    BY <1>2 DEF Export
  <2>4. published' \in Version
    BY <1>2 DEF Export, TypeOK, Version, Own
  <2> HIDE DEF s, n
  <2>5. QED
    BY <1>2, <2>1, <2>2, <2>3, <2>4, DispatchTyped DEF Export, TypeOK, storage, seat, bounds
<1>3. QED
  BY <1>1, <1>2 DEF Network

\* The shell's own steps keep the types.
LEMMA ShellTyped ==
  ASSUME TypeOK, Shell
  PROVE  TypeOK'
<1>0. OnStateAdvanced(phase) \in Steps
  BY InputsTyped DEF TypeOK
<1>1. CASE Drain
  <2> DEFINE n == [Now EXCEPT !.ownHigh = replica]
  <2>1. n \in Shells
    BY NowTyped DEF TypeOK, Shells
  <2>2. CASE Held
    <3>1. Dispatch(OnStateAdvanced(phase), n)
      BY <1>1, <2>2 DEF Drain
    <3> HIDE DEF n
    <3>2. QED
      BY <1>0, <1>1, <2>1, <3>1, DispatchTyped DEF Drain, TypeOK, storage, seat, bounds
  <2>3. CASE ~Held
    BY <1>1, <2>3 DEF Drain, TypeOK, storage, seat, bounds
  <2>4. QED
    BY <2>2, <2>3
<1>2. CASE QuietPoint
  BY <1>0, <1>2, NowTyped, DispatchTyped DEF QuietPoint, TypeOK, storage, seat, bounds
<1>3. CASE RetryFires
  <2> DEFINE n == [Now EXCEPT !.retry = FALSE]
  <2>1. n \in Shells
    BY NowTyped DEF Shells
  <2>2. Dispatch(OnStateAdvanced(phase), n)
    BY <1>3 DEF RetryFires
  <2> HIDE DEF n
  <2>3. QED
    BY <1>0, <1>3, <2>1, <2>2, DispatchTyped DEF RetryFires, TypeOK, storage, seat, bounds
<1>4. QED
  BY <1>1, <1>2, <1>3 DEF Shell

\* The store's answers keep the types.
LEMMA StoreCallsTyped ==
  ASSUME TypeOK, StoreCalls
  PROVE  TypeOK'
<1>0. Untracked \in Phase
  BY DEF Untracked, Phase
<1>1. CASE WriteDone
  <2>1. /\ calls # <<>> /\ Applied(Head(calls))
        /\ Dispatch(OnWriteSucceeded(phase, Head(calls).version), Dequeued)
    BY <1>1 DEF WriteDone, HeadIs
  <2>2. Head(calls) \in Call /\ Dequeued \in Shells
    BY <2>1, DequeuedTyped
  <2>3. OnWriteSucceeded(phase, Head(calls).version) \in Steps
    BY <2>2, VersionInputsTyped DEF TypeOK, Call, Version
  <2>4. disk' \in SUBSET Record /\ mark' \in Nat
    BY <2>1, <2>2, AppliedTyped
  <2>5. QED
    BY <1>1, <2>1, <2>2, <2>3, <2>4, DispatchTyped DEF WriteDone, TypeOK, seat, bounds
<1>2. CASE NothingToWrite
  <2>1. /\ calls # <<>>
        /\ Dispatch(OnWriteSucceeded(phase, Head(calls).version), Dequeued)
    BY <1>2 DEF NothingToWrite, HeadIs
  <2>2. Head(calls) \in Call /\ Dequeued \in Shells
    BY <2>1, DequeuedTyped
  <2>3. OnWriteSucceeded(phase, Head(calls).version) \in Steps
    BY <2>2, VersionInputsTyped DEF TypeOK, Call, Version
  <2>4. QED
    BY <1>2, <2>1, <2>2, <2>3, DispatchTyped DEF NothingToWrite, TypeOK, storage, seat, bounds
<1>3. CASE SeatLost
  <2>1. calls # <<>>
    BY <1>3 DEF SeatLost, HeadIs
  <2>2. Tail(calls) \in Seq(Call)
    BY <2>1, DequeuedTyped
  <2>3. QED
    BY <1>0, <1>3, <2>2 DEF SeatLost, TypeOK, storage, seat, bounds
<1>4. CASE MarkRead
  <2>1. calls # <<>>
    BY <1>4 DEF MarkRead, HeadIs
  <2>2. Head(calls) \in Call /\ Tail(calls) \in Seq(Call)
    BY <2>1, DequeuedTyped
  <2>3. [Head(calls) EXCEPT !.kind = "loadAll", !.through = mark] \in Call
    BY <2>2 DEF Call, Kinds, TypeOK
  <2>4. QED
    BY <1>4, <2>2, <2>3 DEF MarkRead, TypeOK, storage, seat, bounds
<1>5. CASE CompactionRead
  <2> DEFINE c     == Head(calls)
             taken == replica \cup Stored
             whole == [c EXCEPT !.kind = "replace", !.ops = taken, !.version = taken]
             w     == IF ConfirmedVersion(phase) = Nothing THEN "register" ELSE "since"
             next  == IF \A r \in disk : r.readable THEN whole ELSE Prepared(w, phase, taken)
  <2>1. calls # <<>>
    BY <1>5 DEF CompactionRead, HeadIs
  <2>2. Head(calls) \in Call /\ Tail(calls) \in Seq(Call) /\ Dequeued \in Shells
    BY <2>1, DequeuedTyped
  <2>3. taken \in Version
    BY StoredTyped DEF TypeOK, Version
  <2>4. whole \in Call
    <3> HIDE DEF taken
    <3> QED BY <2>2, <2>3 DEF Call, Kinds, Version
  <2>5. next \in Call
    <3>1. w \in {"register", "since", "compact"}
      OBVIOUS
    <3> HIDE DEF taken, whole, w
    <3>2. Prepared(w, phase, taken) \in Call
      BY <2>3, <3>1, PreparedTyped DEF TypeOK
    <3>3. QED
      BY <2>4, <3>2
  <2>6. CASE Held /\ c.gen = gen
    <3>1. /\ replica' = taken /\ calls' = Append(Tail(calls), next)
          /\ UNCHANGED <<phase, releasing, inst, ownHigh, retry>>
      BY <1>5, <2>6 DEF CompactionRead
    <3> HIDE DEF taken, next
    <3>2. calls' \in Seq(Call)
      BY <2>2, <2>5, <3>1
    <3>3. QED
      BY <1>5, <2>3, <3>1, <3>2 DEF CompactionRead, TypeOK, storage, seat, bounds
  <2>7. CASE ~(Held /\ c.gen = gen)
    <3>1. Dispatch(OnWriteFailed(phase), Dequeued)
      BY <1>5, <2>7 DEF CompactionRead
    <3>2. OnWriteFailed(phase) \in Steps
      BY InputsTyped DEF TypeOK
    <3>3. QED
      BY <1>5, <2>2, <3>1, <3>2, DispatchTyped DEF CompactionRead, TypeOK, storage, seat, bounds
  <2>8. QED
    BY <2>6, <2>7
<1>6. CASE WriterRead
  <2>1. calls # <<>>
    BY <1>6 DEF WriterRead, HeadIs
  <2>2. Head(calls) \in Call /\ Tail(calls) \in Seq(Call)
    BY <2>1, DequeuedTyped
  <2>3. [Head(calls) EXCEPT !.kind = "load"] \in Call
    BY <2>2 DEF Call, Kinds
  <2>4. QED
    BY <1>6, <2>2, <2>3 DEF WriterRead, TypeOK, storage, seat, bounds
<1>7. CASE Loaded
  <2> DEFINE taken == replica \cup Stored
             found == \E r \in disk : r.readable
             s     == IF found THEN OnHydrated(phase, LoadedVersion(taken)) ELSE OnRegister(phase)
             n     == [Dequeued EXCEPT !.inst = "ready", !.replica = taken]
  <2>1. calls # <<>>
    BY <1>7 DEF Loaded, HeadIs
  <2>2. Dequeued \in Shells
    BY <2>1, DequeuedTyped
  <2>3. taken \in Version
    BY StoredTyped DEF TypeOK, Version
  <2>4. s \in Steps
    BY StoredTyped, InputsTyped, VersionInputsTyped DEF TypeOK, LoadedVersion
  <2>5. n \in Shells
    <3> HIDE DEF taken
    <3> QED BY <2>2, <2>3 DEF Shells
  <2>6. CASE inst = "loading" /\ Head(calls).gen = gen
    <3>1. Dispatch(s, n)
      BY <1>7, <2>6 DEF Loaded
    <3> HIDE DEF s, n
    <3>2. QED
      BY <1>7, <2>4, <2>5, <3>1, DispatchTyped DEF Loaded, TypeOK, storage, seat, bounds
  <2>7. CASE ~(inst = "loading" /\ Head(calls).gen = gen)
    <3>1. Keeps(Ignored(phase), Dequeued)
      BY <1>7, <2>7 DEF Loaded
    <3>2. Ignored(phase) \in Steps
      BY InputsTyped DEF TypeOK
    <3>3. QED
      BY <1>7, <2>2, <3>1, <3>2, KeepsTyped DEF Loaded, TypeOK, storage, seat, bounds
  <2>8. QED
    BY <2>6, <2>7
<1>8. CASE DeleteDone
  <2>1. calls # <<>>
    BY <1>8 DEF DeleteDone, HeadIs
  <2>2. Tail(calls) \in Seq(Call)
    BY <2>1, DequeuedTyped
  <2>3. QED
    BY <1>8, <2>2 DEF DeleteDone, TypeOK, seat, bounds
<1>9. QED
  BY <1>1, <1>2, <1>3, <1>4, <1>5, <1>6, <1>7, <1>8 DEF StoreCalls

\* Faults and crashes keep the types.
LEMMA FaultsTyped ==
  ASSUME TypeOK, Faults
  PROVE  TypeOK'
<1>0. Untracked \in Phase
  BY DEF Untracked, Phase
<1>1. CASE WriteFault
  <2>1. /\ calls # <<>>
        /\ Dispatch(OnWriteFailed(phase), Dequeued)
        /\ UNCHANGED storage \/ Applied(Head(calls))
    BY <1>1 DEF WriteFault, HeadIs
  <2>2. Head(calls) \in Call /\ Dequeued \in Shells
    BY <2>1, DequeuedTyped
  <2>3. OnWriteFailed(phase) \in Steps
    BY InputsTyped DEF TypeOK
  <2>4. disk' \in SUBSET Record /\ mark' \in Nat
    BY <2>1, <2>2, AppliedTyped DEF TypeOK, storage
  <2>5. faults' \in Nat
    BY <1>1 DEF WriteFault, TypeOK
  <2>6. QED
    BY <1>1, <2>1, <2>2, <2>3, <2>4, <2>5, DispatchTyped DEF WriteFault, TypeOK, seat
<1>2. CASE LoadFault
  <2>1. calls # <<>> /\ faults' \in Nat
    BY <1>2 DEF LoadFault, HeadIs, TypeOK
  <2>2. Tail(calls) \in Seq(Call)
    BY <2>1, DequeuedTyped
  <2>3. QED
    BY <1>2, <2>1, <2>2 DEF LoadFault, TypeOK, storage, seat
<1>3. CASE DeleteFault
  <2>1. calls # <<>> /\ faults' \in Nat
    BY <1>3 DEF DeleteFault, HeadIs, TypeOK
  <2>2. Tail(calls) \in Seq(Call)
    BY <2>1, DequeuedTyped
  <2>3. QED
    BY <1>3, <2>1, <2>2 DEF DeleteFault, TypeOK, storage, seat
<1>4. CASE Crash
  <2>1. ASSUME NEW i \in DOMAIN calls
        PROVE  [call |-> calls[i], fence |-> fence] \in [call : Call, fence : Nat]
    BY DEF TypeOK
  <2>2. ghosts' \in SUBSET [call : Call, fence : Nat]
    BY <1>4, <2>1 DEF Crash, TypeOK
  <2>3. run' \in Nat /\ seatFence' \in Nat /\ fence' \in Nat
    BY <1>4 DEF Crash, TypeOK
  <2>4. calls' \in Seq(Call) /\ replica' \in Version /\ phase' \in Phase
    BY <1>0, <1>4 DEF Crash, Version
  <2>5. QED
    BY <1>4, <2>2, <2>3, <2>4 DEF Crash, TypeOK, storage, bounds
<1>5. CASE GhostArrives
  <2>1. PICK g \in ghosts : /\ ghosts' = ghosts \ {g}
                            /\ UNCHANGED storage \/ Applied(g.call)
    BY <1>5 DEF GhostArrives
  <2>2. g.call \in Call
    BY DEF TypeOK
  <2>3. disk' \in SUBSET Record /\ mark' \in Nat
    BY <2>1, <2>2, AppliedTyped DEF TypeOK, storage
  <2>4. QED
    BY <1>5, <2>1, <2>3 DEF GhostArrives, TypeOK, memory, bounds
<1>6. QED
  BY <1>1, <1>2, <1>3, <1>4, <1>5 DEF Faults

\* The other processes keep the types.
LEMMA OthersTyped ==
  ASSUME TypeOK, Others
  PROVE  TypeOK'
<1>0. disk \in SUBSET Record /\ mark \in Nat /\ mark + 1 \in Nat
  BY DEF TypeOK
<1>1. ASSUME NEW ops \in Version, NEW b \in BOOLEAN
      PROVE  [at |-> mark + 1, ops |-> ops, readable |-> b] \in Record
  BY <1>0 DEF Record, Version
<1>2. CASE SeatTaken
  BY <1>2 DEF SeatTaken, TypeOK, memory, storage, bounds
<1>3. CASE RivalWrites
  <2>1. PICK p \in 1 .. MaxOwn :
          LET o == [by |-> "own", pos |-> p, run |-> MaxRuns + seatFence] IN
          /\ disk' = Appended({o})
          /\ mark' = mark + 1
          /\ published' = published \cup {o}
    BY <1>3 DEF RivalWrites
  <2> DEFINE o == [by |-> "own", pos |-> p, run |-> MaxRuns + seatFence]
  <2>2. o \in Op
    BY BoundsAssumption DEF Op, TypeOK
  <2>3. disk' = Appended({o}) /\ mark' = mark + 1 /\ published' = published \cup {o}
    BY <2>1
  <2> HIDE DEF o
  <2>4. {o} \in Version /\ published' \in Version
    BY <2>2, <2>3 DEF TypeOK, Version
  <2>5. [at |-> mark + 1, ops |-> {o}, readable |-> TRUE] \in Record
    BY <1>1, <2>4
  <2>6. disk' \in SUBSET Record /\ mark' \in Nat
    BY <1>0, <2>3, <2>5 DEF Appended
  <2>7. QED
    BY <1>3, <2>4, <2>6 DEF RivalWrites, TypeOK, memory, seat, bounds
<1>4. CASE OtherSeatAppends
  <2>1. ASSUME NEW k \in 1 .. MaxOther
        PROVE  {[by |-> "other", pos |-> k, run |-> 0]} \in Version
    BY DEF Op, Version
  <2>2. ASSUME NEW k \in 1 .. MaxOther, disk' = Appended({[by |-> "other", pos |-> k, run |-> 0]})
        PROVE  disk' \in SUBSET Record
    <3>1. [at |-> mark + 1, ops |-> {[by |-> "other", pos |-> k, run |-> 0]}, readable |-> TRUE] \in Record
      BY <1>1, <2>1
    <3>2. QED
      BY <1>0, <2>2, <3>1 DEF Appended
  <2>3. ASSUME disk' = disk \cup {[at |-> mark + 1, ops |-> {}, readable |-> FALSE]}
        PROVE  disk' \in SUBSET Record
    <3>1. [at |-> mark + 1, ops |-> {}, readable |-> FALSE] \in Record
      BY <1>1 DEF Version
    <3>2. QED
      BY <1>0, <2>3, <3>1
  <2>4. disk' \in SUBSET Record /\ mark' \in Nat
    BY <1>0, <1>4, <2>2, <2>3 DEF OtherSeatAppends
  <2>5. QED
    BY <1>4, <2>4 DEF OtherSeatAppends, TypeOK, memory, seat, bounds
<1>5. CASE OtherSeatCompacts
  <2>1. PICK m \in {r.at : r \in disk} :
          disk' = (disk \ {r \in disk : r.at <= m})
                    \cup {[at |-> mark + 1, ops |-> Contents({r \in disk : r.at <= m}), readable |-> TRUE]}
    BY <1>5 DEF OtherSeatCompacts
  <2>2. Contents({r \in disk : r.at <= m}) \in Version
    <3>1. ASSUME NEW r \in disk
          PROVE  r.ops \subseteq Op
      BY <1>0 DEF Record
    <3>2. QED
      BY <3>1 DEF Contents, Version
  <2>3. [at |-> mark + 1, ops |-> Contents({r \in disk : r.at <= m}), readable |-> TRUE] \in Record
    BY <1>1, <2>2
  <2>4. disk' \in SUBSET Record
    BY <1>0, <2>1, <2>3
  <2>5. mark' \in Nat
    BY <1>0, <1>5 DEF OtherSeatCompacts
  <2>6. QED
    BY <1>5, <2>4, <2>5 DEF OtherSeatCompacts, TypeOK, memory, seat, bounds
<1>6. QED
  BY <1>2, <1>3, <1>4, <1>5 DEF Others

\* Every step keeps the types.
LEMMA TypeStep ==
  ASSUME TypeOK, [Next]_vars
  PROVE  TypeOK'
<1>1. CASE Next
  BY <1>1, DoorsTyped, NetworkTyped, ShellTyped, StoreCallsTyped, FaultsTyped, OthersTyped DEF Next
<1>2. CASE UNCHANGED vars
  BY <1>2 DEF TypeOK, vars, memory, storage, seat, bounds
<1>3. QED
  BY <1>1, <1>2

\* The process and the storage (Runtime, StoreBackend) are always well typed.
THEOREM TypeCorrect == Spec => []TypeOK
<1>1. Init => TypeOK
  BY TypeInit
<1>2. TypeOK /\ [Next]_vars => TypeOK'
  BY TypeStep
<1>3. QED
  BY <1>1, <1>2, PTL DEF Spec

-----------------------------------------------------------------------------
(* Store-first.                                                            *)

\* A step whose versions the storage `st` holds.
StepOK(s, st) ==
  /\ s \in Steps
  /\ s.phase.version = Nothing \/ s.phase.version \subseteq st
  /\ s.persisted = Nothing \/ s.persisted \subseteq st
  /\ s.write = "since" => s.phase.version # Nothing

\* Nothing asked for, nothing reported: the document is not tracked.
Silent(s) == s.phase = Untracked /\ s.write = "none" /\ s.persisted = Nothing

-----------------------------------------------------------------------------
(* The store program reports only what it was told is stored.              *)

\* A write starts from the phase's own version.
LEMMA StartOK ==
  ASSUME NEW st, NEW p \in Phase, NEW owed \in {"advance", "compact"},
         p.version = Nothing \/ p.version \subseteq st
  PROVE  StepOK(Start(p, owed), st) /\ Start(p, owed).persisted = Nothing
<1>1. Start(p, owed) \in Steps
  BY StartTyped
<1>2. Start(p, owed).phase.version = p.version
  BY DEF Start, Step, Phase
<1>3. Start(p, owed).persisted = Nothing
  BY DEF Start, Step
<1>4. Start(p, owed).write = "since" => p.version # Nothing
  BY DEF Start, Step, WriteKind
<1>5. QED
  BY <1>1, <1>2, <1>3, <1>4 DEF StepOK

\* Ignoring an input leaves the phase alone.
LEMMA IgnoredOK ==
  ASSUME NEW st, NEW p \in Phase, p.version = Nothing \/ p.version \subseteq st
  PROVE  StepOK(Ignored(p), st) /\ Ignored(p).persisted = Nothing /\ Ignored(p).phase = p
<1>1. Ignored(p) \in Steps
  BY InputsTyped
<1>2. QED
  BY <1>1 DEF StepOK, Ignored, Step

\* A request keeps the version.
LEMMA RequestOK ==
  ASSUME NEW st, NEW p \in Phase, NEW owed \in {"advance", "compact"},
         p.version = Nothing \/ p.version \subseteq st
  PROVE  StepOK(Request(p, owed), st) /\ Request(p, owed).persisted = Nothing
<1>1. CASE p.status = "writing"
  <2> DEFINE q == [p EXCEPT !.owed = JoinOwed(p.owed, owed)]
  <2>1. q \in Phase /\ q.version = p.version
    BY DEF JoinOwed, Phase
  <2>2. Request(p, owed) = Ignored(q)
    BY <1>1 DEF Request
  <2> HIDE DEF q
  <2>3. QED
    BY <2>1, <2>2, IgnoredOK
<1>2. CASE p.status # "writing"
  BY <1>2, StartOK DEF Request
<1>3. QED
  BY <1>1, <1>2

\* The inputs that carry no version report none.
LEMMA InputsOK ==
  ASSUME NEW st, NEW p \in Phase, p.version = Nothing \/ p.version \subseteq st
  PROVE  /\ StepOK(OnRegister(p), st)      /\ OnRegister(p).persisted = Nothing
         /\ StepOK(OnStateAdvanced(p), st) /\ OnStateAdvanced(p).persisted = Nothing
         /\ StepOK(OnCompact(p), st)       /\ OnCompact(p).persisted = Nothing
         /\ StepOK(OnWriteFailed(p), st)   /\ OnWriteFailed(p).persisted = Nothing
<1>1. StepOK(OnRegister(p), st) /\ OnRegister(p).persisted = Nothing
  <2>1. SettledAt(Nothing, 0) \in Phase /\ SettledAt(Nothing, 0).version = Nothing
    BY SettledTyped DEF SettledAt
  <2>2. QED
    BY <2>1, RequestOK DEF OnRegister
<1>2. StepOK(OnStateAdvanced(p), st) /\ OnStateAdvanced(p).persisted = Nothing
  BY IgnoredOK, RequestOK DEF OnStateAdvanced
<1>3. StepOK(OnCompact(p), st) /\ OnCompact(p).persisted = Nothing
  BY IgnoredOK, RequestOK DEF OnCompact
<1>4. StepOK(OnWriteFailed(p), st) /\ OnWriteFailed(p).persisted = Nothing
  <2> DEFINE q == SettledAt(p.version, p.failures + 1)
  <2>1. p.version \in Version \cup {Nothing} /\ p.failures + 1 \in Nat
    BY DEF Phase
  <2>2. q \in Phase /\ q.version = p.version
    BY <2>1, SettledTyped DEF SettledAt
  <2> HIDE DEF q
  <2>3. p.owed # "none" => p.owed \in {"advance", "compact"}
    BY DEF Phase
  <2>4. StepOK(SettleWrite(p, q), st) /\ SettleWrite(p, q).persisted = Nothing
    BY <2>2, <2>3, IgnoredOK, StartOK DEF SettleWrite
  <2>5. OnWriteFailed(p) = IF p.status # "writing" THEN Ignored(p)
                           ELSE [SettleWrite(p, q) EXCEPT !.retry = (p.owed = "none")]
    BY DEF OnWriteFailed, q
  <2> DEFINE r == SettleWrite(p, q)
             b == p.owed = "none"
  <2>6. r \in Steps /\ b \in BOOLEAN
    BY <2>4 DEF StepOK
  <2>7. CASE p.status = "writing"
    <3>1. OnWriteFailed(p) = [r EXCEPT !.retry = b]
      BY <2>5, <2>7
    <3> HIDE DEF r, b
    <3>2. /\ [r EXCEPT !.retry = b] \in Steps
          /\ [r EXCEPT !.retry = b].phase = r.phase
          /\ [r EXCEPT !.retry = b].persisted = r.persisted
          /\ [r EXCEPT !.retry = b].write = r.write
      BY <2>6 DEF Steps
    <3>3. StepOK(r, st) /\ r.persisted = Nothing
      BY <2>4 DEF r
    <3>4. QED
      BY <3>1, <3>2, <3>3 DEF StepOK
  <2>8. CASE p.status # "writing"
    BY <2>5, <2>8, IgnoredOK
  <2>9. QED
    BY <2>7, <2>8
<1>5. QED
  BY <1>1, <1>2, <1>3, <1>4

\* The inputs that carry one report that one.
LEMMA VersionInputsOK ==
  ASSUME NEW st, NEW p \in Phase, p.version = Nothing \/ p.version \subseteq st,
         NEW v \in Version, v \subseteq st
  PROVE  /\ StepOK(OnHydrated(p, v), st) /\ OnHydrated(p, v).persisted = Nothing
         /\ StepOK(OnWriteSucceeded(p, v), st)
<1> DEFINE q == SettledAt(v, 0)
<1>1. q \in Phase /\ q.version = v
  BY SettledTyped DEF SettledAt
<1> HIDE DEF q
<1>2. StepOK(OnHydrated(p, v), st) /\ OnHydrated(p, v).persisted = Nothing
  BY <1>1, RequestOK DEF OnHydrated, q
<1>3. p.owed # "none" => p.owed \in {"advance", "compact"}
  BY DEF Phase
<1>4. StepOK(SettleWrite(p, q), st)
  BY <1>1, <1>3, IgnoredOK, StartOK DEF SettleWrite
<1>5. OnWriteSucceeded(p, v) = IF p.status # "writing" THEN Ignored(p)
                               ELSE [SettleWrite(p, q) EXCEPT !.persisted = v]
  BY DEF OnWriteSucceeded, q
<1>6. QED
  BY <1>2, <1>4, <1>5, IgnoredOK DEF StepOK, Steps

\* A document that is not tracked answers nothing to the inputs about writes.
LEMMA UntrackedIsSilent ==
  ASSUME NEW v
  PROVE  /\ Silent(Ignored(Untracked)) /\ Silent(OnStateAdvanced(Untracked))
         /\ Silent(OnCompact(Untracked)) /\ Silent(OnWriteFailed(Untracked))
         /\ Silent(OnWriteSucceeded(Untracked, v))
<1>1. Silent(Ignored(Untracked))
  BY DEF Silent, Ignored, Step
<1>2. Untracked.status = "untracked"
  BY DEF Untracked
<1>3. QED
  BY <1>1, <1>2 DEF OnStateAdvanced, OnCompact, OnWriteFailed, OnWriteSucceeded

-----------------------------------------------------------------------------
(* The storage grows: only a delete takes anything away.                   *)

\* Nothing readable is gone, and what is new lies past the mark.
Grows ==
  /\ Stored \subseteq Stored'
  /\ mark <= mark'
  /\ \A r \in disk' : r \in disk \/ r.at > mark

\* Storage that is left alone grows.
LEMMA UnchangedGrows ==
  ASSUME TypeOK, UNCHANGED storage
  PROVE  Grows
BY DEF Grows, storage, Stored, TypeOK

\* An appended record adds to the stream.
LEMMA AppendedGrows ==
  ASSUME TypeOK, NEW ops \in Version, disk' = Appended(ops), mark' = mark + 1
  PROVE  Grows /\ ops \subseteq Stored'
<1> DEFINE new == [at |-> mark + 1, ops |-> ops, readable |-> TRUE]
<1>1. disk' = disk \cup {new}
  BY DEF Appended
<1>2. new.at = mark + 1 /\ new.ops = ops /\ new.readable
  OBVIOUS
<1>3. mark + 1 > mark /\ mark <= mark'
  BY DEF TypeOK
<1> HIDE DEF new
<1>4. Stored \subseteq Stored' /\ ops \subseteq Stored'
  BY <1>1, <1>2 DEF Stored, Contents
<1>5. QED
  BY <1>1, <1>2, <1>3, <1>4 DEF Grows

\* A replacement that holds what it replaces adds to the stream.
LEMMA ReplacedGrows ==
  ASSUME TypeOK, NEW through \in Nat, NEW ops \in Version,
         Contents({r \in disk : r.at <= through}) \subseteq ops,
         disk' = Replaced(through, ops), mark' = mark + 1
  PROVE  Grows /\ ops \subseteq Stored'
<1> DEFINE new == [at |-> mark + 1, ops |-> ops, readable |-> TRUE]
<1>1. disk' = {r \in disk : r.at > through} \cup {new}
  BY DEF Replaced
<1>2. new.at = mark + 1 /\ new.ops = ops /\ new.readable
  OBVIOUS
<1>3. mark + 1 > mark /\ mark <= mark'
  BY DEF TypeOK
<1> HIDE DEF new
<1>4. ops \subseteq Stored'
  BY <1>1, <1>2 DEF Stored, Contents
<1>5. ASSUME NEW r \in disk, r.readable
      PROVE  r.ops \subseteq Stored'
  <2>1. CASE r.at > through
    BY <1>1, <1>5, <2>1 DEF Stored, Contents
  <2>2. CASE ~(r.at > through)
    <3>1. r.at <= through
      BY <2>2 DEF TypeOK, Record
    <3>2. r.ops \subseteq ops
      BY <1>5, <3>1 DEF Contents
    <3>3. QED
      BY <1>4, <3>2
  <2>3. QED
    BY <2>1, <2>2
<1>6. Stored \subseteq Stored'
  BY <1>5 DEF Stored, Contents
<1>7. QED
  BY <1>1, <1>2, <1>3, <1>4, <1>6 DEF Grows

\* A queued write, applied, grows the stream and stores what it will report.
LEMMA AppliedGrows ==
  ASSUME TypeOK, NEW c \in Call, c.kind \in {"append", "replace"},
         CallOK(c, gen, disk, mark), Applied(c)
  PROVE  Grows /\ c.version \subseteq Stored'
<1>0. mark' = mark + 1 /\ c.ops \in Version /\ c.through \in Nat
  BY DEF Applied, Call, Version
<1>1. Grows /\ c.ops \subseteq Stored'
  <2>1. CASE c.kind = "append"
    <3>1. disk' = Appended(c.ops)
      BY <2>1 DEF Applied
    <3>2. QED
      BY <1>0, <3>1, AppendedGrows
  <2>2. CASE c.kind = "replace"
    <3>1. disk' = Replaced(c.through, c.ops)
      BY <2>2 DEF Applied
    <3>2. Contents({r \in disk : r.at <= c.through}) \subseteq c.ops
      BY <2>2 DEF CallOK
    <3>3. QED
      BY <1>0, <3>1, <3>2, ReplacedGrows
  <2>3. QED
    BY <2>1, <2>2
<1>2. c.version \subseteq Stored \cup c.ops
  BY DEF CallOK, Writes, Stored
<1>3. QED
  BY <1>1, <1>2 DEF Grows

\* The other seats only add.
LEMMA OthersGrow ==
  ASSUME TypeOK, Others
  PROVE  Grows
<1>1. CASE SeatTaken
  BY <1>1, UnchangedGrows DEF SeatTaken
<1>2. CASE RivalWrites
  <2>1. PICK p \in 1 .. MaxOwn :
          /\ disk' = Appended({[by |-> "own", pos |-> p, run |-> MaxRuns + seatFence]})
          /\ mark' = mark + 1
    BY <1>2 DEF RivalWrites
  <2>2. {[by |-> "own", pos |-> p, run |-> MaxRuns + seatFence]} \in Version
    BY BoundsAssumption DEF Version, Op, TypeOK
  <2>3. QED
    BY <2>1, <2>2, AppendedGrows
<1>3. CASE OtherSeatAppends
  <2>1. mark' = mark + 1
    BY <1>3 DEF OtherSeatAppends
  <2>2. ASSUME NEW k \in 1 .. MaxOther, disk' = Appended({[by |-> "other", pos |-> k, run |-> 0]})
        PROVE  Grows
    <3>1. {[by |-> "other", pos |-> k, run |-> 0]} \in Version
      BY DEF Version, Op
    <3>2. QED
      BY <2>1, <2>2, <3>1, AppendedGrows
  <2>3. ASSUME disk' = disk \cup {[at |-> mark + 1, ops |-> {}, readable |-> FALSE]}
        PROVE  Grows
    BY <2>1, <2>3 DEF Grows, Stored, Contents, TypeOK
  <2>4. QED
    BY <1>3, <2>2, <2>3 DEF OtherSeatAppends
<1>4. CASE OtherSeatCompacts
  <2>1. PICK m \in {r.at : r \in disk} :
          disk' = (disk \ {r \in disk : r.at <= m})
                    \cup {[at |-> mark + 1, ops |-> Contents({r \in disk : r.at <= m}), readable |-> TRUE]}
    BY <1>4 DEF OtherSeatCompacts
  <2> DEFINE read == {r \in disk : r.at <= m}
             new  == [at |-> mark + 1, ops |-> Contents(read), readable |-> TRUE]
  <2>2. disk' = (disk \ read) \cup {new}
    BY <2>1
  <2>3. new.at = mark + 1 /\ new.ops = Contents(read) /\ new.readable
    OBVIOUS
  <2>4. mark' = mark + 1 /\ mark + 1 > mark /\ mark <= mark + 1
    BY <1>4 DEF OtherSeatCompacts, TypeOK
  <2> HIDE DEF new, read
  <2>5. ASSUME NEW r \in disk, r.readable
        PROVE  r.ops \subseteq Stored'
    <3>1. CASE r \in read
      BY <2>2, <2>3, <2>5, <3>1 DEF Stored, Contents
    <3>2. CASE r \notin read
      BY <2>2, <2>5, <3>2 DEF Stored, Contents
    <3>3. QED
      BY <3>1, <3>2
  <2>6. Stored \subseteq Stored'
    BY <2>5 DEF Stored, Contents
  <2>7. QED
    BY <2>2, <2>3, <2>4, <2>6 DEF Grows
<1>5. QED
  BY <1>1, <1>2, <1>3, <1>4 DEF Others

-----------------------------------------------------------------------------
(* The queue of store calls.                                               *)

\* What is promised of a queued call still holds once the storage has grown.
LEMMA GrowthKeepsQueue ==
  ASSUME TypeOK, TypeOK', Grows, NEW cs \in Seq(Call), NEW g \in Nat,
         QueueOK(cs, g, disk, mark)
  PROVE  QueueOK(cs, g, disk', mark')
<1>1. SUFFICES ASSUME NEW k \in DOMAIN cs
               PROVE  CallOK(cs[k], g, disk', mark')
  BY DEF QueueOK
<1> DEFINE c == cs[k]
<1>2. c \in Call /\ CallOK(c, g, disk, mark)
  BY DEF QueueOK
<1> HIDE DEF c
<1>3. /\ c.kind \in {"append", "replace"} => c.version \subseteq Contents(disk') \cup c.ops
      /\ c.kind = "none" => c.version \subseteq Contents(disk')
  BY <1>2 DEF CallOK, Grows, Stored
<1>4. c.kind \in {"loadAll", "replace"} => c.through <= mark /\ c.through <= mark'
  <2>1. c.through \in Nat /\ mark \in Nat /\ mark' \in Nat
    BY <1>2 DEF Call, TypeOK
  <2>2. c.kind \in {"loadAll", "replace"} => c.through <= mark
    BY <1>2 DEF CallOK
  <2>3. mark <= mark'
    BY DEF Grows
  <2>4. QED
    BY <2>1, <2>2, <2>3
<1>5. ASSUME c.kind = "replace"
      PROVE  Contents({r \in disk' : r.at <= c.through}) \subseteq c.ops
  <2>1. ASSUME NEW r \in disk', r.at <= c.through
        PROVE  r \in disk
    <3>1. r.at \in Nat
      BY DEF TypeOK, Record
    <3>2. c.through \in Nat /\ mark \in Nat
      BY <1>2 DEF Call, TypeOK
    <3>3. c.through <= mark
      BY <1>4, <1>5
    <3>4. ~(r.at > mark)
      BY <2>1, <3>1, <3>2, <3>3
    <3>5. QED
      BY <3>4 DEF Grows
  <2>2. Contents({r \in disk' : r.at <= c.through}) \subseteq Contents({r \in disk : r.at <= c.through})
    BY <2>1 DEF Contents
  <2>3. QED
    BY <1>2, <1>5, <2>2 DEF CallOK
<1>6. QED
  BY <1>2, <1>3, <1>4, <1>5 DEF CallOK, c

\* And once the call at its head is taken off.
LEMMA TailOK ==
  ASSUME NEW cs \in Seq(Call), cs # <<>>, NEW g, NEW i, NEW records, NEW m,
         QueueOK(cs, g, records, m), DeleteOK(cs, i, g)
  PROVE  /\ QueueOK(Tail(cs), g, records, m) /\ DeleteOK(Tail(cs), i, g)
         /\ Head(cs) = cs[1] /\ 1 \in DOMAIN cs
         /\ \A k \in DOMAIN Tail(cs) : k + 1 \in DOMAIN cs /\ Tail(cs)[k] = cs[k + 1]
<1>1. \A k \in DOMAIN Tail(cs) : k \in Nat /\ k + 1 \in DOMAIN cs /\ Tail(cs)[k] = cs[k + 1]
  OBVIOUS
<1>2. Head(cs) = cs[1] /\ 1 \in DOMAIN cs
  OBVIOUS
<1>3. QueueOK(Tail(cs), g, records, m)
  BY <1>1 DEF QueueOK
<1>4. ASSUME NEW k \in DOMAIN Tail(cs), Tail(cs)[k].kind = "delete"
      PROVE  /\ i \notin HeldIn
             /\ \A j \in DOMAIN Tail(cs) :
                  /\ j > k => Tail(cs)[j].kind \notin Writes
                  /\ j < k /\ i = "loading" /\ Tail(cs)[j].kind \in {"writerOf", "load"}
                       => Tail(cs)[j].gen # g
  <2>1. cs[k + 1].kind = "delete" /\ k + 1 \in DOMAIN cs /\ k \in Nat
    BY <1>1, <1>4
  <2>2. i \notin HeldIn
    BY <2>1 DEF DeleteOK
  <2>3. ASSUME NEW j \in DOMAIN Tail(cs)
        PROVE  /\ j > k => Tail(cs)[j].kind \notin Writes
               /\ j < k /\ i = "loading" /\ Tail(cs)[j].kind \in {"writerOf", "load"}
                    => Tail(cs)[j].gen # g
    <3>1. j \in Nat /\ j + 1 \in DOMAIN cs /\ Tail(cs)[j] = cs[j + 1]
      BY <1>1
    <3>2. (j > k => j + 1 > k + 1) /\ (j < k => j + 1 < k + 1)
      BY <2>1, <3>1
    <3>3. QED
      BY <2>1, <3>1, <3>2 DEF DeleteOK
  <2>4. QED
    BY <2>2, <2>3
<1>5. DeleteOK(Tail(cs), i, g)
  BY <1>4 DEF DeleteOK
<1>6. QED
  BY <1>1, <1>2, <1>3, <1>5

\* A call put at the end: not a delete, and a write only if no delete waits.
LEMMA AppendOK ==
  ASSUME NEW cs \in Seq(Call), NEW c \in Call, NEW g, NEW i, NEW records, NEW m,
         QueueOK(cs, g, records, m), DeleteOK(cs, i, g), CallOK(c, g, records, m),
         c.kind # "delete",
         c.kind \in Writes => \A k \in DOMAIN cs : cs[k].kind # "delete"
  PROVE  /\ QueueOK(Append(cs, c), g, records, m) /\ DeleteOK(Append(cs, c), i, g)
         /\ \A k \in DOMAIN Append(cs, c) :
              Append(cs, c)[k].kind = "delete" => k \in DOMAIN cs /\ cs[k].kind = "delete"
<1> DEFINE ds == Append(cs, c)
<1>1. \A k \in DOMAIN ds :
        /\ k \in Nat
        /\ \/ k \in DOMAIN cs /\ ds[k] = cs[k]
           \/ k = Len(cs) + 1 /\ ds[k] = c
  OBVIOUS
<1>2. \A k \in DOMAIN cs : k \in Nat /\ k < Len(cs) + 1
  OBVIOUS
<1>3. Len(cs) \in Nat
  OBVIOUS
<1> HIDE DEF ds
<1>4. QueueOK(ds, g, records, m)
  BY <1>1 DEF QueueOK
<1>5. \A k \in DOMAIN ds : ds[k].kind = "delete" => k \in DOMAIN cs /\ cs[k].kind = "delete"
  BY <1>1
<1>6. ASSUME NEW k \in DOMAIN ds, ds[k].kind = "delete"
      PROVE  /\ i \notin HeldIn
             /\ \A j \in DOMAIN ds :
                  /\ j > k => ds[j].kind \notin Writes
                  /\ j < k /\ i = "loading" /\ ds[j].kind \in {"writerOf", "load"} => ds[j].gen # g
  <2>1. k \in DOMAIN cs /\ cs[k].kind = "delete"
    BY <1>5, <1>6
  <2>2. i \notin HeldIn
    BY <2>1 DEF DeleteOK
  <2>3. c.kind \notin Writes
    BY <2>1
  <2>4. ASSUME NEW j \in DOMAIN ds
        PROVE  /\ j > k => ds[j].kind \notin Writes
               /\ j < k /\ i = "loading" /\ ds[j].kind \in {"writerOf", "load"} => ds[j].gen # g
    <3>1. CASE j \in DOMAIN cs /\ ds[j] = cs[j]
      BY <2>1, <3>1 DEF DeleteOK
    <3>2. CASE j = Len(cs) + 1 /\ ds[j] = c
      <4>1. ~(j < k)
        BY <1>2, <1>3, <2>1, <3>2
      <4>2. QED
        BY <2>3, <3>2, <4>1
    <3>3. QED
      BY <1>1, <3>1, <3>2
  <2>5. QED
    BY <2>2, <2>4
<1>7. DeleteOK(ds, i, g)
  BY <1>6 DEF DeleteOK
<1>8. QED
  BY <1>4, <1>5, <1>7 DEF ds

\* What the program asks for is prepared as a call that reports no more than
\* the store will hold.
LEMMA PreparedOK ==
  ASSUME gen \in Nat, NEW records, NEW m, NEW s, StepOK(s, Contents(records)),
         s.write # "none", NEW rep \in Version
  PROVE  /\ Prepared(s.write, s.phase, rep) \in Call
         /\ Prepared(s.write, s.phase, rep).kind \in {"append", "none", "mark"}
         /\ CallOK(Prepared(s.write, s.phase, rep), gen, records, m)
<1> DEFINE c == Prepared(s.write, s.phase, rep)
<1>1. s.write \in {"register", "since", "compact"} /\ s.phase \in Phase
  BY DEF StepOK, Steps
<1>2. c \in Call
  BY <1>1, PreparedTyped
<1>3. CASE s.write = "compact"
  <2>1. c.kind = "mark" /\ c.gen = gen
    BY <1>3 DEF Prepared, CallOf
  <2> HIDE DEF c
  <2>2. QED
    BY <1>2, <2>1 DEF CallOK, Writes, c
<1>4. CASE s.write = "register"
  <2>1. c.kind = "append" /\ c.gen = gen /\ c.ops = rep /\ c.version = rep
    BY <1>4 DEF Prepared, CallOf
  <2> HIDE DEF c
  <2>2. QED
    BY <1>2, <2>1 DEF CallOK, Writes, c
<1>5. CASE s.write = "since" /\ rep = s.phase.version
  <2>1. c.kind = "none" /\ c.gen = gen /\ c.version = rep
    BY <1>5 DEF Prepared, CallOf
  <2>2. rep \subseteq Contents(records)
    BY <1>5 DEF StepOK
  <2> HIDE DEF c
  <2>3. QED
    BY <1>2, <2>1, <2>2 DEF CallOK, Writes, c
<1>6. CASE s.write = "since" /\ rep # s.phase.version
  <2>1. c.kind = "append" /\ c.gen = gen /\ c.ops = rep \ s.phase.version /\ c.version = rep
    BY <1>6 DEF Prepared, CallOf
  <2>2. s.phase.version \subseteq Contents(records)
    BY <1>6 DEF StepOK
  <2> HIDE DEF c
  <2>3. QED
    BY <1>2, <2>1, <2>2 DEF CallOK, Writes, c
<1>7. QED
  BY <1>1, <1>3, <1>4, <1>5, <1>6

-----------------------------------------------------------------------------
(* Dispatching a step.                                                     *)

\* What a handler hands Dispatch, against the storage it leaves.
NowOK(n, d, records, m) ==
  /\ n \in Shells
  /\ QueueOK(n.calls, gen, records, m)
  /\ DeleteOK(n.calls, n.inst, gen)
  /\ GateOK(n.inst, n.replica, n.ownHigh, d, Contents(records))

\* What a dispatched step leaves.
LeftOK(n) ==
  /\ phase' \in Phase
  /\ phase'.version = Nothing \/ phase'.version \subseteq Stored'
  /\ QueueOK(calls', gen, disk', mark')
  /\ DeleteOK(calls', inst', gen)
  /\ GateOK(inst', replica', ownHigh', dirty', Stored')
  /\ \A k \in DOMAIN calls' : calls'[k].kind = "delete" =>
       k \in DOMAIN n.calls /\ n.calls[k].kind = "delete"
  /\ inst' \notin HeldIn => phase' = Untracked

\* Keeping the document, a confirmation opens the gate only for what is stored.
LEMMA KeepsOK ==
  ASSUME TypeOK, NEW s, NEW n, Keeps(s, n),
         StepOK(s, Stored'), NowOK(n, dirty', disk', mark'),
         n.inst \notin HeldIn => Silent(s)
  PROVE  LeftOK(n)
<1>1. /\ phase' = s.phase /\ inst' = n.inst /\ replica' = n.replica
      /\ calls' = CallsAfter(s, n) /\ ownHigh' = HighAfter(s, n)
  BY DEF Keeps
<1>2. n \in Shells /\ n.replica \in Version /\ n.calls \in Seq(Call) /\ gen \in Nat
  BY DEF NowOK, Shells, TypeOK
<1>3. s.phase \in Phase
  BY DEF StepOK, Steps
<1>4. /\ QueueOK(calls', gen, disk', mark') /\ DeleteOK(calls', inst', gen)
      /\ \A k \in DOMAIN calls' : calls'[k].kind = "delete" =>
           k \in DOMAIN n.calls /\ n.calls[k].kind = "delete"
  <2>1. CASE s.write = "none"
    BY <1>1, <2>1 DEF CallsAfter, NowOK
  <2>2. CASE s.write # "none"
    <3> DEFINE c == Prepared(s.write, s.phase, n.replica)
    <3>1. c \in Call /\ c.kind \in {"append", "none", "mark"} /\ CallOK(c, gen, disk', mark')
      BY <1>2, <2>2, PreparedOK DEF Stored
    <3>2. calls' = Append(n.calls, c)
      BY <1>1, <2>2 DEF CallsAfter
    <3> HIDE DEF c
    <3>3. n.inst \in HeldIn
      BY <2>2 DEF Silent
    <3>4. \A k \in DOMAIN n.calls : n.calls[k].kind # "delete"
      BY <3>3 DEF NowOK, DeleteOK
    <3>5. QueueOK(n.calls, gen, disk', mark') /\ DeleteOK(n.calls, n.inst, gen)
      BY DEF NowOK
    <3>6. QED
      BY <1>1, <1>2, <3>1, <3>2, <3>4, <3>5, AppendOK
  <2>3. QED
    BY <2>1, <2>2
<1>5. GateOK(n.inst, n.replica, HighAfter(s, n), dirty', Stored')
  <2>1. GateOK(n.inst, n.replica, n.ownHigh, dirty', Stored')
    BY DEF NowOK, Stored
  <2>2. CASE HighAfter(s, n) = n.ownHigh
    BY <2>1, <2>2
  <2>3. CASE HighAfter(s, n) # n.ownHigh
    <3>1. /\ s.persisted # Nothing /\ n.ownHigh # Nothing /\ HighAfter(s, n) = Nothing
          /\ GateOpen(n.ownHigh, s.persisted, n.replica)
      BY <2>3 DEF HighAfter
    <3>2. n.ownHigh \subseteq n.replica
      BY <2>1, <3>1 DEF GateOK
    <3>3. n.ownHigh \subseteq Stored'
      BY <3>1, <3>2 DEF GateOpen, StepOK
    <3>4. QED
      BY <2>1, <3>1, <3>3 DEF GateOK
  <2>4. QED
    BY <2>2, <2>3
<1>6. inst' \notin HeldIn => phase' = Untracked
  BY <1>1 DEF Silent
<1>7. phase'.version = Nothing \/ phase'.version \subseteq Stored'
  BY <1>1 DEF StepOK
<1>8. QED
  BY <1>1, <1>3, <1>4, <1>5, <1>6, <1>7 DEF LeftOK

\* A release leaves nothing tracked and nothing held.
LEMMA UnloadsOK ==
  ASSUME NEW s, NEW n, Unloads(s, n), NowOK(n, dirty', disk', mark')
  PROVE  LeftOK(n)
<1>1. /\ phase' = Untracked /\ inst' = "unloaded" /\ replica' = {}
      /\ calls' = n.calls /\ ownHigh' = Nothing
  BY DEF Unloads
<1>2. Untracked \in Phase /\ Untracked.version = Nothing
  BY DEF Untracked, Phase
<1>3. DeleteOK(n.calls, "unloaded", gen)
  BY DEF NowOK, DeleteOK, HeldIn
<1>4. GateOK("unloaded", {}, Nothing, dirty', Stored')
  BY DEF GateOK, HeldIn
<1>5. QED
  BY <1>1, <1>2, <1>3, <1>4 DEF LeftOK, NowOK

\* A release handed back tracks the document again.
LEMMA HandsBackOK ==
  ASSUME TypeOK, NEW s, NEW n, HandsBack(s, n), StoredEntirely(s.phase),
         StepOK(s, Stored'), NowOK(n, dirty', disk', mark'),
         n.inst \notin HeldIn => Silent(s)
  PROVE  LeftOK(n)
<1> DEFINE t == [OnHydrated(Untracked, s.phase.version) EXCEPT !.persisted = s.persisted]
           o == [n EXCEPT !.inst = "ready", !.releasing = 0]
<1>1. s.persisted # Nothing /\ Keeps(t, o)
  BY DEF HandsBack
<1>2. n.inst \in HeldIn
  BY <1>1 DEF Silent
<1>3. n \in Shells
  BY DEF NowOK
<1>4. /\ o \in Shells /\ o.inst = "ready" /\ o.calls = n.calls
      /\ o.replica = n.replica /\ o.ownHigh = n.ownHigh
  BY <1>3 DEF Shells
<1>5. StepOK(t, Stored')
  <2> DEFINE r == OnHydrated(Untracked, s.phase.version)
  <2>1. Untracked \in Phase /\ Untracked.version = Nothing
    BY DEF Untracked, Phase
  <2>2. s.phase.version \in Version /\ s.phase.version \subseteq Stored'
    BY DEF StoredEntirely, StepOK, Steps, Phase
  <2>3. StepOK(r, Stored')
    BY <2>1, <2>2, VersionInputsOK
  <2>4. s.persisted \in Version /\ s.persisted \subseteq Stored'
    BY <1>1 DEF StepOK, Steps
  <2> HIDE DEF r
  <2>5. StepOK([r EXCEPT !.persisted = s.persisted], Stored')
    BY <2>3, <2>4 DEF StepOK, Steps
  <2>6. QED
    BY <2>5 DEF r
<1> HIDE DEF t, o
<1>6. \A k \in DOMAIN n.calls : n.calls[k].kind # "delete"
  BY <1>2 DEF NowOK, DeleteOK
<1>7. DeleteOK(o.calls, o.inst, gen) /\ QueueOK(o.calls, gen, disk', mark')
  BY <1>4, <1>6 DEF NowOK, DeleteOK
<1>8. GateOK(o.inst, o.replica, o.ownHigh, dirty', Contents(disk'))
  BY <1>2, <1>4 DEF NowOK, GateOK, HeldIn
<1>9. NowOK(o, dirty', disk', mark') /\ o.inst \in HeldIn
  BY <1>4, <1>7, <1>8 DEF NowOK, HeldIn
<1>10. LeftOK(o)
  BY <1>1, <1>5, <1>9, KeepsOK
<1>11. QED
  BY <1>4, <1>10 DEF LeftOK

\* Dispatch, in all its outcomes.
LEMMA DispatchOK ==
  ASSUME TypeOK, NEW s, NEW n, Dispatch(s, n), seatLost => phase = Untracked,
         StepOK(s, Stored'), NowOK(n, dirty', disk', mark'),
         n.inst \notin HeldIn => Silent(s)
  PROVE  LeftOK(n) /\ (seatLost => phase' = Untracked)
<1>1. CASE seatLost
  <2>1. Keeps(Ignored(phase), n) /\ phase = Untracked
    BY <1>1 DEF Dispatch
  <2>2. phase \in Phase /\ phase.version = Nothing
    BY <2>1 DEF TypeOK, Untracked
  <2>3. StepOK(Ignored(phase), Stored') /\ Ignored(phase).phase = phase
    BY <2>2, IgnoredOK
  <2>4. Silent(Ignored(phase))
    BY <2>1, UntrackedIsSilent
  <2>5. LeftOK(n)
    BY <2>1, <2>3, <2>4, KeepsOK
  <2>6. QED
    BY <2>1, <2>3, <2>5 DEF Keeps
<1>2. CASE ~seatLost
  BY <1>2, KeepsOK, UnloadsOK, HandsBackOK DEF Dispatch
<1>3. QED
  BY <1>1, <1>2

-----------------------------------------------------------------------------
(* Store-first is inductive.                                               *)

\* The inputs to the phase of this document, against a storage that grew.
LEMMA PhaseInputs ==
  ASSUME TypeOK, StoreFirstInv, Grows
  PROVE  /\ phase \in Phase /\ (phase.version = Nothing \/ phase.version \subseteq Stored')
         /\ StepOK(Ignored(phase), Stored') /\ StepOK(OnRegister(phase), Stored')
         /\ StepOK(OnStateAdvanced(phase), Stored') /\ StepOK(OnCompact(phase), Stored')
         /\ StepOK(OnWriteFailed(phase), Stored')
         /\ inst \notin HeldIn => /\ Silent(Ignored(phase)) /\ Silent(OnStateAdvanced(phase))
                                 /\ Silent(OnCompact(phase)) /\ Silent(OnWriteFailed(phase))
<1>1. phase \in Phase
  BY DEF TypeOK
<1>2. phase.version = Nothing \/ phase.version \subseteq Stored'
  BY DEF StoreFirstInv, ConfirmedIsStored, Grows
<1>3. inst \notin HeldIn => phase = Untracked
  BY DEF StoreFirstInv, TrackedOK
<1>4. QED
  BY <1>1, <1>2, <1>3, IgnoredOK, InputsOK, UntrackedIsSilent

\* A dispatched step keeps the invariant, if store-first itself is kept.
LEMMA LeftKeepsInv ==
  ASSUME TypeOK, StoreFirstInv, NEW n, LeftOK(n), seatLost => phase' = Untracked,
         UNCHANGED <<gen, seatLost, fence, seatFence, ghosts>>, StoreFirst',
         published' = published \/ \A k \in DOMAIN n.calls : n.calls[k].kind # "delete",
         \A k \in DOMAIN n.calls : n.calls[k].kind = "delete" =>
           \E j \in DOMAIN calls : calls[j].kind = "delete"
  PROVE  StoreFirstInv'
<1>1. SeatOK'
  BY DEF LeftOK, StoreFirstInv, SeatOK
<1>2. TrackedOK'
  BY DEF LeftOK, TrackedOK
<1>3. ConfirmedIsStored'
  BY DEF LeftOK, ConfirmedIsStored
<1>4. QED
  BY <1>1, <1>2, <1>3 DEF LeftOK, StoreFirstInv

\* The queue as it stands, against a storage that grew.
LEMMA QueueStands ==
  ASSUME TypeOK, TypeOK', StoreFirstInv, Grows
  PROVE  QueueOK(calls, gen, disk', mark') /\ DeleteOK(calls, inst, gen)
BY GrowthKeepsQueue DEF TypeOK, StoreFirstInv

\* What was published is still stored when the storage has grown.
LEMMA PublishedStands ==
  ASSUME StoreFirstInv, Grows, published' = published
  PROVE  StoreFirst'
BY DEF StoreFirstInv, StoreFirst, Grows, Own

\* A version is never `undefined`.
LEMMA VersionNotNothing ==
  ASSUME NEW v \in Version
  PROVE  v # Nothing
BY NothingAssumption DEF Version

\* Dispatching on the queue as it stands, with nothing published.
LEMMA PlainDispatch ==
  ASSUME TypeOK, TypeOK', StoreFirstInv, UNCHANGED <<storage, published>>,
         UNCHANGED <<gen, seatLost, fence, seatFence, ghosts>>,
         NEW s, NEW n \in Shells, Dispatch(s, n),
         StepOK(s, Stored'), n.inst \notin HeldIn => Silent(s),
         n.calls = calls, inst = n.inst \/ (inst \in HeldIn /\ n.inst \in HeldIn),
         GateOK(n.inst, n.replica, n.ownHigh, dirty', Stored')
  PROVE  StoreFirstInv'
<1>1. Grows
  BY UnchangedGrows
<1>2. QueueOK(calls, gen, disk', mark') /\ DeleteOK(calls, inst, gen)
  BY <1>1, QueueStands
<1>3. DeleteOK(calls, n.inst, gen)
  BY <1>2 DEF DeleteOK
<1>4. NowOK(n, dirty', disk', mark')
  BY <1>2, <1>3 DEF NowOK, Stored
<1>5. seatLost => phase = Untracked
  BY DEF StoreFirstInv, TrackedOK
<1>6. LeftOK(n) /\ (seatLost => phase' = Untracked)
  BY <1>4, <1>5, DispatchOK
<1>7. StoreFirst'
  BY <1>1, PublishedStands
<1>8. QED
  BY <1>6, <1>7, LeftKeepsInv

\* The shell's own steps.
LEMMA ShellKeepsInv ==
  ASSUME TypeOK, TypeOK', StoreFirstInv, Shell
  PROVE  StoreFirstInv'
<1>1. Now \in Shells /\ replica \in Version /\ replica # Nothing
  BY NowTyped, VersionNotNothing DEF TypeOK
<1>2. GateOK(inst, replica, ownHigh, dirty, Stored)
  BY DEF StoreFirstInv
<1>3. CASE Drain
  <2>1. UNCHANGED <<storage, published>> /\ UNCHANGED <<gen, seatLost, fence, seatFence, ghosts>>
    BY <1>3 DEF Drain, seat
  <2>2. Grows /\ Stored' = Stored
    BY <2>1, UnchangedGrows DEF storage, Stored
  <2>3. CASE Held
    <3> DEFINE n == [Now EXCEPT !.ownHigh = replica]
    <3>1. /\ n \in Shells /\ n.inst = inst /\ n.calls = calls /\ n.replica = replica
          /\ n.ownHigh = replica
      BY <1>1 DEF Now, Shells
    <3>2. Dispatch(OnStateAdvanced(phase), n)
      BY <1>3, <2>3 DEF Drain
    <3> HIDE DEF n
    <3>3. GateOK(inst, replica, replica, dirty', Stored')
      BY <1>1, <1>2, <2>3 DEF GateOK, Held, HeldIn, Own
    <3>4. StepOK(OnStateAdvanced(phase), Stored') /\ n.inst \in HeldIn
      BY <2>2, <2>3, <3>1, PhaseInputs DEF Held, HeldIn
    <3>5. QED
      BY <2>1, <3>1, <3>2, <3>3, <3>4, PlainDispatch
  <2>4. CASE ~Held
    <3>1. UNCHANGED <<phase, releasing, inst, replica, calls, retry, ownHigh>>
      BY <1>3, <2>4 DEF Drain
    <3>2. GateOK(inst', replica', ownHigh', dirty', Stored')
      BY <1>2, <2>4, <3>1 DEF GateOK, Held, HeldIn
    <3>3. QueueOK(calls', gen', disk', mark') /\ DeleteOK(calls', inst', gen')
      BY <2>1, <3>1 DEF StoreFirstInv, storage
    <3>4. ConfirmedIsStored' /\ StoreFirst' /\ TrackedOK' /\ SeatOK'
      BY <2>1, <2>2, <3>1 DEF StoreFirstInv, ConfirmedIsStored, StoreFirst, TrackedOK, SeatOK
    <3>5. QED
      BY <3>2, <3>3, <3>4 DEF StoreFirstInv
  <2>5. QED
    BY <2>3, <2>4
<1>4. CASE QuietPoint
  <2>1. /\ UNCHANGED <<storage, published>> /\ UNCHANGED <<gen, seatLost, fence, seatFence, ghosts>>
        /\ dirty' = dirty
    BY <1>4 DEF QuietPoint, seat
  <2>2. Grows /\ Stored' = Stored
    BY <2>1, UnchangedGrows DEF storage, Stored
  <2>3. Dispatch(OnStateAdvanced(phase), Now)
    BY <1>4 DEF QuietPoint
  <2>4. Now.inst = inst /\ Now.calls = calls /\ Now.replica = replica /\ Now.ownHigh = ownHigh
    BY DEF Now
  <2>5. GateOK(Now.inst, Now.replica, Now.ownHigh, dirty', Stored')
    BY <1>2, <2>1, <2>2, <2>4
  <2>6. StepOK(OnStateAdvanced(phase), Stored') /\ (Now.inst \notin HeldIn => Silent(OnStateAdvanced(phase)))
    BY <2>2, <2>4, PhaseInputs
  <2>7. QED
    BY <1>1, <2>1, <2>3, <2>4, <2>5, <2>6, PlainDispatch
<1>5. CASE RetryFires
  <2> DEFINE n == [Now EXCEPT !.retry = FALSE]
  <2>1. /\ UNCHANGED <<storage, published>> /\ UNCHANGED <<gen, seatLost, fence, seatFence, ghosts>>
        /\ dirty' = dirty
    BY <1>5 DEF RetryFires, seat
  <2>2. Grows /\ Stored' = Stored
    BY <2>1, UnchangedGrows DEF storage, Stored
  <2>3. Dispatch(OnStateAdvanced(phase), n)
    BY <1>5 DEF RetryFires
  <2>4. n \in Shells /\ n.inst = inst /\ n.calls = calls /\ n.replica = replica /\ n.ownHigh = ownHigh
    BY <1>1 DEF Now, Shells
  <2> HIDE DEF n
  <2>5. GateOK(n.inst, n.replica, n.ownHigh, dirty', Stored')
    BY <1>2, <2>1, <2>2, <2>4
  <2>6. StepOK(OnStateAdvanced(phase), Stored') /\ (n.inst \notin HeldIn => Silent(OnStateAdvanced(phase)))
    BY <2>2, <2>4, PhaseInputs
  <2>7. QED
    BY <2>1, <2>3, <2>4, <2>5, <2>6, PlainDispatch
<1>6. QED
  BY <1>3, <1>4, <1>5 DEF Shell

\* The doors.
LEMMA DoorsKeepInv ==
  ASSUME TypeOK, TypeOK', StoreFirstInv, Doors
  PROVE  StoreFirstInv'
<1>1. /\ Now \in Shells /\ replica \in Version /\ replica # Nothing
      /\ Now.inst = inst /\ Now.calls = calls /\ Now.replica = replica /\ Now.ownHigh = ownHigh
  BY NowTyped, VersionNotNothing DEF TypeOK, Now
<1>2. /\ GateOK(inst, replica, ownHigh, dirty, Stored) /\ DeleteOK(calls, inst, gen)
      /\ QueueOK(calls, gen, disk, mark)
      /\ ConfirmedIsStored /\ StoreFirst /\ TrackedOK /\ SeatOK
  BY DEF StoreFirstInv
<1>3. calls \in Seq(Call) /\ gen \in Nat
  BY DEF TypeOK
<1>4. CASE Get
  <2> DEFINE c == [CallOf("writerOf") EXCEPT !.gen = gen + 1]
  <2>1. c.kind = "writerOf" /\ c.gen = gen + 1 /\ c \in Call
    <3>1. CallOf("writerOf") \in Call /\ CallOf("writerOf").kind = "writerOf"
      BY CallOfTyped DEF Kinds, CallOf
    <3>2. gen + 1 \in Nat
      BY <1>3
    <3>3. QED
      BY <3>1, <3>2 DEF Call
  <2>2. /\ inst \notin HeldIn /\ gen' = gen + 1 /\ inst' = "loading" /\ replica' = {}
        /\ ownHigh' = Nothing /\ calls' = Append(calls, c)
        /\ UNCHANGED <<phase, seatLost, dirty, disk, mark, fence, seatFence, ghosts, published>>
    BY <1>4 DEF Get, HeldIn, storage, seat
  <2> HIDE DEF c
  <2>3. \A k \in DOMAIN calls : calls[k].gen <= gen /\ calls[k].gen \in Nat
    <3>1. ASSUME NEW k \in DOMAIN calls
          PROVE  calls[k] \in Call /\ CallOK(calls[k], gen, disk, mark)
      BY <1>2, <1>3 DEF QueueOK
    <3>2. QED
      BY <3>1 DEF CallOK, Call
  <2>4. \A k \in DOMAIN calls : calls[k].gen <= gen + 1 /\ calls[k].gen # gen + 1
    BY <1>3, <2>3
  <2>5. QueueOK(calls, gen + 1, disk, mark)
    BY <1>2, <2>4 DEF QueueOK, CallOK
  <2>6. DeleteOK(calls, "loading", gen + 1)
    BY <1>2, <2>4 DEF DeleteOK, HeldIn
  <2>7. CallOK(c, gen + 1, disk, mark)
    BY <1>3, <2>1 DEF CallOK, Writes
  <2>8. /\ QueueOK(calls', gen', disk', mark') /\ DeleteOK(calls', inst', gen')
        /\ \A k \in DOMAIN calls' : calls'[k].kind = "delete" =>
             k \in DOMAIN calls /\ calls[k].kind = "delete"
    BY <1>3, <2>1, <2>2, <2>5, <2>6, <2>7, AppendOK DEF Writes
  <2>9. GateOK(inst', replica', ownHigh', dirty', Stored')
    BY <2>2 DEF GateOK, HeldIn, Own
  <2>10. ConfirmedIsStored' /\ StoreFirst' /\ TrackedOK' /\ SeatOK'
    BY <1>2, <2>2, <2>8 DEF ConfirmedIsStored, StoreFirst, TrackedOK, SeatOK, Stored
  <2>11. QED
    BY <2>8, <2>9, <2>10 DEF StoreFirstInv
<1>5. CASE WriteWhileLoading
  <2>1. /\ inst = "loading" /\ Own(replica') = Own(replica)
        /\ UNCHANGED <<phase, seatLost, inst, gen, dirty, ownHigh, calls, disk, mark, fence, seatFence, ghosts, published>>
    BY <1>5 DEF WriteWhileLoading, Own, storage, seat
  <2>2. GateOK(inst', replica', ownHigh', dirty', Stored')
    BY <1>2, <2>1 DEF GateOK, HeldIn
  <2>3. QED
    BY <1>2, <2>1, <2>2
    DEF StoreFirstInv, ConfirmedIsStored, StoreFirst, TrackedOK, SeatOK, Stored
<1>6. CASE LocalWrite
  <2>1. /\ inst = "ready" /\ replica \subseteq replica' /\ dirty'
        /\ UNCHANGED <<phase, seatLost, inst, gen, ownHigh, calls, disk, mark, fence, seatFence, ghosts, published>>
    BY <1>6 DEF LocalWrite, storage, seat
  <2>2. GateOK(inst', replica', ownHigh', dirty', Stored')
    BY <1>2, <2>1 DEF GateOK, HeldIn
  <2>3. QED
    BY <1>2, <2>1, <2>2
    DEF StoreFirstInv, ConfirmedIsStored, StoreFirst, TrackedOK, SeatOK, Stored
<1>7. CASE Compact
  <2>1. /\ UNCHANGED <<storage, published>> /\ UNCHANGED <<gen, seatLost, fence, seatFence, ghosts>>
        /\ dirty' = dirty
    BY <1>7 DEF Compact, seat
  <2>2. Grows /\ Stored' = Stored
    BY <2>1, UnchangedGrows DEF storage, Stored
  <2>3. Dispatch(OnCompact(phase), Now)
    BY <1>7 DEF Compact
  <2>4. GateOK(Now.inst, Now.replica, Now.ownHigh, dirty', Stored')
    BY <1>1, <1>2, <2>1, <2>2
  <2>5. StepOK(OnCompact(phase), Stored') /\ (Now.inst \notin HeldIn => Silent(OnCompact(phase)))
    BY <1>1, <2>2, PhaseInputs
  <2>6. QED
    BY <1>1, <2>1, <2>3, <2>4, <2>5, PlainDispatch
<1>8. CASE Unload
  <2> DEFINE s1 == IF dirty THEN OnStateAdvanced(phase) ELSE Ignored(phase)
             s2 == OnStateAdvanced(s1.phase)
             s  == [s2 EXCEPT !.write = IF s1.write # "none" THEN s1.write ELSE s2.write]
             n  == [Now EXCEPT !.inst = "storing",
                               !.ownHigh = IF dirty THEN replica ELSE ownHigh,
                               !.releasing = IF seatLost THEN 0 ELSE gen]
  <2>1. /\ inst = "ready" /\ dirty' = FALSE /\ Dispatch(s, n)
        /\ UNCHANGED <<storage, published>> /\ UNCHANGED <<gen, seatLost, fence, seatFence, ghosts>>
    BY <1>8 DEF Unload, seat
  <2>2. Grows /\ Stored' = Stored
    BY <2>1, UnchangedGrows DEF storage, Stored
  <2>3. StepOK(s1, Stored')
    BY <2>2, PhaseInputs
  <2>4. s1.phase \in Phase /\ (s1.phase.version = Nothing \/ s1.phase.version \subseteq Stored')
    BY <2>3 DEF StepOK, Steps
  <2>5. StepOK(s2, Stored')
    <3> HIDE DEF s1
    <3> QED BY <2>4, InputsOK
  <2>6. s1.write = "since" => s2.phase.version # Nothing
    <3>1. OnStateAdvanced(phase).write = "since" => OnStateAdvanced(phase).phase.status = "writing"
      BY DEF OnStateAdvanced, Request, Ignored, Start, Step, TypeOK, Phase
    <3>2. s1.write = "since" => s1.phase.status = "writing" /\ s1.phase.version # Nothing
      BY <2>3, <3>1 DEF StepOK, Ignored, Step
    <3>3. s1.phase.status = "writing" => s2.phase.version = s1.phase.version
      <4> HIDE DEF s1
      <4> QED BY <2>4 DEF OnStateAdvanced, Request, Ignored, Step, Phase
    <3>4. QED
      BY <3>2, <3>3
  <2>7. StepOK(s, Stored')
    <3> DEFINE w == IF s1.write # "none" THEN s1.write ELSE s2.write
    <3>1. w \in {"none", "register", "since", "compact"}
      BY <2>3, <2>5 DEF StepOK, Steps
    <3>2. w = "since" => s2.phase.version # Nothing
      BY <2>5, <2>6 DEF StepOK
    <3> HIDE DEF w, s2
    <3>3. StepOK([s2 EXCEPT !.write = w], Stored')
      BY <2>5, <3>1, <3>2 DEF StepOK, Steps
    <3>4. QED
      BY <3>3 DEF w
  <2>8. /\ n \in Shells /\ n.inst = "storing" /\ n.calls = calls /\ n.replica = replica
        /\ n.ownHigh = IF dirty THEN replica ELSE ownHigh
    BY <1>1 DEF Now, Shells, TypeOK
  <2> HIDE DEF s, n
  <2>9. GateOK(n.inst, n.replica, n.ownHigh, dirty', Stored')
    BY <1>1, <1>2, <2>1, <2>2, <2>8 DEF GateOK, HeldIn, Own
  <2>10. inst \in HeldIn /\ n.inst \in HeldIn
    BY <2>1, <2>8 DEF HeldIn
  <2>11. QED
    BY <2>1, <2>7, <2>8, <2>9, <2>10, PlainDispatch
<1>9. CASE Reopen
  <2> DEFINE n == [Now EXCEPT !.inst = "ready", !.releasing = 0]
  <2>1. /\ inst = "storing" /\ dirty' = dirty /\ Dispatch(Ignored(phase), n)
        /\ UNCHANGED <<storage, published>> /\ UNCHANGED <<gen, seatLost, fence, seatFence, ghosts>>
    BY <1>9 DEF Reopen, seat
  <2>2. Grows /\ Stored' = Stored
    BY <2>1, UnchangedGrows DEF storage, Stored
  <2>3. /\ n \in Shells /\ n.inst = "ready" /\ n.calls = calls /\ n.replica = replica
        /\ n.ownHigh = ownHigh
    BY <1>1 DEF Now, Shells
  <2> HIDE DEF n
  <2>4. GateOK(n.inst, n.replica, n.ownHigh, dirty', Stored')
    BY <1>2, <2>1, <2>2, <2>3 DEF GateOK, HeldIn
  <2>5. StepOK(Ignored(phase), Stored') /\ inst \in HeldIn /\ n.inst \in HeldIn
    BY <2>1, <2>2, <2>3, PhaseInputs DEF HeldIn
  <2>6. QED
    BY <2>1, <2>3, <2>4, <2>5, PlainDispatch
<1>10. CASE Destroy
  <2>1. /\ inst' = "absent" /\ replica' = {} /\ ownHigh' = Nothing /\ published' = {}
        /\ UNCHANGED <<seatLost, gen, dirty, disk, mark, fence, seatFence, ghosts>>
    BY <1>10 DEF Destroy, storage, seat
  <2>2. GateOK(inst', replica', ownHigh', dirty', Stored') /\ StoreFirst'
    BY <2>1 DEF GateOK, HeldIn, StoreFirst, Own
  <2>3. phase' = Untracked
    BY <1>2, <1>10 DEF Destroy, TrackedOK
  <2>4. TrackedOK' /\ ConfirmedIsStored' /\ SeatOK'
    BY <1>2, <2>1, <2>3 DEF TrackedOK, ConfirmedIsStored, SeatOK, Untracked
  <2>5. DeleteOK(calls, "absent", gen)
    BY <1>2 DEF DeleteOK, HeldIn
  <2>6. CASE seatLost
    <3>1. calls' = calls
      BY <1>10, <2>6 DEF Destroy
    <3>2. QED
      BY <1>2, <2>1, <2>2, <2>4, <2>5, <3>1 DEF StoreFirstInv
  <2>7. CASE ~seatLost
    <3> DEFINE c == CallOf("delete")
    <3>1. c \in Call /\ c.kind = "delete" /\ c.gen = gen
      BY CallOfTyped DEF Kinds, CallOf
    <3>2. calls' = Append(calls, c)
      BY <1>10, <2>7 DEF Destroy
    <3> HIDE DEF c
    <3>3. CallOK(c, gen, disk, mark)
      BY <1>3, <3>1 DEF CallOK, Writes
    <3>4. \A k \in DOMAIN Append(calls, c) :
            \/ k \in DOMAIN calls /\ Append(calls, c)[k] = calls[k]
            \/ k = Len(calls) + 1 /\ Append(calls, c)[k] = c
      BY <1>3
    <3>5. QueueOK(Append(calls, c), gen, disk, mark)
      BY <1>2, <3>3, <3>4 DEF QueueOK
    <3>6. \A k \in DOMAIN Append(calls, c) : k \in Nat /\ k <= Len(calls) + 1
      BY <1>3
    <3>7. DeleteOK(Append(calls, c), "absent", gen)
      <4>1. SUFFICES ASSUME NEW k \in DOMAIN Append(calls, c), Append(calls, c)[k].kind = "delete",
                            NEW j \in DOMAIN Append(calls, c), j > k
                     PROVE  Append(calls, c)[j].kind \notin Writes
        BY DEF DeleteOK, HeldIn
      <4>2. CASE Append(calls, c)[j] = c
        BY <3>1, <4>2 DEF Writes
      <4>3. CASE j \in DOMAIN calls /\ Append(calls, c)[j] = calls[j]
        <5>1. k # Len(calls) + 1
          BY <1>3, <3>6, <4>1, <4>3
        <5>2. k \in DOMAIN calls /\ calls[k].kind = "delete"
          BY <3>4, <4>1, <5>1
        <5>3. QED
          BY <1>2, <4>1, <4>3, <5>2 DEF DeleteOK
      <4>4. QED
        BY <3>4, <4>2, <4>3
    <3>8. QED
      BY <2>1, <2>2, <2>4, <3>2, <3>5, <3>7 DEF StoreFirstInv
  <2>8. QED
    BY <2>6, <2>7
<1>11. QED
  BY <1>4, <1>5, <1>6, <1>7, <1>8, <1>9, <1>10 DEF Doors

\* The network: what an export lets out is stored.
LEMMA NetworkKeepsInv ==
  ASSUME TypeOK, TypeOK', StoreFirstInv, Network
  PROVE  StoreFirstInv'
<1>1. /\ Now \in Shells /\ replica \in Version /\ replica # Nothing
      /\ Now.inst = inst /\ Now.calls = calls /\ Now.replica = replica
  BY NowTyped, VersionNotNothing DEF TypeOK, Now
<1>2. /\ GateOK(inst, replica, ownHigh, dirty, Stored) /\ DeleteOK(calls, inst, gen)
      /\ QueueOK(calls, gen, disk, mark)
      /\ ConfirmedIsStored /\ StoreFirst /\ TrackedOK /\ SeatOK
  BY DEF StoreFirstInv
<1>3. CASE Merge
  <2>1. /\ Own(replica') = Own(replica) /\ replica \subseteq replica'
        /\ UNCHANGED <<phase, seatLost, inst, gen, dirty, ownHigh, calls, disk, mark, fence, seatFence, ghosts, published>>
    BY <1>3 DEF Merge, Own, storage, seat
  <2>2. GateOK(inst', replica', ownHigh', dirty', Stored')
    BY <1>2, <2>1 DEF GateOK, Stored
  <2>3. QED
    BY <1>2, <2>1, <2>2
    DEF StoreFirstInv, ConfirmedIsStored, StoreFirst, TrackedOK, SeatOK, Stored
<1>4. CASE Export
  <2> DEFINE high == IF dirty THEN replica ELSE ownHigh
             s    == IF dirty /\ ~seatLost THEN OnStateAdvanced(phase) ELSE Ignored(phase)
             n    == [Now EXCEPT !.ownHigh = high]
  <2>1. /\ Held /\ dirty' = FALSE /\ Dispatch(s, n)
        /\ UNCHANGED storage /\ UNCHANGED <<gen, seatLost, fence, seatFence, ghosts>>
        /\ published' = IF GateOpen(high, ConfirmedVersion(s.phase), replica)
                        THEN published \cup Own(replica) ELSE published
    BY <1>4 DEF Export, seat
  <2>2. Grows /\ Stored' = Stored
    BY <2>1, UnchangedGrows DEF storage, Stored
  <2>3. /\ n \in Shells /\ n.inst = inst /\ n.calls = calls /\ n.replica = replica
        /\ n.ownHigh = high
    BY <1>1 DEF Now, Shells, TypeOK
  <2>4. StepOK(s, Stored')
    BY <2>2, PhaseInputs
  <2>5. GateOK(inst, replica, high, FALSE, Stored)
    BY <1>1, <1>2, <2>1 DEF GateOK, Held, HeldIn, Own
  <2> HIDE DEF s, n, high
  <2>6. inst \in HeldIn /\ n.inst \in HeldIn
    BY <2>1, <2>3 DEF Held, HeldIn
  <2>7. QueueOK(n.calls, gen, disk', mark') /\ DeleteOK(n.calls, n.inst, gen)
    BY <2>2, <2>3, QueueStands
  <2>8. NowOK(n, dirty', disk', mark')
    BY <2>1, <2>2, <2>3, <2>5, <2>7 DEF NowOK, Stored
  <2>9. LeftOK(n) /\ (seatLost => phase' = Untracked)
    BY <1>2, <2>1, <2>4, <2>6, <2>8, DispatchOK DEF TrackedOK
  <2>10. \A k \in DOMAIN n.calls : n.calls[k].kind # "delete"
    BY <2>6, <2>7 DEF DeleteOK
  <2>11. ASSUME GateOpen(high, ConfirmedVersion(s.phase), replica)
         PROVE  Own(replica) \subseteq Stored
    <3>1. high # Nothing => high \subseteq replica
      BY <2>5 DEF GateOK
    <3>2. high # Nothing => high \subseteq Stored
      BY <2>2, <2>4, <2>11, <3>1 DEF GateOpen, ConfirmedVersion, StepOK
    <3>3. QED
      BY <2>5, <2>6, <3>2 DEF GateOK
  <2>12. StoreFirst'
    BY <1>2, <2>1, <2>2, <2>11 DEF StoreFirst, Own
  <2>13. QED
    BY <2>1, <2>9, <2>10, <2>12, LeftKeepsInv
<1>5. QED
  BY <1>3, <1>4 DEF Network

\* Dispatching after the head of the queue was answered.
LEMMA AnswerDispatch ==
  ASSUME TypeOK, TypeOK', StoreFirstInv, Grows, calls # <<>>,
         UNCHANGED <<gen, seatLost, dirty, fence, seatFence, ghosts, published>>,
         NEW s, NEW n \in Shells, Dispatch(s, n),
         StepOK(s, Stored'), n.inst \notin HeldIn => Silent(s),
         n.calls = Tail(calls), DeleteOK(Tail(calls), n.inst, gen),
         GateOK(n.inst, n.replica, n.ownHigh, dirty', Stored')
  PROVE  StoreFirstInv'
<1>1. QueueOK(calls, gen, disk', mark') /\ DeleteOK(calls, inst, gen)
  BY QueueStands
<1>2. calls \in Seq(Call)
  BY DEF TypeOK
<1>3. /\ QueueOK(Tail(calls), gen, disk', mark')
      /\ \A k \in DOMAIN Tail(calls) : k + 1 \in DOMAIN calls /\ Tail(calls)[k] = calls[k + 1]
  BY <1>1, <1>2, TailOK
<1>4. NowOK(n, dirty', disk', mark')
  BY <1>3 DEF NowOK, Stored
<1>5. LeftOK(n) /\ (seatLost => phase' = Untracked)
  BY <1>4, DispatchOK DEF StoreFirstInv, TrackedOK
<1>6. StoreFirst'
  BY PublishedStands
<1>7. \A k \in DOMAIN n.calls : n.calls[k].kind = "delete" =>
        \E j \in DOMAIN calls : calls[j].kind = "delete"
  BY <1>3
<1>8. QED
  BY <1>5, <1>6, <1>7, LeftKeepsInv

\* What the storage's growth leaves of the gate.
LEMMA GateStands ==
  ASSUME StoreFirstInv, Grows, dirty' = dirty
  PROVE  GateOK(inst, replica, ownHigh, dirty', Stored')
BY DEF StoreFirstInv, GateOK, Grows

\* The answered call is taken off, and the rest of the process is as it was
\* but for a phase that may be dropped and a lifecycle that may fail.
LEMMA DroppedCall ==
  ASSUME TypeOK, TypeOK', StoreFirstInv, calls # <<>>, calls' = Tail(calls),
         UNCHANGED <<gen, dirty, replica, ownHigh, storage, fence, seatFence, ghosts, published>>,
         phase' \in {phase, Untracked}, seatLost' => phase' = Untracked,
         inst' = inst \/ (inst = "loading" /\ inst' = "failed")
  PROVE  StoreFirstInv'
<1>1. /\ GateOK(inst, replica, ownHigh, dirty, Stored) /\ DeleteOK(calls, inst, gen)
      /\ QueueOK(calls, gen, disk, mark)
      /\ ConfirmedIsStored /\ StoreFirst /\ TrackedOK /\ SeatOK
  BY DEF StoreFirstInv
<1>2. calls \in Seq(Call)
  BY DEF TypeOK
<1>3. /\ QueueOK(Tail(calls), gen, disk, mark) /\ DeleteOK(Tail(calls), inst, gen)
      /\ \A k \in DOMAIN Tail(calls) : k + 1 \in DOMAIN calls /\ Tail(calls)[k] = calls[k + 1]
  BY <1>1, <1>2, TailOK
<1>4. DeleteOK(calls', inst', gen')
  BY <1>3 DEF DeleteOK, HeldIn
<1>5. GateOK(inst', replica', ownHigh', dirty', Stored')
  BY <1>1 DEF GateOK, HeldIn, Stored, storage
<1>6. ConfirmedIsStored' /\ StoreFirst' /\ TrackedOK' /\ SeatOK'
  <2>1. Untracked.version = Nothing
    BY DEF Untracked
  <2>2. ConfirmedIsStored' /\ StoreFirst'
    BY <1>1, <2>1 DEF ConfirmedIsStored, StoreFirst, Stored, storage
  <2>3. TrackedOK'
    BY <1>1 DEF TrackedOK, HeldIn
  <2>4. SeatOK'
    BY <1>1, <1>3 DEF SeatOK
  <2>5. QED
    BY <2>2, <2>3, <2>4
<1>7. QED
  BY <1>3, <1>4, <1>5, <1>6 DEF StoreFirstInv, storage

\* The call at the head is followed by its caller's next call.
LEMMA NextCall ==
  ASSUME TypeOK, TypeOK', StoreFirstInv, calls # <<>>, NEW c \in Call,
         c.kind # "delete", CallOK(c, gen, disk, mark),
         c.kind \in Writes => inst \in HeldIn,
         calls' = Append(Tail(calls), c),
         UNCHANGED <<phase, seatLost, inst, gen, dirty, ownHigh, storage, fence, seatFence, ghosts, published>>,
         GateOK(inst, replica', ownHigh, dirty, Stored)
  PROVE  StoreFirstInv'
<1>1. /\ DeleteOK(calls, inst, gen) /\ QueueOK(calls, gen, disk, mark)
      /\ ConfirmedIsStored /\ StoreFirst /\ TrackedOK /\ SeatOK
  BY DEF StoreFirstInv
<1>2. calls \in Seq(Call)
  BY DEF TypeOK
<1>3. /\ QueueOK(Tail(calls), gen, disk, mark) /\ DeleteOK(Tail(calls), inst, gen)
      /\ \A k \in DOMAIN Tail(calls) : k + 1 \in DOMAIN calls /\ Tail(calls)[k] = calls[k + 1]
  BY <1>1, <1>2, TailOK
<1>4. c.kind \in Writes => \A k \in DOMAIN Tail(calls) : Tail(calls)[k].kind # "delete"
  BY <1>3 DEF DeleteOK
<1>5. Tail(calls) \in Seq(Call)
  BY <1>2
<1>6. /\ QueueOK(calls', gen, disk, mark) /\ DeleteOK(calls', inst, gen)
      /\ \A k \in DOMAIN calls' : calls'[k].kind = "delete" =>
           k \in DOMAIN Tail(calls) /\ Tail(calls)[k].kind = "delete"
  BY <1>3, <1>4, <1>5, AppendOK
<1>7. SeatOK'
  BY <1>1, <1>3, <1>6 DEF SeatOK
<1>8. QED
  BY <1>1, <1>6, <1>7 DEF StoreFirstInv, ConfirmedIsStored, StoreFirst, TrackedOK, Stored, storage

\* The head of the queue.
LEMMA HeadOK ==
  ASSUME TypeOK, StoreFirstInv, calls # <<>>
  PROVE  /\ Head(calls) \in Call /\ CallOK(Head(calls), gen, disk, mark)
         /\ Head(calls) = calls[1] /\ 1 \in DOMAIN calls
         /\ DeleteOK(Tail(calls), inst, gen) /\ Dequeued \in Shells
         /\ Dequeued.inst = inst /\ Dequeued.calls = Tail(calls)
         /\ Dequeued.replica = replica /\ Dequeued.ownHigh = ownHigh
<1>1. calls \in Seq(Call) /\ QueueOK(calls, gen, disk, mark) /\ DeleteOK(calls, inst, gen)
  BY DEF TypeOK, StoreFirstInv
<1>2. Head(calls) = calls[1] /\ 1 \in DOMAIN calls /\ DeleteOK(Tail(calls), inst, gen)
  BY <1>1, TailOK
<1>3. Head(calls) \in Call /\ Dequeued \in Shells
  BY DequeuedTyped
<1>4. CallOK(Head(calls), gen, disk, mark)
  BY <1>1, <1>2 DEF QueueOK
<1>5. /\ Dequeued.inst = inst /\ Dequeued.calls = Tail(calls)
      /\ Dequeued.replica = replica /\ Dequeued.ownHigh = ownHigh
  BY DEF Dequeued, Now
<1>6. QED
  BY <1>2, <1>3, <1>4, <1>5

\* The store's answers.
LEMMA StoreCallsKeepInv ==
  ASSUME TypeOK, TypeOK', StoreFirstInv, StoreCalls
  PROVE  StoreFirstInv'
<1>0. /\ GateOK(inst, replica, ownHigh, dirty, Stored) /\ DeleteOK(calls, inst, gen)
      /\ QueueOK(calls, gen, disk, mark)
      /\ ConfirmedIsStored /\ StoreFirst /\ TrackedOK /\ SeatOK
  BY DEF StoreFirstInv
<1> DEFINE c == Head(calls)
<1>1. CASE WriteDone
  <2>1. /\ calls # <<>> /\ c.kind \in {"append", "replace"} /\ Applied(c)
        /\ Dispatch(OnWriteSucceeded(phase, c.version), Dequeued)
        /\ UNCHANGED <<gen, seatLost, dirty, fence, seatFence, ghosts, published>>
    BY <1>1 DEF WriteDone, HeadIs, seat
  <2>2. c \in Call /\ CallOK(c, gen, disk, mark)
    BY <2>1, HeadOK
  <2> HIDE DEF c
  <2>3. Grows /\ c.version \subseteq Stored' /\ c.version \in Version
    BY <2>1, <2>2, AppliedGrows DEF Call, Version
  <2>4. StepOK(OnWriteSucceeded(phase, c.version), Stored')
    BY <2>3, PhaseInputs, VersionInputsOK
  <2>5. inst \notin HeldIn => Silent(OnWriteSucceeded(phase, c.version))
    BY <1>0, UntrackedIsSilent DEF TrackedOK
  <2>6. GateOK(inst, replica, ownHigh, dirty', Stored')
    BY <2>1, <2>3, GateStands
  <2>7. QED
    BY <2>1, <2>3, <2>4, <2>5, <2>6, HeadOK, AnswerDispatch
<1>2. CASE NothingToWrite
  <2>1. /\ calls # <<>> /\ c.kind = "none"
        /\ Dispatch(OnWriteSucceeded(phase, c.version), Dequeued)
        /\ UNCHANGED <<gen, seatLost, dirty, fence, seatFence, ghosts, published>>
        /\ UNCHANGED storage
    BY <1>2 DEF NothingToWrite, HeadIs, seat
  <2>2. c \in Call /\ CallOK(c, gen, disk, mark)
    BY <2>1, HeadOK
  <2> HIDE DEF c
  <2>4. Grows /\ Stored' = Stored
    BY <2>1, UnchangedGrows DEF storage, Stored
  <2>5. c.version \in Version
    BY <2>2 DEF Call, Version
  <2>6. c.version \subseteq Stored'
    BY <2>1, <2>2, <2>4 DEF CallOK, Writes, Stored
  <2>7. StepOK(OnWriteSucceeded(phase, c.version), Stored')
    BY <2>4, <2>5, <2>6, PhaseInputs, VersionInputsOK
  <2>8. inst \notin HeldIn => Silent(OnWriteSucceeded(phase, c.version))
    BY <1>0, UntrackedIsSilent DEF TrackedOK
  <2>9. GateOK(inst, replica, ownHigh, dirty', Stored')
    BY <2>1, <2>4, GateStands
  <2>10. QED
    BY <2>1, <2>4, <2>7, <2>8, <2>9, HeadOK, AnswerDispatch
<1>3. CASE SeatLost
  BY <1>3, DroppedCall DEF SeatLost, HeadIs, seat
<1>4. CASE MarkRead
  <2> DEFINE d == [c EXCEPT !.kind = "loadAll", !.through = mark]
  <2>1. /\ calls # <<>> /\ calls' = Append(Tail(calls), d)
        /\ UNCHANGED <<phase, seatLost, inst, gen, replica, dirty, ownHigh, storage, fence, seatFence, ghosts, published>>
    BY <1>4 DEF MarkRead, HeadIs, seat
  <2>2. c \in Call /\ CallOK(c, gen, disk, mark) /\ mark \in Nat
    BY <2>1, HeadOK DEF TypeOK
  <2> HIDE DEF c
  <2>3. d \in Call /\ d.kind = "loadAll" /\ d.through = mark /\ d.gen = c.gen
    BY <2>2 DEF Call, Kinds
  <2> HIDE DEF d
  <2>4. CallOK(d, gen, disk, mark)
    BY <2>2, <2>3 DEF CallOK, Writes
  <2>5. QED
    BY <1>0, <2>1, <2>3, <2>4, NextCall DEF Writes
<1>5. CASE CompactionRead
  <2> DEFINE taken == replica \cup Stored
             whole == [c EXCEPT !.kind = "replace", !.ops = taken, !.version = taken]
             w     == IF ConfirmedVersion(phase) = Nothing THEN "register" ELSE "since"
             next  == IF \A r \in disk : r.readable THEN whole ELSE Prepared(w, phase, taken)
  <2>1. /\ calls # <<>> /\ c.kind = "loadAll"
        /\ UNCHANGED <<gen, seatLost, dirty, fence, seatFence, ghosts, published>>
        /\ UNCHANGED storage
    BY <1>5 DEF CompactionRead, HeadIs, seat
  <2>2. c \in Call /\ CallOK(c, gen, disk, mark)
    BY <2>1, HeadOK
  <2>3. Grows /\ Stored' = Stored
    BY <2>1, UnchangedGrows DEF storage, Stored
  <2>4. CASE Held /\ c.gen = gen
    <3>1. /\ replica' = taken /\ calls' = Append(Tail(calls), next)
          /\ UNCHANGED <<phase, inst, ownHigh>>
      BY <1>5, <2>4 DEF CompactionRead
    <3>2. taken \in Version
      BY StoredTyped DEF TypeOK, Version
    <3>3. whole \in Call /\ whole.kind = "replace" /\ CallOK(whole, gen, disk, mark)
      <4>1. Contents({r \in disk : r.at <= c.through}) \subseteq Stored
        BY DEF Stored, Contents
      <4> HIDE DEF c
      <4>2. Contents({r \in disk : r.at <= c.through}) \subseteq taken
        BY <4>1
      <4> HIDE DEF taken
      <4>3. /\ whole \in Call /\ whole.kind = "replace" /\ whole.ops = taken
            /\ whole.version = taken /\ whole.through = c.through /\ whole.gen = c.gen
        BY <2>2, <3>2 DEF Call, Kinds, Version
      <4> HIDE DEF whole
      <4>4. c.through <= mark /\ c.gen <= gen
        BY <2>1, <2>2 DEF CallOK
      <4>5. CallOK(whole, gen, disk, mark)
        BY <4>2, <4>3, <4>4 DEF CallOK, Writes
      <4>6. QED
        BY <4>3, <4>5
    <3>4. /\ Prepared(w, phase, taken) \in Call
          /\ Prepared(w, phase, taken).kind \in {"append", "none", "mark"}
          /\ CallOK(Prepared(w, phase, taken), gen, disk, mark)
      <4> DEFINE s == Step(phase, w)
      <4>1. s.phase = phase /\ s.write = w /\ s.persisted = Nothing /\ s.retry = FALSE
        BY DEF Step
      <4>2. s \in Steps
        BY DEF Step, Steps, TypeOK
      <4>3. w = "since" => phase.version # Nothing
        BY DEF ConfirmedVersion
      <4>4. phase.version = Nothing \/ phase.version \subseteq Contents(disk)
        BY <1>0 DEF ConfirmedIsStored, Stored
      <4> HIDE DEF s
      <4>5. StepOK(s, Contents(disk))
        BY <4>1, <4>2, <4>3, <4>4 DEF StepOK
      <4>6. gen \in Nat /\ s.write # "none"
        BY <4>1 DEF TypeOK
      <4> HIDE DEF taken, w
      <4>7. QED
        BY <3>2, <4>1, <4>5, <4>6, PreparedOK
    <3>5. GateOK(inst, taken, ownHigh, dirty, Stored)
      BY <1>0, <2>4 DEF GateOK, Own, Held, HeldIn
    <3> HIDE DEF taken, whole, w
    <3>6. next \in Call /\ next.kind # "delete" /\ CallOK(next, gen, disk, mark)
      BY <3>3, <3>4
    <3>7. inst \in HeldIn
      BY <2>4 DEF Held, HeldIn
    <3> HIDE DEF next
    <3>8. QED
      BY <2>1, <3>1, <3>5, <3>6, <3>7, NextCall
  <2>5. CASE ~(Held /\ c.gen = gen)
    <3>1. Dispatch(OnWriteFailed(phase), Dequeued)
      BY <1>5, <2>5 DEF CompactionRead
    <3>2. StepOK(OnWriteFailed(phase), Stored') /\ (inst \notin HeldIn => Silent(OnWriteFailed(phase)))
      BY <2>3, PhaseInputs
    <3>3. GateOK(inst, replica, ownHigh, dirty', Stored')
      BY <2>1, <2>3, GateStands
    <3>4. QED
      BY <2>1, <2>3, <3>1, <3>2, <3>3, HeadOK, AnswerDispatch
  <2>6. QED
    BY <2>4, <2>5
<1>6. CASE WriterRead
  <2> DEFINE d == [c EXCEPT !.kind = "load"]
  <2>1. /\ calls # <<>> /\ calls' = Append(Tail(calls), d)
        /\ UNCHANGED <<phase, seatLost, inst, gen, replica, dirty, ownHigh, storage, fence, seatFence, ghosts, published>>
    BY <1>6 DEF WriterRead, HeadIs, seat
  <2>2. c \in Call /\ CallOK(c, gen, disk, mark)
    BY <2>1, HeadOK
  <2> HIDE DEF c
  <2>3. d \in Call /\ d.kind = "load" /\ d.gen = c.gen
    BY <2>2 DEF Call, Kinds
  <2> HIDE DEF d
  <2>4. CallOK(d, gen, disk, mark)
    BY <2>2, <2>3 DEF CallOK, Writes
  <2>5. QED
    BY <1>0, <2>1, <2>3, <2>4, NextCall DEF Writes
<1>7. CASE Loaded
  <2> DEFINE taken == replica \cup Stored
             found == \E r \in disk : r.readable
             s     == IF found THEN OnHydrated(phase, LoadedVersion(taken)) ELSE OnRegister(phase)
             n     == [Dequeued EXCEPT !.inst = "ready", !.replica = taken]
  <2>1. /\ calls # <<>> /\ c.kind = "load"
        /\ UNCHANGED <<gen, seatLost, dirty, fence, seatFence, ghosts, published>>
        /\ UNCHANGED storage
    BY <1>7 DEF Loaded, HeadIs, seat
  <2>2. Grows /\ Stored' = Stored
    BY <2>1, UnchangedGrows DEF storage, Stored
  <2>3. CASE inst = "loading" /\ c.gen = gen
    <3>1. Dispatch(s, n)
      BY <1>7, <2>3 DEF Loaded
    <3>2. StepOK(s, Stored')
      BY <2>2, PhaseInputs, StoredTyped, VersionInputsOK DEF LoadedVersion
    <3>3. taken \in Version
      BY StoredTyped DEF TypeOK, Version
    <3>4. GateOK("ready", taken, ownHigh, dirty', Stored')
      BY <1>0, <2>1, <2>2, <2>3 DEF GateOK, HeldIn, Own
    <3> HIDE DEF taken
    <3>5. /\ n \in Shells /\ n.inst = "ready" /\ n.replica = taken
          /\ n.calls = Tail(calls) /\ n.ownHigh = ownHigh
      BY <2>1, <3>3, HeadOK DEF Shells
    <3>6. c = calls[1] /\ 1 \in DOMAIN calls /\ calls \in Seq(Call)
      BY <2>1, HeadOK DEF TypeOK
    <3>7. \A k \in DOMAIN Tail(calls) : Tail(calls)[k].kind # "delete"
      <4>1. SUFFICES ASSUME NEW k \in DOMAIN Tail(calls), Tail(calls)[k].kind = "delete"
                     PROVE  FALSE
        OBVIOUS
      <4>2. k + 1 \in DOMAIN calls /\ calls[k + 1].kind = "delete" /\ 1 < k + 1
        BY <2>1, <3>6, <4>1
      <4>3. calls[1].gen # gen
        BY <1>0, <2>1, <2>3, <3>6, <4>2 DEF DeleteOK
      <4>4. QED
        BY <2>3, <3>6, <4>3
    <3>8. DeleteOK(Tail(calls), "ready", gen)
      BY <3>7 DEF DeleteOK
    <3> HIDE DEF s, n
    <3>9. n.inst \in HeldIn
      BY <3>5 DEF HeldIn
    <3>10. QED
      BY <2>1, <2>2, <3>1, <3>2, <3>4, <3>5, <3>8, <3>9, AnswerDispatch
  <2>4. CASE ~(inst = "loading" /\ c.gen = gen)
    <3>1. Keeps(Ignored(phase), Dequeued)
      BY <1>7, <2>4 DEF Loaded
    <3>2. /\ phase' = phase /\ inst' = inst /\ replica' = replica /\ calls' = Tail(calls)
          /\ ownHigh' = ownHigh
      BY <2>1, <3>1, HeadOK DEF Keeps, Ignored, Step, CallsAfter, HighAfter
    <3>3. QED
      BY <1>0, <2>1, <3>2, DroppedCall DEF TrackedOK
  <2>5. QED
    BY <2>3, <2>4
<1>8. CASE DeleteDone
  <2>1. /\ calls # <<>> /\ c.kind = "delete" /\ fence = seatFence /\ disk' = {}
        /\ calls' = Tail(calls)
        /\ UNCHANGED <<phase, seatLost, inst, gen, replica, dirty, ownHigh, mark, fence, seatFence, ghosts, published>>
    BY <1>8 DEF DeleteDone, HeadIs, SeatHeld, seat
  <2>2. c = calls[1] /\ 1 \in DOMAIN calls /\ calls \in Seq(Call) /\ DeleteOK(Tail(calls), inst, gen)
    BY <2>1, HeadOK DEF TypeOK
  <2>3. inst \notin HeldIn
    BY <1>0, <2>1, <2>2 DEF DeleteOK
  <2>4. published = {}
    BY <1>0, <2>1, <2>2 DEF SeatOK
  <2>5. phase.version = Nothing
    BY <1>0, <2>3 DEF TrackedOK, Untracked
  <2>6. GateOK(inst', replica', ownHigh', dirty', Stored')
    BY <1>0, <2>1, <2>3 DEF GateOK
  <2>7. ASSUME NEW k \in DOMAIN Tail(calls)
        PROVE  CallOK(Tail(calls)[k], gen, {}, mark)
    <3>1. k + 1 \in DOMAIN calls /\ Tail(calls)[k] = calls[k + 1] /\ k + 1 > 1
      BY <2>1, <2>2
    <3>2. CallOK(calls[k + 1], gen, disk, mark)
      BY <1>0, <3>1 DEF QueueOK
    <3>3. calls[k + 1].kind \notin Writes
      BY <1>0, <2>1, <2>2, <3>1 DEF DeleteOK
    <3>4. QED
      BY <3>1, <3>2, <3>3 DEF CallOK, Writes
  <2>8. QueueOK(calls', gen', disk', mark')
    BY <2>1, <2>7 DEF QueueOK
  <2>9. ConfirmedIsStored' /\ StoreFirst' /\ TrackedOK' /\ SeatOK'
    BY <1>0, <2>1, <2>4, <2>5 DEF ConfirmedIsStored, StoreFirst, Own, TrackedOK, SeatOK
  <2>10. QED
    BY <2>1, <2>2, <2>6, <2>8, <2>9 DEF StoreFirstInv
<1>9. QED
  BY <1>1, <1>2, <1>3, <1>4, <1>5, <1>6, <1>7, <1>8 DEF StoreCalls

\* Faults and crashes: a call that failed may still have grown the stream, and
\* a dead run's call finds the seat claimed again.
LEMMA FaultsKeepInv ==
  ASSUME TypeOK, TypeOK', StoreFirstInv, Faults
  PROVE  StoreFirstInv'
<1>0. /\ GateOK(inst, replica, ownHigh, dirty, Stored) /\ DeleteOK(calls, inst, gen)
      /\ QueueOK(calls, gen, disk, mark)
      /\ ConfirmedIsStored /\ StoreFirst /\ TrackedOK /\ SeatOK
  BY DEF StoreFirstInv
<1>1. CASE WriteFault
  <2> DEFINE c == Head(calls)
  <2>1. /\ calls # <<>> /\ Dispatch(OnWriteFailed(phase), Dequeued)
        /\ UNCHANGED <<gen, seatLost, dirty, fence, seatFence, ghosts, published>>
        /\ UNCHANGED storage \/ (c.kind \in {"append", "replace"} /\ Applied(c))
    BY <1>1 DEF WriteFault, HeadIs, seat
  <2>2. c \in Call /\ CallOK(c, gen, disk, mark)
    BY <2>1, HeadOK
  <2> HIDE DEF c
  <2>3. Grows
    BY <2>1, <2>2, UnchangedGrows, AppliedGrows
  <2>4. StepOK(OnWriteFailed(phase), Stored') /\ (inst \notin HeldIn => Silent(OnWriteFailed(phase)))
    BY <2>3, PhaseInputs
  <2>5. GateOK(inst, replica, ownHigh, dirty', Stored')
    BY <2>1, <2>3, GateStands
  <2>6. QED
    BY <2>1, <2>3, <2>4, <2>5, HeadOK, AnswerDispatch
<1>2. CASE LoadFault
  <2>1. /\ calls # <<>> /\ calls' = Tail(calls)
        /\ UNCHANGED <<gen, dirty, replica, ownHigh, storage, fence, seatFence, ghosts, published>>
        /\ phase' = phase /\ seatLost' = seatLost
        /\ inst' = inst \/ (inst = "loading" /\ inst' = "failed")
    BY <1>2 DEF LoadFault, HeadIs, seat
  <2>2. QED
    BY <1>0, <2>1, DroppedCall DEF TrackedOK
<1>3. CASE DeleteFault
  <2>1. /\ calls # <<>> /\ calls' = Tail(calls)
        /\ UNCHANGED <<gen, dirty, replica, ownHigh, storage, fence, seatFence, ghosts, published>>
        /\ phase' = phase /\ seatLost' = seatLost /\ inst' = inst
    BY <1>3 DEF DeleteFault, HeadIs, seat
  <2>2. QED
    BY <1>0, <2>1, DroppedCall DEF TrackedOK
<1>4. CASE Crash
  <2>1. /\ seatFence' = seatFence + 1 /\ fence' = seatFence + 1
        /\ \A g \in ghosts' : g \in ghosts \/ g.fence = fence
        /\ phase' = Untracked /\ inst' = "absent" /\ replica' = {} /\ ownHigh' = Nothing
        /\ calls' = <<>> /\ UNCHANGED <<disk, mark, published>>
    BY <1>4 DEF Crash, storage
  <2>2. /\ fence <= seatFence /\ seatFence \in Nat /\ fence \in Nat
        /\ \A g \in ghosts : g.fence < seatFence /\ g.fence \in Nat
    BY <1>0 DEF SeatOK, TypeOK
  <2>3. \A g \in ghosts' : g.fence < seatFence'
    BY <2>1, <2>2
  <2>4. DOMAIN calls' = {}
    BY <2>1
  <2>5. SeatOK' /\ QueueOK(calls', gen', disk', mark') /\ DeleteOK(calls', inst', gen')
    BY <2>1, <2>2, <2>3, <2>4 DEF SeatOK, QueueOK, DeleteOK
  <2>6. GateOK(inst', replica', ownHigh', dirty', Stored')
    BY <2>1 DEF GateOK, HeldIn
  <2>7. ConfirmedIsStored' /\ StoreFirst' /\ TrackedOK'
    BY <1>0, <2>1 DEF ConfirmedIsStored, StoreFirst, TrackedOK, Untracked, Stored
  <2>8. QED
    BY <2>5, <2>6, <2>7 DEF StoreFirstInv
<1>5. CASE GhostArrives
  <2>1. PICK g \in ghosts :
          /\ ghosts' = ghosts \ {g}
          /\ IF SeatHeld(g.fence) THEN Applied(g.call) ELSE UNCHANGED storage
    BY <1>5 DEF GhostArrives
  <2>2. g.fence < seatFence /\ g.fence \in Nat /\ seatFence \in Nat
    BY <1>0 DEF SeatOK, TypeOK
  <2>3. ~SeatHeld(g.fence)
    BY <2>2 DEF SeatHeld
  <2>4. UNCHANGED storage
    BY <2>1, <2>3
  <2>5. UNCHANGED <<phase, seatLost, inst, gen, replica, dirty, ownHigh, calls, disk, mark, fence, seatFence, published>>
    BY <1>5, <2>4 DEF GhostArrives, memory, storage
  <2>6. SeatOK'
    BY <1>0, <2>1, <2>5 DEF SeatOK
  <2>7. QED
    BY <1>0, <2>5, <2>6 DEF StoreFirstInv, ConfirmedIsStored, StoreFirst, TrackedOK, Stored
<1>6. QED
  BY <1>1, <1>2, <1>3, <1>4, <1>5 DEF Faults

\* The other processes: they only add, and who takes the seat writes first too.
LEMMA OthersKeepInv ==
  ASSUME TypeOK, TypeOK', StoreFirstInv, Others
  PROVE  StoreFirstInv'
<1>0. /\ ConfirmedIsStored /\ StoreFirst /\ TrackedOK /\ SeatOK
  BY DEF StoreFirstInv
<1>1. Grows
  BY OthersGrow
<1>2. UNCHANGED <<phase, seatLost, inst, gen, replica, dirty, ownHigh, calls, fence, ghosts>>
  BY DEF Others, SeatTaken, RivalWrites, OtherSeatAppends, OtherSeatCompacts, memory, seat
<1>3. QueueOK(calls', gen', disk', mark') /\ DeleteOK(calls', inst', gen')
  BY <1>1, <1>2, QueueStands
<1>4. GateOK(inst', replica', ownHigh', dirty', Stored')
  BY <1>1, <1>2, GateStands
<1>5. ConfirmedIsStored' /\ TrackedOK'
  BY <1>0, <1>1, <1>2 DEF ConfirmedIsStored, TrackedOK, Grows
<1>6. StoreFirst' /\ SeatOK'
  <2>1. CASE SeatTaken
    <3>1. fence = seatFence /\ seatFence' = seatFence + 1 /\ published' = published
      BY <2>1 DEF SeatTaken
    <3>2. fence \in Nat /\ seatFence \in Nat /\ \A g \in ghosts : g.fence \in Nat
      BY DEF TypeOK
    <3>3. SeatOK'
      BY <1>0, <1>2, <3>1, <3>2 DEF SeatOK
    <3>4. QED
      BY <1>1, <3>1, <3>3, PublishedStands
  <2>2. CASE RivalWrites
    <3>1. PICK p \in 1 .. MaxOwn :
            LET o == [by |-> "own", pos |-> p, run |-> MaxRuns + seatFence] IN
            /\ disk' = Appended({o})
            /\ published' = published \cup {o}
      BY <2>2 DEF RivalWrites
    <3> DEFINE o == [by |-> "own", pos |-> p, run |-> MaxRuns + seatFence]
    <3>2. /\ disk' = Appended({o}) /\ published' = published \cup {o} /\ mark' = mark + 1
          /\ fence # seatFence /\ UNCHANGED <<fence, seatFence, ghosts>>
      BY <2>2, <3>1 DEF RivalWrites, seat
    <3>3. o \in Op
      <4>1. MaxRuns \in Nat /\ seatFence \in Nat /\ MaxOwn \in Nat
        BY BoundsAssumption DEF TypeOK
      <4>2. MaxRuns + seatFence \in Nat /\ p \in Nat
        BY <4>1
      <4>3. QED
        BY <4>2 DEF Op
    <3> HIDE DEF o
    <3>4. {o} \subseteq Stored'
      BY <3>2, <3>3, AppendedGrows DEF Version
    <3>5. StoreFirst'
      BY <1>0, <1>1, <3>2, <3>4 DEF StoreFirst, Own, Grows
    <3>6. QED
      BY <1>0, <3>2, <3>5 DEF SeatOK
  <2>3. CASE OtherSeatAppends \/ OtherSeatCompacts
    <3>1. UNCHANGED <<published, seatFence>>
      BY <2>3 DEF OtherSeatAppends, OtherSeatCompacts, seat
    <3>2. QED
      BY <1>0, <1>1, <1>2, <3>1, PublishedStands DEF SeatOK
  <2>4. QED
    BY <2>1, <2>2, <2>3 DEF Others
<1>7. QED
  BY <1>3, <1>4, <1>5, <1>6 DEF StoreFirstInv

\* The initial state satisfies the invariant.
LEMMA InvInit ==
  ASSUME Init
  PROVE  StoreFirstInv
<1>1. calls = <<>> /\ DOMAIN calls = {}
  BY DEF Init
<1>2. QueueOK(calls, gen, disk, mark) /\ DeleteOK(calls, inst, gen)
  BY <1>1 DEF QueueOK, DeleteOK
<1>3. GateOK(inst, replica, ownHigh, dirty, Stored)
  BY DEF Init, GateOK, HeldIn
<1>4. SeatOK /\ TrackedOK /\ ConfirmedIsStored /\ StoreFirst
  BY <1>1 DEF Init, SeatOK, TrackedOK, ConfirmedIsStored, StoreFirst, Own, Untracked
<1>5. QED
  BY <1>2, <1>3, <1>4 DEF StoreFirstInv

\* Every step keeps it.
LEMMA InvStep ==
  ASSUME TypeOK, TypeOK', StoreFirstInv, [Next]_vars
  PROVE  StoreFirstInv'
<1>1. CASE Next
  BY <1>1, DoorsKeepInv, NetworkKeepsInv, ShellKeepsInv, StoreCallsKeepInv, FaultsKeepInv, OthersKeepInv
  DEF Next
<1>2. CASE UNCHANGED vars
  BY <1>2 DEF vars, memory, storage, seat, bounds, StoreFirstInv, ConfirmedIsStored, StoreFirst,
              TrackedOK, SeatOK, Stored
<1>3. QED
  BY <1>1, <1>2

\* The inductive invariant always holds.
THEOREM InvCorrect == Spec => []StoreFirstInv
<1>1. Init => StoreFirstInv
  BY InvInit
<1>2. TypeOK /\ TypeOK' /\ StoreFirstInv /\ [Next]_vars => StoreFirstInv'
  BY InvStep
<1>3. QED
  BY <1>1, <1>2, TypeCorrect, PTL DEF Spec

\* Store-first (Runtime.publishable, publish-gate.ts): what left the process of
\* its own is in the store.
THEOREM StoreFirstCorrect == Spec => []StoreFirst
<1>1. StoreFirstInv => StoreFirst
  BY DEF StoreFirstInv
<1>2. QED
  BY <1>1, InvCorrect, PTL

\* The version the store program counts on (confirmedVersion) is stored.
THEOREM ConfirmedCorrect == Spec => []ConfirmedIsStored
<1>1. StoreFirstInv => ConfirmedIsStored
  BY DEF StoreFirstInv
<1>2. QED
  BY <1>1, InvCorrect, PTL

-----------------------------------------------------------------------------
(* The phase, the calls under way and what they store.                     *)

\* The calls of writes under way, and what they will have stored when they end.
Idle(cs) == \A k \in DOMAIN cs : cs[k].kind \notin WriteKinds
One(cs) == \E k \in DOMAIN cs : cs[k].kind \in WriteKinds /\ \A j \in DOMAIN cs : cs[j].kind \in WriteKinds => j = k
Covers(cs, rep) == \A k \in DOMAIN cs : cs[k].kind \in Writes => rep \subseteq cs[k].version

\* A change of the replica the store program is yet to hear of.
Unheard(i, d, m) == i = "ready" /\ (d \/ m)

\* A phase with no write in flight has none queued, and one with a write in flight has that one.  What the replica holds
\* is stored, or stored by what is in flight, unless more is owed, unheard or waits for the retry.
PhaseFits(ph, rep, cs, rt, unheard, st) ==
  /\ ph.status = "settled" => Idle(cs) /\ (unheard \/ rep \subseteq st \/ (rt /\ ph.failures # 0))
  /\ ph.status = "writing" => One(cs) /\ (ph.owed # "none" \/ unheard \/ Covers(cs, rep))

\* The queue: no call of a dead instance's write comes after the live one's load, nor can one still come to; and a
\* replacement was queued only when all it replaces could be read.
QueueFits(cs, i, g, records) ==
  /\ i \in HeldIn => \A k \in DOMAIN cs : cs[k].kind \in WriteKinds => cs[k].gen = g
  /\ i = "loading" => \A k, j \in DOMAIN cs : cs[k].gen = g =>
       /\ cs[k].kind = "load" => cs[j].kind # "mark" /\ (k < j => cs[j].kind \notin WriteKinds)
       /\ cs[k].kind = "writerOf" /\ k < j => cs[j].kind \notin WriteKinds \ {"loadAll"}
  /\ \A k \in DOMAIN cs : cs[k].kind = "replace" =>
       \A r \in records : r.at <= cs[k].through => r.readable

\* Own operations are told apart by their address; those stored, held and about to be stored, while the seat is held,
\* and a held document has them all.
Distinct(ops) == \A o, q \in Own(ops) : o.pos = q.pos => o = q
Outgoing(cs) == UNION {cs[k].ops : k \in {j \in DOMAIN cs : cs[j].kind \in {"append", "replace"}}}
AddressFits(rep, cs, i, st) ==
  /\ Distinct(st \cup rep \cup Outgoing(cs))
  /\ i \in HeldIn => Own(st \cup Outgoing(cs)) \subseteq rep

WritesInv ==
  /\ PhaseFits(phase, replica, calls, retry, Unheard(inst, dirty, imported), Stored)
  /\ QueueFits(calls, inst, gen, disk)
  /\ inst \in HeldIn /\ ~seatLost => phase.status # "untracked"
  /\ releasing # 0 => inst = "storing" /\ ~seatLost
  /\ inst = "storing" => ~dirty
  /\ Distinct(Stored)
  /\ fence = seatFence => AddressFits(replica, calls, inst, Stored)

-----------------------------------------------------------------------------
(* The store program starts a write only when none is in flight.           *)

\* A step of the program, against the queue it will append its write to.
StepFits(s, rep, cs, rt, unheard, st) ==
  /\ s.write # "none" => s.phase.status = "writing" /\ Idle(cs)
  /\ s.write = "none" => PhaseFits(s.phase, rep, cs, rt \/ s.retry, unheard, st)

\* A phase that says nothing of writes asks nothing of the queue.
LEMMA UntrackedFits ==
  ASSUME NEW rep, NEW cs, NEW rt, NEW u, NEW st
  PROVE  PhaseFits(Untracked, rep, cs, rt, u, st)
BY DEF PhaseFits, Untracked

\* Nor does a step that is silent.
LEMMA SilentFits ==
  ASSUME NEW s, Silent(s), NEW rep, NEW cs, NEW rt, NEW u, NEW st
  PROVE  StepFits(s, rep, cs, rt, u, st)
BY UntrackedFits DEF StepFits, Silent

\* Ignoring an input, while what is stored grows and what is unheard does too.
LEMMA IgnoredFits ==
  ASSUME NEW p \in Phase, NEW rep, NEW cs, NEW rt \in BOOLEAN, NEW u \in BOOLEAN, NEW st,
         NEW v \in BOOLEAN, u => v, NEW su, st \subseteq su, PhaseFits(p, rep, cs, rt, u, st)
  PROVE  StepFits(Ignored(p), rep, cs, rt, v, su)
<1>1. Ignored(p).write = "none" /\ Ignored(p).phase = p /\ Ignored(p).retry = FALSE
  BY DEF Ignored, Step
<1>2. PhaseFits(p, rep, cs, rt \/ FALSE, v, su)
  BY DEF PhaseFits
<1>3. QED
  BY <1>1, <1>2 DEF StepFits

\* A started write has an idle queue before it.
LEMMA StartFits ==
  ASSUME NEW p \in Phase, NEW owed \in {"advance", "compact"}, NEW cs, Idle(cs),
         NEW rep, NEW rt, NEW u, NEW st
  PROVE  StepFits(Start(p, owed), rep, cs, rt, u, st) /\ Start(p, owed).phase.status = "writing"
<1>1. Start(p, owed).phase.status = "writing" /\ Start(p, owed).write # "none"
  BY DEF Start, Step, WriteKind, Phase
<1>2. QED
  BY <1>1 DEF StepFits

\* A request is a write or is owed.
LEMMA RequestFits ==
  ASSUME NEW p \in Phase, NEW owed \in {"advance", "compact"}, NEW cs, p.status # "untracked",
         p.status = "settled" => Idle(cs), p.status = "writing" => One(cs),
         NEW rep, NEW rt, NEW u, NEW st
  PROVE  StepFits(Request(p, owed), rep, cs, rt, u, st) /\ Request(p, owed).phase.status = "writing"
<1>1. CASE p.status = "writing"
  <2> DEFINE q == [p EXCEPT !.owed = JoinOwed(p.owed, owed)]
  <2>1. q.status = "writing" /\ q.owed # "none" /\ Request(p, owed) = Ignored(q)
    BY <1>1 DEF JoinOwed, Phase, Request
  <2> HIDE DEF q
  <2>2. Ignored(q).write = "none" /\ Ignored(q).phase = q
    BY DEF Ignored, Step
  <2>3. QED
    BY <1>1, <2>1, <2>2 DEF StepFits, PhaseFits
<1>2. CASE p.status # "writing"
  <2>1. p.status = "settled"
    BY <1>2 DEF Phase
  <2>2. QED
    BY <1>2, <2>1, StartFits DEF Request
<1>3. QED
  BY <1>1, <1>2

\* The inputs that ask for a write leave the phase writing, unless it is untracked.
LEMMA AsksFit ==
  ASSUME NEW p \in Phase, NEW cs, NEW rep0, NEW rt0, NEW u0, NEW st0, PhaseFits(p, rep0, cs, rt0, u0, st0),
         NEW rep, NEW rt, NEW u, NEW st
  PROVE  /\ StepFits(OnStateAdvanced(p), rep, cs, rt, u, st) /\ StepFits(OnCompact(p), rep, cs, rt, u, st)
         /\ p.status # "untracked" => /\ OnStateAdvanced(p).phase.status = "writing"
                                      /\ OnCompact(p).phase.status = "writing"
<1>1. CASE p.status = "untracked"
  <2>1. OnStateAdvanced(p) = Ignored(p) /\ OnCompact(p) = Ignored(p)
    BY <1>1 DEF OnStateAdvanced, OnCompact
  <2>2. Ignored(p).write = "none" /\ Ignored(p).phase = p
    BY DEF Ignored, Step
  <2>3. QED
    BY <1>1, <2>1, <2>2 DEF StepFits, PhaseFits
<1>2. CASE p.status # "untracked"
  <2>1. (p.status = "settled" => Idle(cs)) /\ (p.status = "writing" => One(cs))
    BY DEF PhaseFits
  <2>2. QED
    BY <1>2, <2>1, RequestFits DEF OnStateAdvanced, OnCompact
<1>3. QED
  BY <1>1, <1>2

\* A load's report starts a write.
LEMMA LoadsFit ==
  ASSUME NEW p \in Phase, p.status = "untracked", NEW v \in Version, NEW cs, Idle(cs),
         NEW rep, NEW rt, NEW u, NEW st
  PROVE  /\ StepFits(OnHydrated(p, v), rep, cs, rt, u, st) /\ OnHydrated(p, v).phase.status = "writing"
         /\ StepFits(OnRegister(p), rep, cs, rt, u, st) /\ OnRegister(p).phase.status = "writing"
<1>1. SettledAt(v, 0) \in Phase /\ SettledAt(v, 0).status = "settled"
  BY SettledTyped DEF SettledAt
<1>2. SettledAt(Nothing, 0) \in Phase /\ SettledAt(Nothing, 0).status = "settled"
  BY SettledTyped DEF SettledAt
<1>3. OnHydrated(p, v) = Request(SettledAt(v, 0), "advance") /\ OnRegister(p) = Request(SettledAt(Nothing, 0), "advance")
  BY DEF OnHydrated, OnRegister
<1>4. StepFits(OnHydrated(p, v), rep, cs, rt, u, st) /\ OnHydrated(p, v).phase.status = "writing"
  BY <1>1, <1>3, RequestFits
<1>5. StepFits(OnRegister(p), rep, cs, rt, u, st) /\ OnRegister(p).phase.status = "writing"
  BY <1>2, <1>3, RequestFits
<1>6. QED
  BY <1>4, <1>5

\* A settled write, the queue being idle without it: what is owed is started, and what is not has been stored.
LEMMA SettleFits ==
  ASSUME NEW p \in Phase, p.status = "writing", NEW q \in Phase, q.status = "settled", NEW cs, Idle(cs),
         NEW rep, NEW rt \in BOOLEAN, NEW again \in BOOLEAN, NEW u, NEW st,
         p.owed = "none" => u \/ rep \subseteq st \/ (again /\ q.failures # 0)
  PROVE  /\ SettleWrite(p, q).phase.status # "untracked"
         /\ SettleWrite(p, q).write # "none" => SettleWrite(p, q).phase.status = "writing"
         /\ SettleWrite(p, q).write = "none" => PhaseFits(SettleWrite(p, q).phase, rep, cs, rt \/ again, u, st)
<1>1. CASE p.owed = "none"
  <2>1. SettleWrite(p, q) = Ignored(q) /\ Ignored(q).phase = q /\ Ignored(q).write = "none"
    BY <1>1 DEF SettleWrite, Ignored, Step
  <2>2. QED
    BY <1>1, <2>1 DEF PhaseFits
<1>2. CASE p.owed # "none"
  <2>1. p.owed \in {"advance", "compact"} /\ SettleWrite(p, q) = Start(q, p.owed)
    BY <1>2 DEF SettleWrite, Phase
  <2>2. /\ Start(q, p.owed).phase.status = "writing" /\ Start(q, p.owed).write # "none"
    BY <2>1 DEF Start, Step, WriteKind, Phase
  <2>3. QED
    BY <2>1, <2>2
<1>3. QED
  BY <1>1, <1>2

-----------------------------------------------------------------------------
(* The queue without its head, and with one more call.                     *)

\* What an index of a tail is of the whole.
LEMMA TailAt ==
  ASSUME NEW cs \in Seq(Call), cs # <<>>
  PROVE  /\ Tail(cs) \in Seq(Call) /\ Head(cs) = cs[1] /\ 1 \in DOMAIN cs
         /\ \A k \in DOMAIN Tail(cs) :
              k \in Nat /\ k + 1 \in DOMAIN cs /\ Tail(cs)[k] = cs[k + 1] /\ k + 1 # 1 /\ 1 < k + 1
         /\ \A k \in DOMAIN cs : k \in Nat /\ (k # 1 => k - 1 \in DOMAIN Tail(cs) /\ Tail(cs)[k - 1] = cs[k])
OBVIOUS

\* What an index of a longer queue is of the shorter.
LEMMA AppendAt ==
  ASSUME NEW cs \in Seq(Call), NEW c \in Call
  PROVE  /\ Append(cs, c) \in Seq(Call)
         /\ Len(cs) + 1 \in DOMAIN Append(cs, c) /\ Append(cs, c)[Len(cs) + 1] = c
         /\ \A k \in DOMAIN cs : k \in DOMAIN Append(cs, c) /\ Append(cs, c)[k] = cs[k] /\ k \in Nat /\ k < Len(cs) + 1
         /\ \A k \in DOMAIN Append(cs, c) :
              /\ k \in Nat
              /\ \/ k \in DOMAIN cs /\ Append(cs, c)[k] = cs[k]
                 \/ k = Len(cs) + 1 /\ Append(cs, c)[k] = c
OBVIOUS

\* The write in flight is answered: none is left.
LEMMA AnsweredIsIdle ==
  ASSUME NEW cs \in Seq(Call), cs # <<>>, Head(cs).kind \in WriteKinds, One(cs)
  PROVE  Idle(Tail(cs))
<1>1. PICK k \in DOMAIN cs : cs[k].kind \in WriteKinds /\ \A j \in DOMAIN cs : cs[j].kind \in WriteKinds => j = k
  BY DEF One
<1>2. Head(cs) = cs[1] /\ 1 \in DOMAIN cs /\ \A j \in DOMAIN Tail(cs) : j + 1 \in DOMAIN cs /\ Tail(cs)[j] = cs[j + 1] /\ j + 1 # 1
  BY TailAt
<1>3. k = 1
  BY <1>1, <1>2
<1>4. QED
  BY <1>1, <1>2, <1>3 DEF Idle

\* A write added to an idle queue is the one in flight.
LEMMA AddedIsOne ==
  ASSUME NEW cs \in Seq(Call), NEW c \in Call, Idle(cs), c.kind \in WriteKinds
  PROVE  One(Append(cs, c))
<1>1. \A k \in DOMAIN Append(cs, c) : Append(cs, c)[k].kind \in WriteKinds => k = Len(cs) + 1
  BY AppendAt DEF Idle
<1>2. Len(cs) + 1 \in DOMAIN Append(cs, c) /\ Append(cs, c)[Len(cs) + 1] = c
  BY AppendAt
<1>3. QED
  BY <1>1, <1>2 DEF One

\* A call that is no write's is taken off.
LEMMA DroppedFits ==
  ASSUME NEW cs \in Seq(Call), cs # <<>>, Head(cs).kind \notin WriteKinds,
         NEW p, NEW rep, NEW rt, NEW u, NEW st, PhaseFits(p, rep, cs, rt, u, st)
  PROVE  PhaseFits(p, rep, Tail(cs), rt, u, st)
<1>1. Idle(cs) => Idle(Tail(cs))
  BY TailAt DEF Idle
<1>2. Covers(cs, rep) => Covers(Tail(cs), rep)
  BY TailAt DEF Covers
<1>3. ASSUME One(cs)
      PROVE  One(Tail(cs))
  <2>1. PICK k \in DOMAIN cs : cs[k].kind \in WriteKinds /\ \A j \in DOMAIN cs : cs[j].kind \in WriteKinds => j = k
    BY <1>3 DEF One
  <2>2. k # 1
    BY <2>1, TailAt
  <2>3. k - 1 \in DOMAIN Tail(cs) /\ Tail(cs)[k - 1] = cs[k] /\ k \in Nat
    BY <2>1, <2>2, TailAt
  <2>4. ASSUME NEW j \in DOMAIN Tail(cs), Tail(cs)[j].kind \in WriteKinds
        PROVE  j = k - 1
    <3>1. j + 1 \in DOMAIN cs /\ cs[j + 1].kind \in WriteKinds /\ j \in Nat
      BY <2>4, TailAt
    <3>2. j + 1 = k
      BY <2>1, <3>1
    <3>3. QED
      BY <3>1, <3>2, <2>3
  <2>5. QED
    BY <2>1, <2>3, <2>4 DEF One
<1>4. QED
  BY <1>1, <1>2, <1>3 DEF PhaseFits

\* A call that is no write's, or stands for one that writes nothing yet, is added.
LEMMA AddedFits ==
  ASSUME NEW cs \in Seq(Call), NEW c \in Call, c.kind \notin WriteKinds,
         NEW p, NEW rep, NEW rt, NEW u, NEW st, PhaseFits(p, rep, cs, rt, u, st)
  PROVE  PhaseFits(p, rep, Append(cs, c), rt, u, st)
<1>1. Idle(cs) => Idle(Append(cs, c))
  BY AppendAt DEF Idle
<1>2. Covers(cs, rep) => Covers(Append(cs, c), rep)
  BY AppendAt DEF Covers, WriteKinds, Writes
<1>3. One(cs) => One(Append(cs, c))
  BY AppendAt DEF One
<1>4. QED
  BY <1>1, <1>2, <1>3 DEF PhaseFits

\* The order of the queue outlives its head.
LEMMA TailFits ==
  ASSUME NEW cs \in Seq(Call), cs # <<>>, NEW i, NEW g, NEW records, QueueFits(cs, i, g, records)
  PROVE  /\ QueueFits(Tail(cs), i, g, records) /\ Outgoing(Tail(cs)) \subseteq Outgoing(cs)
         /\ Head(cs).kind \in {"append", "replace"} => Head(cs).ops \subseteq Outgoing(cs)
<1> DEFINE ds == Tail(cs)
<1>1. /\ Head(cs) = cs[1] /\ 1 \in DOMAIN cs
      /\ \A k \in DOMAIN ds : k \in Nat /\ k + 1 \in DOMAIN cs /\ ds[k] = cs[k + 1]
  BY TailAt
<1>2. \A k, j \in DOMAIN ds : k < j => k + 1 < j + 1
  BY <1>1
<1> HIDE DEF ds
<1>3. QueueFits(ds, i, g, records)
  <2>1. i \in HeldIn => \A k \in DOMAIN ds : ds[k].kind \in WriteKinds => ds[k].gen = g
    BY <1>1 DEF QueueFits
  <2>2. ASSUME i = "loading", NEW k \in DOMAIN ds, NEW j \in DOMAIN ds, ds[k].gen = g
        PROVE  /\ ds[k].kind = "load" => ds[j].kind # "mark" /\ (k < j => ds[j].kind \notin WriteKinds)
               /\ ds[k].kind = "writerOf" /\ k < j => ds[j].kind \notin WriteKinds \ {"loadAll"}
    <3>1. k + 1 \in DOMAIN cs /\ j + 1 \in DOMAIN cs /\ ds[k] = cs[k + 1] /\ ds[j] = cs[j + 1]
      BY <1>1
    <3>2. k < j => k + 1 < j + 1
      BY <1>2
    <3>3. QED
      BY <2>2, <3>1, <3>2 DEF QueueFits
  <2>3. \A k \in DOMAIN ds : ds[k].kind = "replace" => \A r \in records : r.at <= ds[k].through => r.readable
    BY <1>1 DEF QueueFits
  <2>4. QED
    BY <2>1, <2>2, <2>3 DEF QueueFits
<1>4. Outgoing(ds) \subseteq Outgoing(cs)
  BY <1>1 DEF Outgoing
<1>5. Head(cs).kind \in {"append", "replace"} => Head(cs).ops \subseteq Outgoing(cs)
  BY <1>1 DEF Outgoing
<1>6. QED
  BY <1>3, <1>4, <1>5 DEF ds

\* And another call at its end, if it is in its place there.
LEMMA LongerFits ==
  ASSUME NEW cs \in Seq(Call), NEW c \in Call, NEW i, NEW g, NEW records, QueueFits(cs, i, g, records),
         i \in HeldIn /\ c.kind \in WriteKinds => c.gen = g,
         i = "loading" => \A k \in DOMAIN cs : cs[k].gen = g =>
           /\ cs[k].kind = "load" => c.kind \notin WriteKinds
           /\ cs[k].kind = "writerOf" => c.kind \notin WriteKinds \ {"loadAll"},
         i = "loading" /\ c.kind = "load" /\ c.gen = g => \A k \in DOMAIN cs : cs[k].kind # "mark",
         c.kind = "replace" => \A r \in records : r.at <= c.through => r.readable
  PROVE  /\ QueueFits(Append(cs, c), i, g, records)
         /\ Outgoing(Append(cs, c)) \subseteq Outgoing(cs) \cup c.ops
         /\ c.kind \notin {"append", "replace"} => Outgoing(Append(cs, c)) \subseteq Outgoing(cs)
<1> DEFINE ds == Append(cs, c)
<1>1. \A k \in DOMAIN ds :
        /\ k \in Nat
        /\ \/ k \in DOMAIN cs /\ ds[k] = cs[k] /\ k < Len(cs) + 1
           \/ k = Len(cs) + 1 /\ ds[k] = c
  BY AppendAt
<1>2. Len(cs) \in Nat
  OBVIOUS
<1> HIDE DEF ds
<1>3. QueueFits(ds, i, g, records)
  <2>1. i \in HeldIn => \A k \in DOMAIN ds : ds[k].kind \in WriteKinds => ds[k].gen = g
    BY <1>1 DEF QueueFits
  <2>2. ASSUME i = "loading", NEW k \in DOMAIN ds, NEW j \in DOMAIN ds, ds[k].gen = g
        PROVE  /\ ds[k].kind = "load" => ds[j].kind # "mark" /\ (k < j => ds[j].kind \notin WriteKinds)
               /\ ds[k].kind = "writerOf" /\ k < j => ds[j].kind \notin WriteKinds \ {"loadAll"}
    <3>1. CASE k \in DOMAIN cs /\ ds[k] = cs[k] /\ j \in DOMAIN cs /\ ds[j] = cs[j]
      BY <2>2, <3>1 DEF QueueFits
    <3>2. CASE k \in DOMAIN cs /\ ds[k] = cs[k] /\ ds[j] = c
      BY <2>2, <3>2 DEF WriteKinds
    <3>3. CASE k = Len(cs) + 1 /\ ds[k] = c /\ j \in DOMAIN cs /\ ds[j] = cs[j] /\ j < Len(cs) + 1
      <4>1. ~(k < j)
        BY <1>1, <1>2, <3>3
      <4>2. QED
        BY <2>2, <3>3, <4>1
    <3>4. CASE k = Len(cs) + 1 /\ ds[k] = c /\ j = Len(cs) + 1 /\ ds[j] = c
      <4>1. ~(k < j)
        BY <1>2, <3>4
      <4>2. QED
        BY <3>4, <4>1
    <3>5. QED
      BY <1>1, <3>1, <3>2, <3>3, <3>4
  <2>3. \A k \in DOMAIN ds : ds[k].kind = "replace" => \A r \in records : r.at <= ds[k].through => r.readable
    BY <1>1 DEF QueueFits
  <2>4. QED
    BY <2>1, <2>2, <2>3 DEF QueueFits
<1>4. /\ Outgoing(ds) \subseteq Outgoing(cs) \cup c.ops
      /\ c.kind \notin {"append", "replace"} => Outgoing(ds) \subseteq Outgoing(cs)
  BY <1>1 DEF Outgoing
<1>5. QED
  BY <1>3, <1>4 DEF ds

\* New records lie past whatever a replacement will replace.
LEMMA GrowthKeepsFits ==
  ASSUME TypeOK, TypeOK', Grows, NEW cs \in Seq(Call), NEW i, NEW g,
         QueueOK(cs, g, disk, mark), QueueFits(cs, i, g, disk)
  PROVE  QueueFits(cs, i, g, disk')
<1>1. ASSUME NEW k \in DOMAIN cs, cs[k].kind = "replace", NEW r \in disk', r.at <= cs[k].through
      PROVE  r.readable
  <2>0. cs[k] \in Call /\ CallOK(cs[k], g, disk, mark)
    BY DEF QueueOK
  <2>1. cs[k].through <= mark /\ cs[k].through \in Nat
    BY <1>1, <2>0 DEF CallOK, Call
  <2>2. r.at \in Nat /\ mark \in Nat
    BY DEF TypeOK, Record
  <2>3. ~(r.at > mark)
    BY <1>1, <2>1, <2>2
  <2>4. r \in disk
    BY <2>3 DEF Grows
  <2>5. QED
    BY <1>1, <2>4 DEF QueueFits
<1>2. QED
  BY <1>1 DEF QueueFits

\* Addresses stay distinct among fewer operations.
LEMMA FewerFit ==
  ASSUME NEW rep, NEW cs, NEW i, NEW st, AddressFits(rep, cs, i, st),
         NEW ds, NEW su, Own(su \cup Outgoing(ds)) \subseteq Own(st \cup Outgoing(cs))
  PROVE  AddressFits(rep, ds, i, su)
<1>1. Own(su \cup rep \cup Outgoing(ds)) \subseteq Own(st \cup rep \cup Outgoing(cs))
  BY DEF Own
<1>2. QED
  BY <1>1 DEF AddressFits, Distinct

-----------------------------------------------------------------------------
(* Dispatching a step.                                                     *)

\* What a handler hands Dispatch, against the storage it leaves.
NowFits(n, st, records) ==
  /\ n \in Shells
  /\ QueueFits(n.calls, n.inst, gen, records)
  /\ n.releasing # 0 => n.inst = "storing" /\ ~seatLost
  /\ fence = seatFence => AddressFits(n.replica, n.calls, n.inst, st)

\* What a dispatched step leaves.
LeftFits ==
  /\ PhaseFits(phase', replica', calls', retry', Unheard(inst', dirty', imported'), Stored')
  /\ QueueFits(calls', inst', gen, disk')
  /\ inst' \in HeldIn /\ ~seatLost => phase'.status # "untracked"
  /\ releasing' # 0 => inst' = "storing" /\ ~seatLost
  /\ fence = seatFence => AddressFits(replica', calls', inst', Stored')

\* The call of a write: of the present instance, with what the replica holds.
LEMMA PreparedFits ==
  ASSUME gen \in Nat, NEW w \in {"register", "since", "compact"}, NEW p \in Phase, NEW rep \in Version
  PROVE  /\ Prepared(w, p, rep) \in Call /\ Prepared(w, p, rep).gen = gen
         /\ Prepared(w, p, rep).kind \in {"append", "none", "mark"}
         /\ Prepared(w, p, rep).kind \in Writes => Prepared(w, p, rep).version = rep
         /\ Prepared(w, p, rep).ops \subseteq rep
<1>1. Prepared(w, p, rep) \in Call
  BY PreparedTyped
<1>2. CASE w = "compact"
  BY <1>1, <1>2 DEF Prepared, CallOf, Writes
<1>3. CASE w = "register"
  <2>1. Prepared(w, p, rep) = [CallOf("append") EXCEPT !.ops = rep, !.version = rep]
    BY <1>3 DEF Prepared
  <2>2. QED
    BY <1>1, <2>1 DEF CallOf, Writes
<1>4. CASE w = "since" /\ rep = p.version
  <2>1. Prepared(w, p, rep) = [CallOf("none") EXCEPT !.version = rep]
    BY <1>4 DEF Prepared
  <2>2. QED
    BY <1>1, <2>1 DEF CallOf, Writes
<1>5. CASE w = "since" /\ rep # p.version
  <2>1. Prepared(w, p, rep) = [CallOf("append") EXCEPT !.ops = rep \ p.version, !.version = rep]
    BY <1>5 DEF Prepared
  <2>2. QED
    BY <1>1, <2>1 DEF CallOf, Writes
<1>6. QED
  BY <1>2, <1>3, <1>4, <1>5

\* Keeping the document: the phase, the queue and the addresses go together.
LEMMA KeepsFits ==
  ASSUME TypeOK, NEW s \in Steps, NEW n, Keeps(s, n), NowFits(n, Stored', disk'),
         StepFits(s, n.replica, n.calls, n.retry, Unheard(n.inst, dirty', imported'), Stored'),
         n.inst \notin HeldIn => Silent(s),
         n.inst \in HeldIn /\ ~seatLost => s.phase.status # "untracked"
  PROVE  LeftFits /\ inst' = n.inst
<1>1. /\ phase' = s.phase /\ inst' = n.inst /\ replica' = n.replica /\ releasing' = n.releasing
      /\ calls' = CallsAfter(s, n) /\ retry' = RetryAfter(s, n)
  BY DEF Keeps
<1>2. /\ n.replica \in Version /\ n.calls \in Seq(Call) /\ n.retry \in BOOLEAN /\ gen \in Nat
      /\ s.phase \in Phase /\ s.retry \in BOOLEAN
  BY DEF NowFits, Shells, TypeOK, Steps
<1>3. CASE s.write = "none"
  <2>1. calls' = n.calls /\ retry' = (n.retry \/ s.retry)
    BY <1>1, <1>2, <1>3 DEF CallsAfter, RetryAfter
  <2>2. QED
    BY <1>1, <1>3, <2>1 DEF LeftFits, NowFits, StepFits
<1>4. CASE s.write # "none"
  <2> DEFINE c == Prepared(s.write, s.phase, n.replica)
  <2>1. /\ c \in Call /\ c.gen = gen /\ c.kind \in {"append", "none", "mark"}
        /\ c.kind \in Writes => c.version = n.replica
        /\ c.ops \subseteq n.replica
    <3>1. s.write \in {"register", "since", "compact"}
      BY <1>4 DEF Steps
    <3>2. QED
      BY <1>2, <3>1, PreparedFits
  <2>2. calls' = Append(n.calls, c)
    BY <1>1, <1>4 DEF CallsAfter
  <2> HIDE DEF c
  <2>3. s.phase.status = "writing" /\ Idle(n.calls) /\ n.inst \in HeldIn
    BY <1>4 DEF StepFits, Silent
  <2>4. c.kind \in WriteKinds /\ c.kind # "replace" /\ n.inst # "loading"
    BY <2>1, <2>3 DEF WriteKinds, HeldIn
  <2>5. One(calls')
    BY <1>2, <2>1, <2>2, <2>3, <2>4, AddedIsOne
  <2>6. Covers(calls', n.replica)
    <3>1. ASSUME NEW k \in DOMAIN calls', calls'[k].kind \in Writes
          PROVE  n.replica \subseteq calls'[k].version
      <4>1. calls'[k].kind \in WriteKinds
        BY <3>1 DEF Writes, WriteKinds
      <4>2. k \in DOMAIN n.calls => calls'[k] # n.calls[k]
        BY <2>3, <4>1 DEF Idle
      <4>3. calls'[k] = c
        BY <1>2, <2>1, <2>2, <4>2, AppendAt
      <4>4. QED
        BY <2>1, <3>1, <4>3
    <3>2. QED
      BY <3>1 DEF Covers
  <2>7. /\ QueueFits(calls', n.inst, gen, disk')
        /\ Outgoing(calls') \subseteq Outgoing(n.calls) \cup n.replica
    <3>1. QueueFits(n.calls, n.inst, gen, disk')
      BY DEF NowFits
    <3>2. /\ QueueFits(Append(n.calls, c), n.inst, gen, disk')
          /\ Outgoing(Append(n.calls, c)) \subseteq Outgoing(n.calls) \cup c.ops
      BY <1>2, <2>1, <2>4, <3>1, LongerFits
    <3>3. QED
      BY <2>1, <2>2, <3>2
  <2>8. ASSUME fence = seatFence
        PROVE  AddressFits(n.replica, calls', n.inst, Stored')
    <3>1. AddressFits(n.replica, n.calls, n.inst, Stored')
      BY <2>8 DEF NowFits
    <3>2. Stored' \cup n.replica \cup Outgoing(calls') \subseteq Stored' \cup n.replica \cup Outgoing(n.calls)
      BY <2>7
    <3>3. Distinct(Stored' \cup n.replica \cup Outgoing(calls'))
      BY <3>1, <3>2 DEF AddressFits, Distinct, Own
    <3>4. Own(Stored' \cup Outgoing(calls')) \subseteq n.replica
      BY <2>3, <2>7, <3>1 DEF AddressFits, Own
    <3>5. QED
      BY <3>3, <3>4 DEF AddressFits
  <2>9. PhaseFits(s.phase, n.replica, calls', retry', Unheard(n.inst, dirty', imported'), Stored')
    BY <2>3, <2>5, <2>6 DEF PhaseFits
  <2>10. s.phase.status # "untracked"
    BY <2>3
  <2>11. n.releasing # 0 => n.inst = "storing" /\ ~seatLost
    BY DEF NowFits
  <2>12. QED
    BY <1>1, <2>7, <2>8, <2>9, <2>10, <2>11 DEF LeftFits
<1>5. QED
  BY <1>1, <1>3, <1>4

\* Dispatch, in all its outcomes: what it leaves fits, and an unload leaves nothing behind.
LEMMA DispatchFits ==
  ASSUME TypeOK, NEW s, NEW n, Dispatch(s, n), StepOK(s, Stored'), NowFits(n, Stored', disk'),
         StepFits(s, n.replica, n.calls, n.retry, Unheard(n.inst, dirty', imported'), Stored'),
         seatLost => phase = Untracked,
         n.inst \notin HeldIn => Silent(s),
         n.inst \in HeldIn /\ ~seatLost => s.phase.status # "untracked"
  PROVE  /\ LeftFits /\ (inst' # n.inst => inst' \in {"unloaded", "ready"} /\ n.inst = "storing")
         /\ inst' = "unloaded" /\ n.inst # "unloaded" => n.replica \subseteq Stored'
<1>1. s \in Steps /\ n \in Shells /\ n.calls \in Seq(Call)
  BY DEF StepOK, NowFits, Shells
<1>2. CASE seatLost
  <2>1. Keeps(Ignored(Untracked), n)
    BY <1>2 DEF Dispatch
  <2>2. Silent(Ignored(Untracked)) /\ Ignored(Untracked) \in Steps
    <3>1. Untracked \in Phase
      BY DEF Untracked, Phase
    <3>2. QED
      BY <3>1, UntrackedIsSilent, InputsTyped
  <2>3. StepFits(Ignored(Untracked), n.replica, n.calls, n.retry, Unheard(n.inst, dirty', imported'), Stored')
    BY <2>2, SilentFits
  <2>4. LeftFits /\ inst' = n.inst
    BY <1>2, <2>1, <2>2, <2>3, KeepsFits
  <2>5. QED
    BY <2>4
<1>3. CASE ~seatLost /\ ~(n.releasing # 0 /\ StoredEntirely(s.phase))
  <2>1. Keeps(s, n)
    BY <1>3 DEF Dispatch
  <2>2. LeftFits /\ inst' = n.inst
    BY <1>1, <2>1, KeepsFits
  <2>3. QED
    BY <2>2
<1>4. CASE ~seatLost /\ n.releasing # 0 /\ StoredEntirely(s.phase)
  <2>1. n.inst = "storing" /\ ~Unheard(n.inst, dirty', imported')
    BY <1>4 DEF NowFits, Unheard
  <2>2. s.phase.status = "settled" /\ s.phase.version # Nothing /\ s.phase.failures = 0
    BY <1>4 DEF StoredEntirely
  <2>3. s.write = "none"
    BY <2>2 DEF StepFits
  <2>4. Idle(n.calls) /\ n.replica \subseteq Stored'
    BY <2>1, <2>2, <2>3 DEF StepFits, PhaseFits
  <2>5. CASE Unloads(s, n)
    <3>1. phase' = Untracked /\ releasing' = 0 /\ inst' = "unloaded" /\ replica' = {} /\ calls' = n.calls
      BY <2>5 DEF Unloads
    <3>2. PhaseFits(phase', replica', calls', retry', Unheard(inst', dirty', imported'), Stored')
      BY <3>1, UntrackedFits
    <3>3. QueueFits(calls', inst', gen, disk')
      BY <3>1 DEF NowFits, QueueFits, HeldIn
    <3>4. fence = seatFence => AddressFits(replica', calls', inst', Stored')
      BY <3>1 DEF NowFits, AddressFits, Distinct, Own, HeldIn
    <3>5. QED
      BY <2>1, <2>4, <3>1, <3>2, <3>3, <3>4 DEF LeftFits, HeldIn
  <2>6. CASE HandsBack(s, n)
    <3> DEFINE r == OnHydrated(Untracked, s.phase.version)
               t == [r EXCEPT !.persisted = s.persisted]
               o == [n EXCEPT !.inst = "ready", !.releasing = 0]
    <3>1. Keeps(t, o) /\ s.persisted # Nothing
      BY <2>6 DEF HandsBack
    <3>2. /\ o \in Shells /\ o.inst = "ready" /\ o.calls = n.calls /\ o.replica = n.replica
          /\ o.retry = n.retry /\ o.releasing = 0
      BY <1>1 DEF Shells
    <3>3. s.phase.version \in Version /\ s.persisted \in Version
      BY <1>1, <2>2, <3>1 DEF Steps, Phase
    <3>4. Untracked \in Phase /\ Untracked.status = "untracked"
      BY DEF Untracked, Phase
    <3>5. /\ r \in Steps /\ r.phase.status = "writing"
          /\ StepFits(r, o.replica, o.calls, o.retry, Unheard(o.inst, dirty', imported'), Stored')
      BY <2>4, <3>2, <3>3, <3>4, LoadsFit, VersionInputsTyped
    <3> HIDE DEF r, o
    <3>6. t \in Steps /\ t.phase = r.phase /\ t.write = r.write /\ t.retry = r.retry
      BY <3>3, <3>5 DEF Steps
    <3>7. /\ StepFits(t, o.replica, o.calls, o.retry, Unheard(o.inst, dirty', imported'), Stored')
          /\ t.phase.status = "writing"
      BY <3>5, <3>6 DEF StepFits
    <3> HIDE DEF t
    <3>8. o.inst \in HeldIn /\ n.inst \in HeldIn /\ o.inst # "loading" /\ n.inst # "loading"
      BY <2>1, <3>2 DEF HeldIn
    <3>9. NowFits(o, Stored', disk')
      BY <3>2, <3>8 DEF NowFits, QueueFits, AddressFits
    <3>10. LeftFits /\ inst' = o.inst
      BY <3>1, <3>6, <3>7, <3>8, <3>9, KeepsFits
    <3>11. QED
      BY <2>1, <3>2, <3>10
  <2>7. QED
    BY <1>4, <2>5, <2>6 DEF Dispatch
<1>5. QED
  BY <1>2, <1>3, <1>4

-----------------------------------------------------------------------------
(* The store's answers to a write.                                         *)

\* Fewer own operations are no less distinct.
LEMMA DistinctAmongFewer ==
  ASSUME NEW a, Distinct(a), NEW b, Own(b) \subseteq Own(a)
  PROVE  Distinct(b)
BY DEF Distinct

\* An applied write stores what it brought and nothing else, and takes nothing unreadable away.
LEMMA AppliedBounds ==
  ASSUME NEW c, c.kind \in {"append", "replace"}, Applied(c), TypeOK, c.through \in Nat
  PROVE  /\ Stored' \subseteq Stored \cup c.ops
         /\ (c.kind = "replace" => \A r \in disk : r.at <= c.through => r.readable) =>
              \A r \in disk : ~r.readable => r \in disk'
<1> DEFINE new == [at |-> mark + 1, ops |-> c.ops, readable |-> TRUE]
<1>1. new.ops = c.ops
  OBVIOUS
<1>2. \/ c.kind = "append" /\ disk' = disk \cup {new}
      \/ c.kind = "replace" /\ disk' = {r \in disk : r.at > c.through} \cup {new}
  BY DEF Applied, Appended, Replaced
<1>3. \A r \in disk : r.at > c.through \/ r.at <= c.through
  BY DEF TypeOK, Record
<1> HIDE DEF new
<1>4. disk' \subseteq disk \cup {new}
  BY <1>2
<1>5. Stored' \subseteq Stored \cup c.ops
  BY <1>1, <1>4 DEF Stored, Contents
<1>6. QED
  BY <1>2, <1>3, <1>5

\* The phase, when the head of the queue is a write's: writing, with nothing behind it, or untracked.
LEMMA HeadInFlight ==
  ASSUME TypeOK, calls # <<>>, Head(calls).kind \in WriteKinds,
         NEW rep, NEW rt, NEW u, NEW st, PhaseFits(phase, rep, calls, rt, u, st)
  PROVE  /\ phase.status # "settled"
         /\ phase.status = "writing" => Idle(Tail(calls))
<1>1. calls \in Seq(Call) /\ Head(calls) = calls[1] /\ 1 \in DOMAIN calls
  BY TailAt DEF TypeOK
<1>2. phase.status # "settled"
  BY <1>1 DEF PhaseFits, Idle
<1>3. QED
  BY <1>1, <1>2, AnsweredIsIdle DEF PhaseFits

\* A write reported stored: it had all the replica holds, unless more is owed or unheard.
LEMMA SuccessFits ==
  ASSUME TypeOK, calls # <<>>, Head(calls).kind \in Writes,
         NEW u, NEW st, NEW su, PhaseFits(phase, replica, calls, retry, u, st),
         Head(calls).version \subseteq su
  PROVE  /\ StepFits(OnWriteSucceeded(phase, Head(calls).version), replica, Tail(calls), retry, u, su)
         /\ phase.status # "untracked" =>
              OnWriteSucceeded(phase, Head(calls).version).phase.status # "untracked"
<1> DEFINE v == Head(calls).version
           q == SettledAt(v, 0)
           r == SettleWrite(phase, q)
<1>1. phase \in Phase /\ retry \in BOOLEAN /\ calls \in Seq(Call) /\ Head(calls).kind \in WriteKinds
  BY DEF TypeOK, Writes, WriteKinds
<1>2. v \in Version
  BY DequeuedTyped DEF Call, Version
<1>3. phase.status # "settled" /\ (phase.status = "writing" => Idle(Tail(calls)))
  BY <1>1, HeadInFlight
<1>4. CASE phase.status = "untracked"
  <2>1. OnWriteSucceeded(phase, v) = Ignored(phase)
    BY <1>4 DEF OnWriteSucceeded
  <2>2. Ignored(phase).write = "none" /\ Ignored(phase).phase = phase
    BY DEF Ignored, Step
  <2>3. QED
    BY <1>4, <2>1, <2>2 DEF StepFits, PhaseFits
<1>5. CASE phase.status = "writing"
  <2>1. q \in Phase /\ q.status = "settled"
    BY <1>2, SettledTyped DEF SettledAt
  <2>2. r \in Steps /\ r.retry = FALSE
    <3>1. phase.owed # "none" => phase.owed \in {"advance", "compact"}
      BY <1>1 DEF Phase
    <3>2. r.retry = FALSE
      BY DEF SettleWrite, Ignored, Start, Step
    <3> HIDE DEF q
    <3>3. r \in Steps
      BY <2>1, <3>1, StartTyped, InputsTyped DEF SettleWrite
    <3>4. QED
      BY <3>2, <3>3
  <2>3. OnWriteSucceeded(phase, v) = [r EXCEPT !.persisted = v]
    BY <1>5 DEF OnWriteSucceeded
  <2>4. phase.owed = "none" => u \/ replica \subseteq su \/ (FALSE /\ q.failures # 0)
    <3>1. Head(calls) = calls[1] /\ 1 \in DOMAIN calls
      BY <1>1, TailAt
    <3>2. Covers(calls, replica) => replica \subseteq v
      BY <3>1 DEF Covers
    <3>3. QED
      BY <1>5, <3>2 DEF PhaseFits
  <2> HIDE DEF q
  <2>5. /\ SettleWrite(phase, q).phase.status # "untracked"
        /\ SettleWrite(phase, q).write # "none" => SettleWrite(phase, q).phase.status = "writing"
        /\ SettleWrite(phase, q).write = "none" =>
             PhaseFits(SettleWrite(phase, q).phase, replica, Tail(calls), retry \/ FALSE, u, su)
    BY <1>1, <1>3, <1>5, <2>1, <2>4, SettleFits
  <2>6. /\ r.phase.status # "untracked"
        /\ r.write # "none" => r.phase.status = "writing"
        /\ r.write = "none" => PhaseFits(r.phase, replica, Tail(calls), retry, u, su)
    BY <1>1, <2>5
  <2> HIDE DEF r, v
  <2>7. /\ [r EXCEPT !.persisted = v].phase = r.phase /\ [r EXCEPT !.persisted = v].write = r.write
        /\ [r EXCEPT !.persisted = v].retry = FALSE
    BY <2>2 DEF Steps
  <2> DEFINE w == OnWriteSucceeded(phase, v)
  <2>8. w.phase = r.phase /\ w.write = r.write /\ w.retry = FALSE
    BY <2>3, <2>7
  <2> HIDE DEF w
  <2>9. StepFits(w, replica, Tail(calls), retry, u, su)
    BY <1>1, <1>3, <1>5, <2>6, <2>8 DEF StepFits
  <2>10. QED
    BY <2>6, <2>8, <2>9 DEF w, v
<1>6. QED
  BY <1>1, <1>3, <1>4, <1>5 DEF Phase

\* A write reported failed: what is owed is started, or a retry is asked for.
LEMMA FailureFits ==
  ASSUME TypeOK, calls # <<>>, Head(calls).kind \in WriteKinds,
         NEW u, NEW st, NEW su, PhaseFits(phase, replica, calls, retry, u, st)
  PROVE  /\ StepFits(OnWriteFailed(phase), replica, Tail(calls), retry, u, su)
         /\ phase.status # "untracked" => OnWriteFailed(phase).phase.status # "untracked"
<1> DEFINE q == SettledAt(phase.version, phase.failures + 1)
           b == (phase.owed = "none")
           r == SettleWrite(phase, q)
<1>1. phase \in Phase /\ retry \in BOOLEAN /\ calls \in Seq(Call) /\ b \in BOOLEAN
  BY DEF TypeOK
<1>2. phase.status # "settled" /\ (phase.status = "writing" => Idle(Tail(calls)))
  BY HeadInFlight
<1>3. CASE phase.status = "untracked"
  <2>1. OnWriteFailed(phase) = Ignored(phase)
    BY <1>3 DEF OnWriteFailed
  <2>2. Ignored(phase).write = "none" /\ Ignored(phase).phase = phase
    BY DEF Ignored, Step
  <2>3. QED
    BY <1>3, <2>1, <2>2 DEF StepFits, PhaseFits
<1>4. CASE phase.status = "writing"
  <2>1. q \in Phase /\ q.status = "settled" /\ q.failures # 0
    <3>1. phase.version \in Version \cup {Nothing} /\ phase.failures \in Nat
      BY <1>1 DEF Phase
    <3>2. phase.failures + 1 \in Nat /\ phase.failures + 1 # 0
      BY <3>1
    <3>3. QED
      BY <3>1, <3>2, SettledTyped DEF SettledAt
  <2>2. r \in Steps
    <3>1. phase.owed # "none" => phase.owed \in {"advance", "compact"}
      BY <1>1 DEF Phase
    <3> HIDE DEF q
    <3>2. QED
      BY <2>1, <3>1, StartTyped, InputsTyped DEF SettleWrite
  <2>3. OnWriteFailed(phase) = [r EXCEPT !.retry = b]
    BY <1>4 DEF OnWriteFailed
  <2> HIDE DEF q
  <2>4. phase.owed = "none" => u \/ replica \subseteq su \/ (b /\ q.failures # 0)
    BY <2>1
  <2>5. /\ SettleWrite(phase, q).phase.status # "untracked"
        /\ SettleWrite(phase, q).write # "none" => SettleWrite(phase, q).phase.status = "writing"
        /\ SettleWrite(phase, q).write = "none" =>
             PhaseFits(SettleWrite(phase, q).phase, replica, Tail(calls), retry \/ b, u, su)
    <3> HIDE DEF b
    <3> QED BY <1>1, <1>2, <1>4, <2>1, <2>4, SettleFits
  <2>6. /\ r.phase.status # "untracked"
        /\ r.write # "none" => r.phase.status = "writing"
        /\ r.write = "none" => PhaseFits(r.phase, replica, Tail(calls), retry \/ b, u, su)
    BY <2>5
  <2> HIDE DEF r, b
  <2>7. /\ [r EXCEPT !.retry = b].phase = r.phase /\ [r EXCEPT !.retry = b].write = r.write
        /\ [r EXCEPT !.retry = b].retry = b
    BY <2>2 DEF Steps
  <2> DEFINE w == OnWriteFailed(phase)
  <2>8. w.phase = r.phase /\ w.write = r.write /\ w.retry = b
    BY <2>3, <2>7
  <2> HIDE DEF w
  <2>9. StepFits(w, replica, Tail(calls), retry, u, su)
    BY <1>2, <1>4, <2>6, <2>8 DEF StepFits
  <2>10. QED
    BY <2>6, <2>8, <2>9 DEF w
<1>5. QED
  BY <1>1, <1>2, <1>3, <1>4 DEF Phase

-----------------------------------------------------------------------------
(* The invariant is inductive.                                             *)

\* An instance that leaves memory leaves nothing behind.
Leaves == inst' = "unloaded" /\ inst # "unloaded" => replica \subseteq Stored'

\* What a dispatched step leaves is the invariant, with the stream's own addresses distinct.
LEMMA LeftKeepsWrites ==
  ASSUME LeftFits, UNCHANGED <<gen, seatLost, fence, seatFence>>, Distinct(Stored'),
         inst' = "storing" => ~dirty'
  PROVE  WritesInv'
BY DEF LeftFits, WritesInv

\* Dispatching on the queue and the replica as they stand.
LEMMA PlainWrites ==
  ASSUME TypeOK, TypeOK', StoreFirstInv, WritesInv, UNCHANGED storage,
         UNCHANGED <<gen, seatLost, fence, seatFence>>,
         NEW s, NEW n \in Shells, Dispatch(s, n), StepOK(s, Stored'),
         n.calls = calls, n.replica = replica, inst = n.inst \/ (inst \in HeldIn /\ n.inst \in HeldIn),
         n.releasing # 0 => n.inst = "storing" /\ ~seatLost,
         StepFits(s, replica, calls, n.retry, Unheard(n.inst, dirty', imported'), Stored'),
         n.inst \notin HeldIn => Silent(s),
         n.inst \in HeldIn /\ ~seatLost => s.phase.status # "untracked",
         n.inst = "storing" => ~dirty'
  PROVE  WritesInv' /\ Leaves
<1>1. disk' = disk /\ Stored' = Stored
  BY DEF storage, Stored
<1>2. /\ QueueFits(calls, inst, gen, disk) /\ Distinct(Stored)
      /\ fence = seatFence => AddressFits(replica, calls, inst, Stored)
  BY DEF WritesInv
<1>3. QueueFits(calls, n.inst, gen, disk)
  BY <1>2 DEF QueueFits, HeldIn
<1>4. fence = seatFence => AddressFits(replica, calls, n.inst, Stored)
  BY <1>2 DEF AddressFits
<1>5. NowFits(n, Stored', disk')
  BY <1>1, <1>3, <1>4 DEF NowFits
<1>6. seatLost => phase = Untracked
  BY DEF StoreFirstInv, TrackedOK
<1>7. StepFits(s, n.replica, n.calls, n.retry, Unheard(n.inst, dirty', imported'), Stored')
  OBVIOUS
<1>8. /\ LeftFits /\ (inst' # n.inst => inst' \in {"unloaded", "ready"} /\ n.inst = "storing")
      /\ inst' = "unloaded" /\ n.inst # "unloaded" => n.replica \subseteq Stored'
  BY <1>5, <1>6, <1>7, DispatchFits
<1>9. WritesInv'
  BY <1>1, <1>2, <1>8, LeftKeepsWrites
<1>10. QED
  BY <1>8, <1>9 DEF Leaves, HeldIn

\* Dispatching once the head of the queue was answered.
LEMMA AnswerWrites ==
  ASSUME TypeOK, TypeOK', StoreFirstInv, WritesInv, Grows, calls # <<>>,
         UNCHANGED <<gen, seatLost, fence, seatFence, dirty, imported>>,
         UNCHANGED storage \/ fence = seatFence,
         Own(Stored' \cup Outgoing(Tail(calls))) \subseteq Own(Stored \cup Outgoing(calls)),
         NEW s, Dispatch(s, Dequeued), StepOK(s, Stored'),
         StepFits(s, replica, Tail(calls), retry, Unheard(inst, dirty, imported), Stored'),
         inst \notin HeldIn => Silent(s),
         phase.status # "untracked" => s.phase.status # "untracked"
  PROVE  WritesInv' /\ Leaves
<1>1. /\ calls \in Seq(Call) /\ Dequeued \in Shells
      /\ Dequeued.inst = inst /\ Dequeued.calls = Tail(calls) /\ Dequeued.replica = replica
      /\ Dequeued.retry = retry /\ Dequeued.releasing = releasing
  BY HeadOK DEF TypeOK, Dequeued, Now
<1>2. /\ QueueFits(calls, inst, gen, disk) /\ Distinct(Stored) /\ QueueOK(calls, gen, disk, mark)
      /\ fence = seatFence => AddressFits(replica, calls, inst, Stored)
      /\ releasing # 0 => inst = "storing" /\ ~seatLost
      /\ inst = "storing" => ~dirty
      /\ inst \in HeldIn /\ ~seatLost => phase.status # "untracked"
  BY DEF WritesInv, StoreFirstInv
<1>3. QueueFits(Tail(calls), inst, gen, disk')
  <2>1. QueueFits(calls, inst, gen, disk')
    BY <1>1, <1>2, GrowthKeepsFits
  <2>2. QED
    BY <1>1, <2>1, TailFits
<1>4. ASSUME fence = seatFence
      PROVE  AddressFits(replica, Tail(calls), inst, Stored')
  BY <1>2, <1>4, FewerFit
<1>5. NowFits(Dequeued, Stored', disk')
  BY <1>1, <1>2, <1>3, <1>4 DEF NowFits
<1>6. seatLost => phase = Untracked
  BY DEF StoreFirstInv, TrackedOK
<1> DEFINE n == Dequeued
<1>7. /\ StepFits(s, n.replica, n.calls, n.retry, Unheard(n.inst, dirty', imported'), Stored')
      /\ n.inst \notin HeldIn => Silent(s)
      /\ n.inst \in HeldIn /\ ~seatLost => s.phase.status # "untracked"
  BY <1>1, <1>2
<1>8. Dispatch(s, n) /\ NowFits(n, Stored', disk') /\ n.inst = inst /\ n.replica = replica
  BY <1>1, <1>5
<1> HIDE DEF n
<1>9. /\ LeftFits /\ (inst' # n.inst => inst' \in {"unloaded", "ready"} /\ n.inst = "storing")
      /\ inst' = "unloaded" /\ n.inst # "unloaded" => n.replica \subseteq Stored'
  BY <1>6, <1>7, <1>8, DispatchFits
<1>10. Distinct(Stored')
  <2>1. CASE UNCHANGED storage
    BY <1>2, <2>1 DEF storage, Stored
  <2>2. CASE fence = seatFence
    <3>1. Distinct(Stored' \cup replica \cup Outgoing(Tail(calls)))
      BY <1>4, <2>2 DEF AddressFits
    <3>2. QED
      BY <3>1, DistinctAmongFewer DEF Own
  <2>3. QED
    BY <2>1, <2>2
<1>11. QED
  BY <1>2, <1>8, <1>9, <1>10, LeftKeepsWrites DEF Leaves

\* A call that is no write's is answered with nothing, or with a lifecycle that may fail.
LEMMA DroppedWrites ==
  ASSUME TypeOK, TypeOK', StoreFirstInv, WritesInv, calls # <<>>, Head(calls).kind \notin WriteKinds,
         calls' = Tail(calls),
         UNCHANGED <<phase, releasing, seatLost, gen, replica, dirty, imported, retry, storage, fence, seatFence>>,
         inst' = inst \/ (inst = "loading" /\ inst' = "failed")
  PROVE  WritesInv' /\ Leaves
<1>1. /\ disk' = disk /\ Stored' = Stored /\ calls \in Seq(Call)
      /\ inst' \in HeldIn => inst = inst'
  BY DEF storage, Stored, TypeOK, HeldIn
<1>2. /\ PhaseFits(phase, replica, calls, retry, Unheard(inst, dirty, imported), Stored)
      /\ QueueFits(calls, inst, gen, disk)
      /\ fence = seatFence => AddressFits(replica, calls, inst, Stored)
  BY DEF WritesInv
<1>3. PhaseFits(phase, replica, Tail(calls), retry, Unheard(inst', dirty, imported), Stored)
  <2>1. PhaseFits(phase, replica, Tail(calls), retry, Unheard(inst, dirty, imported), Stored)
    BY <1>1, <1>2, DroppedFits
  <2>2. Unheard(inst', dirty, imported) = Unheard(inst, dirty, imported)
    BY DEF Unheard
  <2>3. QED
    BY <2>1, <2>2
<1>4. QueueFits(Tail(calls), inst', gen, disk) /\ Outgoing(Tail(calls)) \subseteq Outgoing(calls)
  <2>1. QueueFits(Tail(calls), inst, gen, disk) /\ Outgoing(Tail(calls)) \subseteq Outgoing(calls)
    BY <1>1, <1>2, TailFits
  <2>2. QED
    BY <2>1 DEF QueueFits, HeldIn
<1>5. fence = seatFence => AddressFits(replica, Tail(calls), inst', Stored)
  <2>1. Own(Stored \cup Outgoing(Tail(calls))) \subseteq Own(Stored \cup Outgoing(calls))
    BY <1>4 DEF Own
  <2>2. fence = seatFence => AddressFits(replica, Tail(calls), inst, Stored)
    BY <1>2, <2>1, FewerFit
  <2>3. QED
    BY <1>1, <2>2 DEF AddressFits
<1>6. /\ PhaseFits(phase', replica', calls', retry', Unheard(inst', dirty', imported'), Stored')
      /\ QueueFits(calls', inst', gen', disk')
      /\ fence' = seatFence' => AddressFits(replica', calls', inst', Stored')
  BY <1>1, <1>3, <1>4, <1>5
<1>7. /\ inst' \in HeldIn /\ ~seatLost' => phase'.status # "untracked"
      /\ releasing' # 0 => inst' = "storing" /\ ~seatLost'
      /\ inst' = "storing" => ~dirty'
      /\ Distinct(Stored')
  BY <1>1 DEF WritesInv, HeldIn
<1>8. QED
  BY <1>6, <1>7 DEF WritesInv, Leaves

\* The shell's own steps ask for a write.
LEMMA ShellKeepsWrites ==
  ASSUME TypeOK, TypeOK', StoreFirstInv, WritesInv, Shell
  PROVE  WritesInv' /\ Leaves
<1>1. /\ Now \in Shells /\ phase \in Phase /\ Now.inst = inst /\ Now.calls = calls /\ Now.replica = replica
      /\ Now.releasing = releasing /\ Now.retry = retry
  BY NowTyped DEF TypeOK, Now
<1>2. /\ PhaseFits(phase, replica, calls, retry, Unheard(inst, dirty, imported), Stored)
      /\ inst \in HeldIn /\ ~seatLost => phase.status # "untracked"
      /\ releasing # 0 => inst = "storing" /\ ~seatLost
      /\ inst = "storing" => ~dirty
  BY DEF WritesInv
<1> DEFINE s == OnStateAdvanced(phase)
<1>3. /\ \A rt, u, st : StepFits(s, replica, calls, rt, u, st)
      /\ inst \in HeldIn /\ ~seatLost => s.phase.status # "untracked"
  <2>1. ASSUME NEW rt, NEW u, NEW st
        PROVE  /\ StepFits(OnStateAdvanced(phase), replica, calls, rt, u, st)
               /\ StepFits(OnCompact(phase), replica, calls, rt, u, st)
               /\ phase.status # "untracked" => /\ OnStateAdvanced(phase).phase.status = "writing"
                                                /\ OnCompact(phase).phase.status = "writing"
    BY <1>1, <1>2, AsksFit
  <2>2. QED
    BY <1>2, <2>1
<1>4. ASSUME UNCHANGED storage
      PROVE  StepOK(s, Stored') /\ (inst \notin HeldIn => Silent(s))
  BY <1>4, UnchangedGrows, PhaseInputs
<1>5. CASE Drain
  <2>1. UNCHANGED storage /\ UNCHANGED <<gen, seatLost, fence, seatFence>> /\ ~dirty' /\ imported' = imported
    BY <1>5 DEF Drain, seat
  <2>2. CASE Held
    <3> DEFINE n == [Now EXCEPT !.ownHigh = replica]
    <3>1. /\ n \in Shells /\ n.inst = inst /\ n.calls = calls /\ n.replica = replica
          /\ n.releasing = releasing /\ n.retry = retry
      <4>1. replica \in Version
        BY DEF TypeOK
      <4>2. QED
        BY <1>1, <4>1 DEF Shells
    <3>2. Dispatch(s, n)
      BY <1>5, <2>2 DEF Drain
    <3> HIDE DEF n, s
    <3>3. StepFits(s, replica, calls, n.retry, Unheard(n.inst, dirty', imported'), Stored')
      BY <1>3
    <3>4. StepOK(s, Stored') /\ (n.inst \notin HeldIn => Silent(s))
      BY <1>4, <2>1, <3>1
    <3>5. QED
      BY <1>2, <1>3, <2>1, <3>1, <3>2, <3>3, <3>4, PlainWrites
  <2>3. CASE ~Held
    <3>1. UNCHANGED <<phase, releasing, inst, replica, calls, retry, ownHigh>>
      BY <1>5, <2>3 DEF Drain
    <3>2. disk' = disk /\ Stored' = Stored /\ inst \notin HeldIn
      BY <2>1, <2>3 DEF storage, Stored, Held, HeldIn
    <3>3. phase = Untracked
      BY <3>2 DEF StoreFirstInv, TrackedOK
    <3>4. PhaseFits(phase', replica', calls', retry', Unheard(inst', dirty', imported'), Stored')
      BY <3>1, <3>3, UntrackedFits
    <3>5. QED
      BY <2>1, <3>1, <3>2, <3>4 DEF WritesInv, Leaves
  <2>4. QED
    BY <2>2, <2>3
<1>6. CASE QuietPoint
  <2>1. /\ UNCHANGED storage /\ UNCHANGED <<gen, seatLost, fence, seatFence>> /\ dirty' = dirty
        /\ Dispatch(s, Now)
    BY <1>6 DEF QuietPoint, seat
  <2> DEFINE n == Now
  <2>2. Dispatch(s, n) /\ n \in Shells /\ n.inst = inst /\ n.calls = calls /\ n.replica = replica /\ n.releasing = releasing
    BY <1>1, <2>1
  <2> HIDE DEF n, s
  <2>3. StepFits(s, replica, calls, n.retry, Unheard(n.inst, dirty', imported'), Stored')
    BY <1>3
  <2>4. StepOK(s, Stored') /\ (n.inst \notin HeldIn => Silent(s))
    BY <1>4, <2>1, <2>2
  <2>5. QED
    BY <1>2, <1>3, <2>1, <2>2, <2>3, <2>4, PlainWrites
<1>7. CASE RetryFires
  <2> DEFINE n == [Now EXCEPT !.retry = FALSE]
  <2>1. /\ UNCHANGED storage /\ UNCHANGED <<gen, seatLost, fence, seatFence>> /\ dirty' = dirty
        /\ Dispatch(s, n)
    BY <1>7 DEF RetryFires, seat
  <2>2. n \in Shells /\ n.inst = inst /\ n.calls = calls /\ n.replica = replica /\ n.releasing = releasing
    BY <1>1 DEF Shells
  <2> HIDE DEF n, s
  <2>3. StepFits(s, replica, calls, n.retry, Unheard(n.inst, dirty', imported'), Stored')
    BY <1>3
  <2>4. StepOK(s, Stored') /\ (n.inst \notin HeldIn => Silent(s))
    BY <1>4, <2>1, <2>2
  <2>5. QED
    BY <1>2, <1>3, <2>1, <2>2, <2>3, <2>4, PlainWrites
<1>8. QED
  BY <1>5, <1>6, <1>7 DEF Shell

\* Unloading's two inputs, the drain's and its own, as one step.
Asked(p, d) == IF d THEN OnStateAdvanced(p) ELSE Ignored(p)
LastAsked(p, d) ==
  [OnStateAdvanced(Asked(p, d).phase) EXCEPT !.write =
     IF Asked(p, d).write # "none" THEN Asked(p, d).write ELSE OnStateAdvanced(Asked(p, d).phase).write]

\* Unloading asks for a last write: one is started, or owed.
LEMMA UnloadFits ==
  ASSUME NEW p \in Phase, NEW cs,
         p.status = "settled" => Idle(cs), p.status = "writing" => One(cs), NEW d \in BOOLEAN,
         NEW rep, NEW rt, NEW u, NEW st
  PROVE  /\ StepFits(LastAsked(p, d), rep, cs, rt, u, st)
         /\ p.status # "untracked" => LastAsked(p, d).phase.status # "untracked"
         /\ p = Untracked => Silent(LastAsked(p, d))
<1> DEFINE s1 == Asked(p, d)
           s  == LastAsked(p, d)
           s2 == OnStateAdvanced(s1.phase)
           w  == IF s1.write # "none" THEN s1.write ELSE s2.write
<1>0. PhaseFits(p, rep, cs, rt, TRUE, st)
  BY DEF PhaseFits
<1>1. /\ Ignored(p).phase = p /\ Ignored(p).write = "none"
      /\ OnStateAdvanced(p) \in Steps
  BY InputsTyped DEF Ignored, Step
<1>2. s1.phase \in Phase
  BY <1>1 DEF Steps, Asked
<1>3. s2 \in Steps
  BY <1>2, InputsTyped
<1>4. s.phase = s2.phase /\ s.write = w /\ s.retry = s2.retry /\ s.persisted = s2.persisted
  <2>1. s = [s2 EXCEPT !.write = w]
    BY DEF LastAsked
  <2> HIDE DEF s, s2, w
  <2>2. QED
    BY <1>3, <2>1 DEF Steps
<1>5. CASE ~d \/ p.status = "untracked"
  <2>1. s1 = Ignored(p)
    BY <1>5 DEF OnStateAdvanced, Asked
  <2>2. s2 = OnStateAdvanced(p) /\ w = s2.write
    BY <1>1, <2>1
  <2>3. /\ StepFits(OnStateAdvanced(p), rep, cs, rt, u, st) /\ StepFits(OnCompact(p), rep, cs, rt, u, st)
        /\ p.status # "untracked" => /\ OnStateAdvanced(p).phase.status = "writing"
                                     /\ OnCompact(p).phase.status = "writing"
    BY <1>0, AsksFit
  <2>4. p = Untracked => Silent(OnStateAdvanced(p))
    BY UntrackedIsSilent
  <2> DEFINE t == OnStateAdvanced(p)
  <2>5. s.phase = t.phase /\ s.write = t.write /\ s.retry = t.retry /\ s.persisted = t.persisted
    BY <1>4, <2>2
  <2>6. /\ StepFits(t, rep, cs, rt, u, st)
        /\ p.status # "untracked" => t.phase.status = "writing"
        /\ p = Untracked => Silent(t)
    BY <2>3, <2>4
  <2> HIDE DEF t
  <2>7. QED
    BY <2>5, <2>6 DEF StepFits, Silent
<1>6. CASE d /\ p.status # "untracked"
  <2>1. s1 = OnStateAdvanced(p)
    BY <1>6 DEF Asked
  <2>2. /\ StepFits(OnStateAdvanced(p), rep, cs, rt, u, st) /\ StepFits(OnCompact(p), rep, cs, rt, u, st)
        /\ p.status # "untracked" => /\ OnStateAdvanced(p).phase.status = "writing"
                                     /\ OnCompact(p).phase.status = "writing"
    BY <1>0, AsksFit
  <2>3. StepFits(s1, rep, cs, rt, u, st) /\ s1.phase.status = "writing"
    BY <1>6, <2>1, <2>2
  <2> DEFINE q == [s1.phase EXCEPT !.owed = JoinOwed(s1.phase.owed, "advance")]
  <2>4. s2 = Ignored(q) /\ q.status = "writing" /\ q.owed # "none"
    BY <1>2, <2>3 DEF OnStateAdvanced, Request, JoinOwed, Phase
  <2> HIDE DEF q
  <2>5. s2.phase = q /\ s2.write = "none" /\ s2.retry = FALSE
    BY <2>4 DEF Ignored, Step
  <2>6. w = s1.write
    BY <2>5
  <2>7. s1.write # "none" => Idle(cs)
    BY <2>3 DEF StepFits
  <2>8. s1.write = "none" => One(cs)
    BY <2>3 DEF StepFits, PhaseFits
  <2>9. s.phase = q /\ s.write = s1.write
    BY <1>4, <2>5, <2>6
  <2>10. StepFits(s, rep, cs, rt, u, st)
    BY <2>4, <2>7, <2>8, <2>9 DEF StepFits, PhaseFits
  <2>11. p # Untracked
    BY <1>6 DEF Untracked
  <2>12. QED
    BY <2>4, <2>9, <2>10, <2>11
<1>7. QED
  BY <1>5, <1>6

\* The doors.
LEMMA DoorsKeepWrites ==
  ASSUME TypeOK, TypeOK', StoreFirstInv, WritesInv, Doors
  PROVE  WritesInv' /\ Leaves
<1>1. /\ Now \in Shells /\ phase \in Phase /\ replica \in Version /\ retry \in BOOLEAN
      /\ Now.inst = inst /\ Now.calls = calls /\ Now.replica = replica
      /\ Now.releasing = releasing /\ Now.retry = retry
      /\ calls \in Seq(Call) /\ gen \in Nat /\ dirty \in BOOLEAN /\ imported \in BOOLEAN
  BY NowTyped DEF TypeOK, Now
<1>2. /\ PhaseFits(phase, replica, calls, retry, Unheard(inst, dirty, imported), Stored)
      /\ QueueFits(calls, inst, gen, disk)
      /\ inst \in HeldIn /\ ~seatLost => phase.status # "untracked"
      /\ releasing # 0 => inst = "storing" /\ ~seatLost
      /\ inst = "storing" => ~dirty
      /\ Distinct(Stored)
      /\ fence = seatFence => AddressFits(replica, calls, inst, Stored)
  BY DEF WritesInv
<1>3. TrackedOK /\ QueueOK(calls, gen, disk, mark)
  BY DEF StoreFirstInv
<1>4. CASE Get
  <2> DEFINE c == [CallOf("writerOf") EXCEPT !.gen = gen + 1]
  <2>1. c.kind = "writerOf" /\ c.gen = gen + 1 /\ c \in Call
    <3>1. CallOf("writerOf") \in Call /\ CallOf("writerOf").kind = "writerOf"
      BY CallOfTyped DEF Kinds, CallOf
    <3>2. gen + 1 \in Nat
      BY <1>1
    <3>3. QED
      BY <3>1, <3>2 DEF Call
  <2>2. /\ inst \notin HeldIn /\ inst # "storing" /\ gen' = gen + 1 /\ inst' = "loading" /\ replica' = {}
        /\ calls' = Append(calls, c) /\ disk' = disk /\ Stored' = Stored
        /\ UNCHANGED <<phase, seatLost, releasing, dirty, imported, retry, fence, seatFence>>
    BY <1>4 DEF Get, HeldIn, storage, seat, Stored
  <2> HIDE DEF c
  <2>3. \A k \in DOMAIN calls : calls[k].gen # gen + 1
    <3>1. ASSUME NEW k \in DOMAIN calls
          PROVE  calls[k] \in Call /\ CallOK(calls[k], gen, disk, mark)
      BY <1>1, <1>3 DEF QueueOK
    <3>2. \A k \in DOMAIN calls : calls[k].gen <= gen /\ calls[k].gen \in Nat
      BY <3>1 DEF CallOK, Call
    <3>3. QED
      BY <1>1, <3>2
  <2>4. PhaseFits(phase', replica', calls', retry', Unheard(inst', dirty', imported'), Stored')
    BY <1>3, <2>2, UntrackedFits DEF TrackedOK
  <2>5. QueueFits(calls, "loading", gen + 1, disk)
    BY <1>2, <2>3 DEF QueueFits, HeldIn
  <2>6. c.kind \notin WriteKinds /\ c.kind # "load" /\ c.kind # "replace" /\ c.kind \notin {"append", "replace"}
    BY <2>1 DEF WriteKinds
  <2> DEFINE i == "loading"
             g == gen + 1
  <2>7. /\ i \in HeldIn /\ c.kind \in WriteKinds => c.gen = g
        /\ i = "loading" => \A k \in DOMAIN calls : calls[k].gen = g =>
             /\ calls[k].kind = "load" => c.kind \notin WriteKinds
             /\ calls[k].kind = "writerOf" => c.kind \notin WriteKinds \ {"loadAll"}
        /\ i = "loading" /\ c.kind = "load" /\ c.gen = g => \A k \in DOMAIN calls : calls[k].kind # "mark"
        /\ c.kind = "replace" => \A r \in disk : r.at <= c.through => r.readable
    BY <2>3, <2>6
  <2>8. QueueFits(calls, i, g, disk) /\ QueueFits(calls', inst', gen', disk') = QueueFits(Append(calls, c), i, g, disk)
    BY <2>2, <2>5
  <2> HIDE DEF i, g
  <2>9. /\ QueueFits(Append(calls, c), i, g, disk)
        /\ Outgoing(Append(calls, c)) \subseteq Outgoing(calls) \cup c.ops
        /\ c.kind \notin {"append", "replace"} => Outgoing(Append(calls, c)) \subseteq Outgoing(calls)
    BY <1>1, <2>1, <2>7, <2>8, LongerFits
  <2>10. fence' = seatFence' => AddressFits(replica', calls', inst', Stored')
    <3>1. Own(Stored \cup {} \cup Outgoing(calls')) \subseteq Own(Stored \cup replica \cup Outgoing(calls))
      BY <2>2, <2>6, <2>9 DEF Own
    <3>2. fence = seatFence => Distinct(Stored \cup {} \cup Outgoing(calls'))
      BY <1>2, <3>1, DistinctAmongFewer DEF AddressFits
    <3>3. QED
      BY <2>2, <3>2 DEF AddressFits, HeldIn
  <2>11. QED
    BY <1>2, <2>2, <2>4, <2>8, <2>9, <2>10 DEF WritesInv, Leaves, HeldIn
<1>5. CASE WriteWhileLoading
  <2>1. /\ inst = "loading" /\ Own(replica') = Own(replica) /\ disk' = disk /\ Stored' = Stored
        /\ UNCHANGED <<phase, releasing, seatLost, inst, gen, dirty, imported, retry, calls, fence, seatFence>>
    BY <1>5 DEF WriteWhileLoading, Own, storage, seat, Stored
  <2>2. PhaseFits(phase', replica', calls', retry', Unheard(inst', dirty', imported'), Stored')
    BY <1>3, <2>1, UntrackedFits DEF TrackedOK, HeldIn
  <2>3. fence' = seatFence' => AddressFits(replica', calls', inst', Stored')
    <3>1. Own(Stored \cup replica' \cup Outgoing(calls)) \subseteq Own(Stored \cup replica \cup Outgoing(calls))
      BY <2>1 DEF Own
    <3>2. fence = seatFence => Distinct(Stored \cup replica' \cup Outgoing(calls))
      BY <1>2, <3>1, DistinctAmongFewer DEF AddressFits
    <3>3. QED
      BY <2>1, <3>2 DEF AddressFits, HeldIn
  <2>4. QED
    BY <1>2, <2>1, <2>2, <2>3 DEF WritesInv, Leaves
<1>6. CASE LocalWrite
  <2>1. PICK p \in 1 .. MaxOwn :
          NextPos(replica, p) /\ replica' = replica \cup {[by |-> "own", pos |-> p, run |-> run]}
    BY <1>6 DEF LocalWrite
  <2> DEFINE o == [by |-> "own", pos |-> p, run |-> run]
  <2>2. /\ inst = "ready" /\ dirty' /\ disk' = disk /\ Stored' = Stored
        /\ UNCHANGED <<phase, releasing, seatLost, inst, gen, imported, retry, calls, fence, seatFence>>
    BY <1>6 DEF LocalWrite, storage, seat, Stored
  <2>3. replica' = replica \cup {o} /\ o.pos = p /\ \A q \in Own(replica) : q.pos < p /\ q.pos \in Nat
    <3>1. \A q \in Own(replica) : q.pos \in Nat
      BY <1>1 DEF Own, Version, Op
    <3>2. QED
      BY <2>1, <3>1 DEF NextPos
  <2>4. p \in Nat
    BY BoundsAssumption
  <2> HIDE DEF o
  <2>5. PhaseFits(phase', replica', calls', retry', Unheard(inst', dirty', imported'), Stored')
    BY <1>2, <2>2 DEF PhaseFits, Unheard
  <2>6. fence' = seatFence' => AddressFits(replica', calls', inst', Stored')
    <3>1. SUFFICES ASSUME fence = seatFence
                   PROVE  AddressFits(replica', calls, inst, Stored)
      BY <2>2
    <3>2. Own(Stored \cup Outgoing(calls)) \subseteq replica
      BY <1>2, <2>2, <3>1 DEF AddressFits, HeldIn
    <3>3. Own(Stored \cup replica' \cup Outgoing(calls)) \subseteq Own(replica) \cup {o}
      BY <2>3, <3>2 DEF Own
    <3>4. \A a, b \in Own(replica) : a.pos = b.pos => a = b
      BY <1>2, <3>1 DEF AddressFits, Distinct, Own
    <3>5. \A a, b \in Own(replica) \cup {o} : a.pos = b.pos => a = b
      BY <2>3, <2>4, <3>4
    <3>6. Distinct(Stored \cup replica' \cup Outgoing(calls))
      BY <3>3, <3>5 DEF Distinct
    <3>7. QED
      BY <2>3, <3>2, <3>6 DEF AddressFits
  <2>7. QED
    BY <1>2, <2>2, <2>5, <2>6 DEF WritesInv, Leaves
<1>7. CASE Compact
  <2>1. /\ UNCHANGED storage /\ UNCHANGED <<gen, seatLost, fence, seatFence>> /\ Held
        /\ dirty' = dirty /\ imported' = imported
    BY <1>7 DEF Compact, seat
  <2> DEFINE s == OnCompact(phase)
             n == Now
  <2>2. Dispatch(s, n)
    BY <1>7 DEF Compact
  <2>3. StepOK(s, Stored')
    BY <2>1, UnchangedGrows, PhaseInputs
  <2>4. /\ StepFits(OnStateAdvanced(phase), replica, calls, n.retry, Unheard(n.inst, dirty', imported'), Stored')
        /\ StepFits(OnCompact(phase), replica, calls, n.retry, Unheard(n.inst, dirty', imported'), Stored')
        /\ phase.status # "untracked" => /\ OnStateAdvanced(phase).phase.status = "writing"
                                         /\ OnCompact(phase).phase.status = "writing"
    BY <1>1, <1>2, AsksFit
  <2>5. inst \in HeldIn /\ n.inst = inst
    BY <1>1, <2>1 DEF Held, HeldIn
  <2>6. n \in Shells /\ n.calls = calls /\ n.replica = replica /\ n.releasing = releasing
    BY <1>1
  <2>7. /\ StepFits(s, replica, calls, n.retry, Unheard(n.inst, dirty', imported'), Stored')
        /\ n.inst \in HeldIn /\ ~seatLost => s.phase.status # "untracked"
    BY <1>2, <2>4, <2>5
  <2> HIDE DEF n, s
  <2>8. QED
    BY <1>2, <2>1, <2>2, <2>3, <2>5, <2>6, <2>7, PlainWrites
<1>8. CASE Unload
  <2> DEFINE s1 == IF dirty THEN OnStateAdvanced(phase) ELSE Ignored(phase)
             s2 == OnStateAdvanced(s1.phase)
             s  == [s2 EXCEPT !.write = IF s1.write # "none" THEN s1.write ELSE s2.write]
             n  == [Now EXCEPT !.inst = "storing",
                               !.ownHigh = IF dirty THEN replica ELSE ownHigh,
                               !.releasing = IF seatLost THEN 0 ELSE gen]
  <2>1. /\ inst = "ready" /\ ~dirty' /\ Dispatch(s, n) /\ imported' = imported
        /\ UNCHANGED storage /\ UNCHANGED <<gen, seatLost, fence, seatFence>>
    BY <1>8 DEF Unload, seat
  <2>2. /\ n \in Shells /\ n.inst = "storing" /\ n.calls = calls /\ n.replica = replica /\ n.retry = retry
        /\ n.releasing = IF seatLost THEN 0 ELSE gen
    BY <1>1 DEF Now, Shells, TypeOK
  <2>3. StepOK(s, Stored')
    <3>1. Grows
      BY <2>1, UnchangedGrows
    <3>2. s \in Steps /\ s.phase = s2.phase /\ s.persisted = s2.persisted
          /\ s.write = (IF s1.write # "none" THEN s1.write ELSE s2.write)
          /\ StepOK(s1, Stored') /\ StepOK(s2, Stored')
      <4>1. StepOK(s1, Stored')
        BY <3>1, PhaseInputs
      <4>2. s1.phase \in Phase /\ (s1.phase.version = Nothing \/ s1.phase.version \subseteq Stored')
        BY <4>1 DEF StepOK, Steps
      <4>3. s1.write \in {"none", "register", "since", "compact"}
        BY <4>1 DEF StepOK, Steps
      <4>4. StepOK(s2, Stored')
        <5> HIDE DEF s1
        <5> QED BY <4>2, InputsOK
      <4> DEFINE w == IF s1.write # "none" THEN s1.write ELSE s2.write
      <4>5. s2 \in Steps /\ w \in {"none", "register", "since", "compact"} /\ s = [s2 EXCEPT !.write = w]
        BY <4>3, <4>4 DEF StepOK, Steps
      <4> HIDE DEF s, s2, w
      <4>6. s \in Steps /\ s.phase = s2.phase /\ s.persisted = s2.persisted /\ s.write = w
        BY <4>5 DEF Steps
      <4>7. QED
        BY <4>1, <4>4, <4>6 DEF w
    <3>3. s.write = "since" => s.phase.version # Nothing
      <4>1. s1.write # "none" => s1.phase.status = "writing"
        BY <1>1 DEF OnStateAdvanced, Request, Ignored, Start, Step, Phase
      <4>2. s1.phase \in Phase
        BY <3>2 DEF StepOK, Steps
      <4>3. s1.phase.status = "writing" => s2.phase.version = s1.phase.version
        <5> HIDE DEF s1
        <5> QED BY <4>2 DEF OnStateAdvanced, Request, Ignored, Step, Phase
      <4> HIDE DEF s, s1, s2
      <4>4. QED
        BY <3>2, <4>1, <4>3 DEF StepOK
    <3> HIDE DEF s, s1, s2
    <3>4. QED
      BY <3>2, <3>3 DEF StepOK
  <2>4. /\ StepFits(s, replica, calls, n.retry, Unheard(n.inst, dirty', imported'), Stored')
        /\ phase.status # "untracked" => s.phase.status # "untracked"
        /\ phase = Untracked => Silent(s)
    <3> DEFINE u == Unheard(n.inst, dirty', imported')
               st == Stored'
               rt == n.retry
    <3> HIDE DEF n, u, st, rt
    <3>1. (phase.status = "settled" => Idle(calls)) /\ (phase.status = "writing" => One(calls))
      BY <1>2 DEF PhaseFits
    <3>2. s = LastAsked(phase, dirty)
      BY DEF LastAsked, Asked
    <3> HIDE DEF s
    <3>3. /\ StepFits(LastAsked(phase, dirty), replica, calls, rt, u, st)
          /\ phase.status # "untracked" => LastAsked(phase, dirty).phase.status # "untracked"
          /\ phase = Untracked => Silent(LastAsked(phase, dirty))
      BY <1>1, <3>1, UnloadFits
    <3>4. QED
      BY <3>2, <3>3 DEF u, st, rt
  <2>5. inst \in HeldIn /\ n.inst \in HeldIn /\ (n.releasing # 0 => ~seatLost)
    BY <2>1, <2>2 DEF HeldIn
  <2> HIDE DEF n, s
  <2>6. QED
    BY <1>2, <2>1, <2>2, <2>3, <2>4, <2>5, PlainWrites
<1>9. CASE Reopen
  <2> DEFINE n == [Now EXCEPT !.inst = "ready", !.releasing = 0]
             s == Ignored(phase)
  <2>1. /\ inst = "storing" /\ dirty' = dirty /\ imported' = imported /\ Dispatch(s, n)
        /\ UNCHANGED storage /\ UNCHANGED <<gen, seatLost, fence, seatFence>>
    BY <1>9 DEF Reopen, seat
  <2>2. /\ n \in Shells /\ n.inst = "ready" /\ n.calls = calls /\ n.replica = replica
        /\ n.releasing = 0 /\ n.retry = retry
    BY <1>1 DEF Now, Shells
  <2>3. StepOK(s, Stored') /\ s.phase = phase
    BY <2>1, UnchangedGrows, PhaseInputs DEF Ignored, Step
  <2>4. StepFits(s, replica, calls, n.retry, Unheard(n.inst, dirty', imported'), Stored')
    <3> DEFINE u == Unheard(inst, dirty, imported)
               v == Unheard(n.inst, dirty', imported')
               st == Stored'
    <3>1. u \in BOOLEAN /\ v \in BOOLEAN /\ ~u /\ Stored \subseteq st
      BY <2>1 DEF Unheard, storage, Stored
    <3>2. PhaseFits(phase, replica, calls, retry, u, Stored)
      BY <1>2
    <3> HIDE DEF u, v, n, st
    <3>3. StepFits(Ignored(phase), replica, calls, retry, v, st)
      BY <1>1, <3>1, <3>2, IgnoredFits
    <3>4. QED
      BY <2>2, <3>3 DEF v, st
  <2>5. inst \in HeldIn /\ n.inst \in HeldIn /\ n.inst # "storing"
    BY <2>1, <2>2 DEF HeldIn
  <2> HIDE DEF n, s
  <2>6. QED
    BY <1>2, <2>1, <2>2, <2>3, <2>4, <2>5, PlainWrites
<1>10. CASE Destroy
  <2>1. /\ inst' = "absent" /\ replica' = {} /\ disk' = disk /\ Stored' = Stored
        /\ UNCHANGED <<seatLost, gen, fence, seatFence>>
    BY <1>10 DEF Destroy, storage, seat, Stored
  <2>2. phase' = Untracked /\ (releasing' # 0 => FALSE)
    BY <1>2, <1>3, <1>10 DEF Destroy, TrackedOK
  <2>3. PhaseFits(phase', replica', calls', retry', Unheard(inst', dirty', imported'), Stored')
    BY <2>2, UntrackedFits
  <2>4. QueueFits(calls, "absent", gen, disk)
    BY <1>2 DEF QueueFits, HeldIn
  <2>5. QueueFits(calls', inst', gen', disk') /\ Outgoing(calls') \subseteq Outgoing(calls)
    <3>1. CASE seatLost
      <4>1. calls' = calls
        BY <1>10, <3>1 DEF Destroy
      <4>2. QED
        BY <2>1, <2>4, <4>1
    <3>2. CASE ~seatLost
      <4> DEFINE c == CallOf("delete")
                 i == "absent"
      <4>1. c \in Call /\ c.kind = "delete"
        BY CallOfTyped DEF Kinds, CallOf
      <4>2. calls' = Append(calls, c) /\ inst' = i
        BY <1>10, <2>1, <3>2 DEF Destroy
      <4>3. i \notin HeldIn /\ i # "loading" /\ QueueFits(calls, i, gen, disk)
        BY <2>4 DEF HeldIn
      <4> HIDE DEF c, i
      <4>4. /\ QueueFits(Append(calls, c), i, gen, disk)
            /\ Outgoing(Append(calls, c)) \subseteq Outgoing(calls) \cup c.ops
            /\ c.kind \notin {"append", "replace"} => Outgoing(Append(calls, c)) \subseteq Outgoing(calls)
        BY <1>1, <4>1, <4>3, LongerFits
      <4>5. QED
        BY <2>1, <4>1, <4>2, <4>4
    <3>3. QED
      BY <3>1, <3>2
  <2>6. fence' = seatFence' => AddressFits(replica', calls', inst', Stored')
    <3>1. Own(Stored \cup {} \cup Outgoing(calls')) \subseteq Own(Stored \cup replica \cup Outgoing(calls))
      BY <2>5 DEF Own
    <3>2. fence = seatFence => Distinct(Stored \cup {} \cup Outgoing(calls'))
      BY <1>2, <3>1, DistinctAmongFewer DEF AddressFits
    <3>3. QED
      BY <2>1, <3>2 DEF AddressFits, HeldIn
  <2>7. QED
    BY <1>2, <2>1, <2>2, <2>3, <2>5, <2>6 DEF WritesInv, Leaves, HeldIn
<1>11. QED
  BY <1>4, <1>5, <1>6, <1>7, <1>8, <1>9, <1>10 DEF Doors

\* The network: a merge is unheard until it is reported, an export asks for what it drained.
LEMMA NetworkKeepsWrites ==
  ASSUME TypeOK, TypeOK', StoreFirstInv, WritesInv, Network
  PROVE  WritesInv' /\ Leaves
<1>1. /\ Now \in Shells /\ phase \in Phase /\ replica \in Version /\ retry \in BOOLEAN
      /\ Now.inst = inst /\ Now.calls = calls /\ Now.replica = replica
      /\ Now.releasing = releasing /\ Now.retry = retry
      /\ dirty \in BOOLEAN /\ imported \in BOOLEAN /\ seatLost \in BOOLEAN
  BY NowTyped DEF TypeOK, Now
<1>2. /\ PhaseFits(phase, replica, calls, retry, Unheard(inst, dirty, imported), Stored)
      /\ QueueFits(calls, inst, gen, disk)
      /\ inst \in HeldIn /\ ~seatLost => phase.status # "untracked"
      /\ releasing # 0 => inst = "storing" /\ ~seatLost
      /\ inst = "storing" => ~dirty
      /\ Distinct(Stored)
      /\ fence = seatFence => AddressFits(replica, calls, inst, Stored)
  BY DEF WritesInv
<1>3. CASE Merge
  <2>1. /\ inst = "ready" /\ imported' /\ Own(replica') = Own(replica) /\ replica \subseteq replica'
        /\ disk' = disk /\ Stored' = Stored
        /\ UNCHANGED <<phase, releasing, seatLost, inst, gen, dirty, retry, calls, fence, seatFence>>
    BY <1>3 DEF Merge, Own, storage, seat, Stored
  <2>2. PhaseFits(phase', replica', calls', retry', Unheard(inst', dirty', imported'), Stored')
    BY <1>2, <2>1 DEF PhaseFits, Unheard
  <2>3. fence' = seatFence' => AddressFits(replica', calls', inst', Stored')
    <3>1. Own(Stored \cup replica' \cup Outgoing(calls)) \subseteq Own(Stored \cup replica \cup Outgoing(calls))
      BY <2>1 DEF Own
    <3>2. fence = seatFence => Distinct(Stored \cup replica' \cup Outgoing(calls))
      BY <1>2, <3>1, DistinctAmongFewer DEF AddressFits
    <3>3. fence = seatFence => Own(Stored \cup Outgoing(calls)) \subseteq replica
      BY <1>2, <2>1 DEF AddressFits, HeldIn
    <3>4. QED
      BY <2>1, <3>2, <3>3 DEF AddressFits
  <2>4. QED
    BY <1>2, <2>1, <2>2, <2>3 DEF WritesInv, Leaves
<1>4. CASE Export
  <2> DEFINE high == IF dirty THEN replica ELSE ownHigh
             s    == IF dirty /\ ~seatLost THEN OnStateAdvanced(phase) ELSE Ignored(phase)
             n    == [Now EXCEPT !.ownHigh = high]
  <2>1. /\ Held /\ ~dirty' /\ imported' = imported /\ Dispatch(s, n)
        /\ UNCHANGED storage /\ UNCHANGED <<gen, seatLost, fence, seatFence>>
    BY <1>4 DEF Export, seat
  <2>2. /\ n \in Shells /\ n.inst = inst /\ n.calls = calls /\ n.replica = replica
        /\ n.releasing = releasing /\ n.retry = retry
    BY <1>1 DEF Shells, TypeOK
  <2>3. StepOK(s, Stored') /\ Stored' = Stored
    BY <2>1, UnchangedGrows, PhaseInputs DEF storage, Stored
  <2>4. inst \in HeldIn
    BY <2>1 DEF Held, HeldIn
  <2>5. /\ StepFits(s, replica, calls, retry, Unheard(inst, FALSE, imported), Stored)
        /\ ~seatLost => s.phase.status # "untracked"
    <3>1. CASE seatLost
      <4>1. phase = Untracked /\ s = Ignored(phase)
        BY <3>1 DEF StoreFirstInv, TrackedOK
      <4>2. Silent(s)
        BY <4>1, UntrackedIsSilent
      <4> HIDE DEF s
      <4>3. QED
        BY <3>1, <4>2, SilentFits
    <3>2. CASE ~seatLost /\ dirty
      <4> DEFINE u == Unheard(inst, FALSE, imported)
                 st == Stored
      <4>1. s = OnStateAdvanced(phase)
        BY <3>2
      <4> HIDE DEF u, s, st
      <4>2. /\ StepFits(OnStateAdvanced(phase), replica, calls, retry, u, st)
            /\ StepFits(OnCompact(phase), replica, calls, retry, u, st)
            /\ phase.status # "untracked" => /\ OnStateAdvanced(phase).phase.status = "writing"
                                             /\ OnCompact(phase).phase.status = "writing"
        BY <1>1, <1>2, AsksFit
      <4>3. QED
        BY <1>2, <2>4, <3>2, <4>1, <4>2 DEF u, st
    <3>3. CASE ~seatLost /\ ~dirty
      <4> DEFINE u == Unheard(inst, FALSE, imported)
                 st == Stored
      <4>1. s = Ignored(phase) /\ Ignored(phase).phase = phase
        BY <3>3 DEF Ignored, Step
      <4>2. u \in BOOLEAN /\ PhaseFits(phase, replica, calls, retry, u, st) /\ st \subseteq st
        <5>1. dirty = FALSE
          BY <1>1, <3>3
        <5>2. QED
          BY <1>2, <5>1 DEF Unheard
      <4> HIDE DEF u, s, st
      <4>3. StepFits(Ignored(phase), replica, calls, retry, u, st)
        BY <1>1, <4>2, IgnoredFits
      <4>4. QED
        BY <1>2, <2>4, <3>3, <4>1, <4>3 DEF u, st
    <3>4. QED
      BY <3>1, <3>2, <3>3
  <2>6. dirty' = FALSE
    BY <1>4 DEF Export
  <2> HIDE DEF s, n
  <2>7. StepFits(s, replica, calls, n.retry, Unheard(n.inst, dirty', imported'), Stored')
    BY <2>1, <2>2, <2>3, <2>5, <2>6
  <2>8. QED
    BY <1>2, <2>1, <2>2, <2>3, <2>4, <2>5, <2>7, PlainWrites
<1>5. QED
  BY <1>3, <1>4 DEF Network

\* What the queue holds once its head was applied, or dropped, is what it held.
LEMMA AppliedOutgoing ==
  ASSUME TypeOK, WritesInv, calls # <<>>,
         \/ UNCHANGED storage
         \/ Head(calls).kind \in {"append", "replace"} /\ Applied(Head(calls))
  PROVE  Own(Stored' \cup Outgoing(Tail(calls))) \subseteq Own(Stored \cup Outgoing(calls))
<1>1. calls \in Seq(Call) /\ QueueFits(calls, inst, gen, disk) /\ Head(calls) \in Call
  BY DequeuedTyped DEF TypeOK, WritesInv
<1>2. /\ Outgoing(Tail(calls)) \subseteq Outgoing(calls)
      /\ Head(calls).kind \in {"append", "replace"} => Head(calls).ops \subseteq Outgoing(calls)
  BY <1>1, TailFits
<1>3. Head(calls).through \in Nat
  BY <1>1 DEF Call
<1>4. Stored' \subseteq Stored \cup Outgoing(calls)
  BY <1>2, <1>3, AppliedBounds DEF storage, Stored
<1>5. QED
  BY <1>2, <1>4 DEF Own

\* The store's answers.
LEMMA StoreCallsKeepWrites ==
  ASSUME TypeOK, TypeOK', StoreFirstInv, WritesInv, StoreCalls
  PROVE  WritesInv' /\ Leaves
<1>1. /\ phase \in Phase /\ replica \in Version /\ retry \in BOOLEAN /\ calls \in Seq(Call) /\ gen \in Nat
      /\ calls # <<>> => Head(calls) = calls[1] /\ 1 \in DOMAIN calls
  BY TailAt DEF TypeOK
<1>2. /\ PhaseFits(phase, replica, calls, retry, Unheard(inst, dirty, imported), Stored)
      /\ QueueFits(calls, inst, gen, disk)
      /\ inst \in HeldIn /\ ~seatLost => phase.status # "untracked"
      /\ releasing # 0 => inst = "storing" /\ ~seatLost
      /\ inst = "storing" => ~dirty
      /\ Distinct(Stored)
      /\ fence = seatFence => AddressFits(replica, calls, inst, Stored)
  BY DEF WritesInv
<1>3. TrackedOK /\ QueueOK(calls, gen, disk, mark) /\ DeleteOK(calls, inst, gen) /\ SeatOK
  BY DEF StoreFirstInv
<1> DEFINE c == Head(calls)
<1>4. CASE WriteDone
  <2> DEFINE s == OnWriteSucceeded(phase, c.version)
  <2>1. /\ calls # <<>> /\ c.kind \in {"append", "replace"} /\ Applied(c) /\ fence = seatFence
        /\ Dispatch(s, Dequeued)
        /\ UNCHANGED <<gen, seatLost, dirty, imported, fence, seatFence>>
    BY <1>4 DEF WriteDone, HeadIs, SeatHeld, seat
  <2>2. c \in Call /\ CallOK(c, gen, disk, mark)
    BY <2>1, HeadOK
  <2>3. Grows /\ c.version \subseteq Stored' /\ c.version \in Version
    BY <2>1, <2>2, AppliedGrows DEF Call, Version
  <2>4. StepOK(s, Stored') /\ (inst \notin HeldIn => Silent(s))
    BY <1>3, <2>3, PhaseInputs, VersionInputsOK, UntrackedIsSilent DEF TrackedOK
  <2>5. Own(Stored' \cup Outgoing(Tail(calls))) \subseteq Own(Stored \cup Outgoing(calls))
    BY <2>1, AppliedOutgoing
  <2>6. /\ StepFits(s, replica, Tail(calls), retry, Unheard(inst, dirty, imported), Stored')
        /\ phase.status # "untracked" => s.phase.status # "untracked"
    BY <1>2, <2>1, <2>3, SuccessFits DEF Writes
  <2> HIDE DEF s, c
  <2>7. QED
    BY <2>1, <2>3, <2>4, <2>5, <2>6, AnswerWrites
<1>5. CASE NothingToWrite
  <2> DEFINE s == OnWriteSucceeded(phase, c.version)
  <2>1. /\ calls # <<>> /\ c.kind = "none" /\ Dispatch(s, Dequeued)
        /\ UNCHANGED storage /\ UNCHANGED <<gen, seatLost, dirty, imported, fence, seatFence>>
    BY <1>5 DEF NothingToWrite, HeadIs, seat
  <2>2. c \in Call /\ CallOK(c, gen, disk, mark)
    BY <2>1, HeadOK
  <2>3. Grows /\ Stored' = Stored
    BY <2>1, UnchangedGrows DEF storage, Stored
  <2>4. c.version \in Version /\ c.version \subseteq Stored'
    BY <2>1, <2>2, <2>3 DEF CallOK, Writes, Stored, Call, Version
  <2>5. StepOK(s, Stored') /\ (inst \notin HeldIn => Silent(s))
    BY <1>3, <2>3, <2>4, PhaseInputs, VersionInputsOK, UntrackedIsSilent DEF TrackedOK
  <2>6. Own(Stored' \cup Outgoing(Tail(calls))) \subseteq Own(Stored \cup Outgoing(calls))
    BY <2>1, AppliedOutgoing
  <2>7. /\ StepFits(s, replica, Tail(calls), retry, Unheard(inst, dirty, imported), Stored')
        /\ phase.status # "untracked" => s.phase.status # "untracked"
    BY <1>2, <2>1, <2>4, SuccessFits DEF Writes
  <2> HIDE DEF s, c
  <2>8. QED
    BY <2>1, <2>3, <2>5, <2>6, <2>7, AnswerWrites
<1>6. CASE SeatLost
  <2>1. /\ calls # <<>> /\ fence # seatFence /\ seatLost' = TRUE /\ phase' = Untracked /\ releasing' = 0
        /\ calls' = Tail(calls) /\ disk' = disk /\ Stored' = Stored
        /\ UNCHANGED <<inst, gen, replica, dirty, imported, fence, seatFence>>
    BY <1>6 DEF SeatLost, HeadIs, SeatHeld, storage, seat, Stored
  <2>2. PhaseFits(phase', replica', calls', retry', Unheard(inst', dirty', imported'), Stored')
    BY <2>1, UntrackedFits
  <2>3. QueueFits(Tail(calls), inst, gen, disk)
    BY <1>1, <1>2, <2>1, TailFits
  <2>4. QED
    BY <1>2, <2>1, <2>2, <2>3 DEF WritesInv, Leaves
<1>7. CASE MarkRead
  <2> DEFINE d  == [c EXCEPT !.kind = "loadAll", !.through = mark]
             cs == Tail(calls)
  <2>1. /\ calls # <<>> /\ c.kind = "mark" /\ calls' = Append(cs, d) /\ disk' = disk /\ Stored' = Stored
        /\ UNCHANGED <<phase, releasing, seatLost, inst, gen, replica, dirty, imported, retry, fence, seatFence>>
    BY <1>7 DEF MarkRead, HeadIs, storage, seat, Stored
  <2>2. c \in Call /\ c = calls[1] /\ 1 \in DOMAIN calls /\ mark \in Nat /\ cs \in Seq(Call)
    BY <1>1, <2>1, HeadOK DEF TypeOK
  <2>3. \A k \in DOMAIN cs : k + 1 \in DOMAIN calls /\ cs[k] = calls[k + 1]
    BY <1>1, <2>1, TailAt
  <2>4. /\ QueueFits(cs, inst, gen, disk) /\ Outgoing(cs) \subseteq Outgoing(calls)
    BY <1>1, <1>2, <2>1, TailFits
  <2>5. phase.status # "settled" /\ (phase.status = "writing" => Idle(cs))
    <3>1. c.kind \in WriteKinds
      BY <2>1 DEF WriteKinds
    <3>2. QED
      BY <1>2, <2>1, <3>1, HeadInFlight
  <2> HIDE DEF c, cs
  <2>6. d \in Call /\ d.kind = "loadAll" /\ d.gen = c.gen
    BY <2>2 DEF Call, Kinds
  <2> HIDE DEF d
  <2>7. d.kind \in WriteKinds /\ d.kind \notin Writes /\ d.kind \notin {"append", "replace"} /\ d.kind # "load" /\ d.kind # "replace"
    BY <2>6 DEF WriteKinds, Writes
  <2>8. phase.status = "writing" => One(calls') /\ Covers(calls', replica)
    <3>1. ASSUME phase.status = "writing"
          PROVE  One(Append(cs, d)) /\ Covers(Append(cs, d), replica)
      <4>1. Idle(cs)
        BY <2>5, <3>1
      <4>2. One(Append(cs, d))
        BY <2>2, <2>6, <2>7, <4>1, AddedIsOne
      <4>3. \A k \in DOMAIN Append(cs, d) : Append(cs, d)[k].kind \notin Writes
        BY <2>2, <2>6, <2>7, <4>1, AppendAt DEF Idle, Writes, WriteKinds
      <4>4. QED
        BY <4>2, <4>3 DEF Covers
    <3>2. QED
      BY <2>1, <3>1
  <2>9. PhaseFits(phase', replica', calls', retry', Unheard(inst', dirty', imported'), Stored')
    BY <2>1, <2>5, <2>8 DEF PhaseFits
  <2>10. /\ inst \in HeldIn /\ d.kind \in WriteKinds => d.gen = gen
         /\ inst = "loading" => \A k \in DOMAIN cs : cs[k].gen = gen =>
              /\ cs[k].kind = "load" => d.kind \notin WriteKinds
              /\ cs[k].kind = "writerOf" => d.kind \notin WriteKinds \ {"loadAll"}
         /\ inst = "loading" /\ d.kind = "load" /\ d.gen = gen => \A k \in DOMAIN cs : cs[k].kind # "mark"
         /\ d.kind = "replace" => \A r \in disk : r.at <= d.through => r.readable
    <3>1. c.kind \in WriteKinds
      BY <2>1 DEF WriteKinds
    <3>2. inst \in HeldIn => d.gen = gen
      BY <1>2, <2>2, <2>6, <3>1 DEF QueueFits
    <3>3. ASSUME inst = "loading", NEW k \in DOMAIN cs, cs[k].gen = gen
          PROVE  cs[k].kind # "load"
      <4>1. k + 1 \in DOMAIN calls /\ calls[k + 1].gen = gen /\ cs[k] = calls[k + 1]
        BY <2>3, <3>3
      <4>2. QED
        BY <1>2, <2>1, <2>2, <3>3, <4>1 DEF QueueFits
    <3>4. QED
      BY <2>6, <2>7, <3>2, <3>3
  <2>11. /\ QueueFits(Append(cs, d), inst, gen, disk)
         /\ Outgoing(Append(cs, d)) \subseteq Outgoing(cs) \cup d.ops
         /\ d.kind \notin {"append", "replace"} => Outgoing(Append(cs, d)) \subseteq Outgoing(cs)
    BY <2>2, <2>4, <2>6, <2>10, LongerFits
  <2>12. fence' = seatFence' => AddressFits(replica', calls', inst', Stored')
    <3>1. Own(Stored \cup Outgoing(calls')) \subseteq Own(Stored \cup Outgoing(calls))
      BY <2>1, <2>4, <2>7, <2>11 DEF Own
    <3>2. fence = seatFence => AddressFits(replica, calls', inst, Stored)
      BY <1>2, <3>1, FewerFit
    <3>3. QED
      BY <2>1, <3>2
  <2>13. QED
    BY <1>2, <2>1, <2>9, <2>11, <2>12 DEF WritesInv, Leaves
<1>8. CASE CompactionRead
  <2>1. /\ calls # <<>> /\ c.kind = "loadAll" /\ disk' = disk /\ Stored' = Stored /\ UNCHANGED storage
        /\ UNCHANGED <<gen, seatLost, dirty, imported, fence, seatFence>>
    BY <1>8 DEF CompactionRead, HeadIs, storage, seat, Stored
  <2>2. c \in Call /\ c = calls[1] /\ 1 \in DOMAIN calls /\ Tail(calls) \in Seq(Call)
    BY <1>1, <2>1, HeadOK
  <2>3. c.kind \in WriteKinds
    BY <2>1 DEF WriteKinds
  <2>4. CASE Held /\ c.gen = gen
    <3> DEFINE taken == replica \cup Stored
               whole == [c EXCEPT !.kind = "replace", !.ops = taken, !.version = taken]
               w     == IF ConfirmedVersion(phase) = Nothing THEN "register" ELSE "since"
               next  == IF \A r \in disk : r.readable THEN whole ELSE Prepared(w, phase, taken)
               cs    == Tail(calls)
    <3>1. /\ replica' = taken /\ calls' = Append(cs, next) /\ inst \in HeldIn /\ inst # "loading"
          /\ UNCHANGED <<phase, releasing, inst, retry>>
      BY <1>8, <2>4 DEF CompactionRead, Held, HeldIn
    <3>2. taken \in Version
      BY StoredTyped DEF TypeOK, Version
    <3>3. /\ QueueFits(cs, inst, gen, disk) /\ Outgoing(cs) \subseteq Outgoing(calls)
      BY <1>1, <1>2, <2>1, TailFits
    <3>4. phase.status # "settled" /\ (phase.status = "writing" => Idle(cs))
      BY <1>2, <2>1, <2>3, HeadInFlight
    <3>5. /\ next \in Call /\ next.gen = gen /\ next.kind \in WriteKinds
          /\ next.kind \in Writes => next.version = taken
          /\ next.ops \subseteq taken
          /\ next.kind = "replace" => \A r \in disk : r.readable
      <4>1. CASE \A r \in disk : r.readable
        <5>1. next = whole
          BY <4>1
        <5> HIDE DEF c, taken
        <5>2. /\ whole \in Call /\ whole.kind = "replace" /\ whole.gen = c.gen
              /\ whole.version = taken /\ whole.ops = taken
          BY <2>2, <3>2 DEF Call, Kinds, Version
        <5>3. QED
          BY <2>4, <4>1, <5>1, <5>2 DEF WriteKinds
      <4>2. CASE ~ \A r \in disk : r.readable
        <5>1. next = Prepared(w, phase, taken)
          BY <4>2
        <5>2. w \in {"register", "since", "compact"}
          OBVIOUS
        <5> HIDE DEF w, taken
        <5>3. /\ Prepared(w, phase, taken) \in Call /\ Prepared(w, phase, taken).gen = gen
              /\ Prepared(w, phase, taken).kind \in {"append", "none", "mark"}
              /\ Prepared(w, phase, taken).kind \in Writes => Prepared(w, phase, taken).version = taken
              /\ Prepared(w, phase, taken).ops \subseteq taken
          BY <1>1, <3>2, <5>2, PreparedFits
        <5> HIDE DEF next
        <5>4. QED
          BY <5>1, <5>3 DEF WriteKinds
      <4>3. QED
        BY <4>1, <4>2
    <3>6. replica \subseteq taken /\ Stored \subseteq taken /\ taken = replica \cup Stored
      OBVIOUS
    <3> HIDE DEF c, next, taken, cs
    <3>7. phase.status = "writing" => One(calls') /\ Covers(calls', taken)
      <4>1. ASSUME phase.status = "writing"
            PROVE  One(Append(cs, next)) /\ Covers(Append(cs, next), taken)
        <5>1. Idle(cs) /\ cs \in Seq(Call)
          BY <2>2, <3>4, <4>1 DEF cs
        <5>2. One(Append(cs, next))
          BY <3>5, <5>1, AddedIsOne
        <5>3. ASSUME NEW k \in DOMAIN Append(cs, next), Append(cs, next)[k].kind \in Writes
              PROVE  taken \subseteq Append(cs, next)[k].version
          <6>1. Append(cs, next)[k].kind \in WriteKinds
            BY <5>3 DEF Writes, WriteKinds
          <6>2. Append(cs, next)[k] = next
            BY <3>5, <5>1, <6>1, AppendAt DEF Idle
          <6>3. QED
            BY <3>5, <5>3, <6>2
        <5>4. QED
          BY <5>2, <5>3 DEF Covers
      <4>2. QED
        BY <3>1, <4>1
    <3>8. PhaseFits(phase', replica', calls', retry', Unheard(inst', dirty', imported'), Stored')
      BY <3>1, <3>4, <3>7 DEF PhaseFits
    <3>9. cs \in Seq(Call)
      BY <2>2 DEF cs
    <3>10. /\ QueueFits(Append(cs, next), inst, gen, disk)
           /\ Outgoing(Append(cs, next)) \subseteq Outgoing(cs) \cup next.ops
      BY <3>1, <3>3, <3>5, <3>9, LongerFits
    <3>11. fence' = seatFence' => AddressFits(replica', calls', inst', Stored')
      <4>1. SUFFICES ASSUME fence = seatFence
                     PROVE  AddressFits(taken, Append(cs, next), inst, Stored)
        BY <2>1, <3>1
      <4>2. AddressFits(replica, calls, inst, Stored)
        BY <1>2, <4>1
      <4>3. Own(Stored \cup taken \cup Outgoing(Append(cs, next)))
              \subseteq Own(Stored \cup replica \cup Outgoing(calls))
        BY <3>3, <3>5, <3>6, <3>10 DEF Own
      <4>4. Distinct(Stored \cup taken \cup Outgoing(Append(cs, next)))
        BY <4>2, <4>3, DistinctAmongFewer DEF AddressFits
      <4>5. Own(Stored \cup Outgoing(Append(cs, next))) \subseteq taken
        BY <3>1, <3>3, <3>5, <3>6, <3>10, <4>2 DEF AddressFits, Own
      <4>6. QED
        BY <4>4, <4>5 DEF AddressFits
    <3>12. QED
      BY <1>2, <2>1, <3>1, <3>8, <3>10, <3>11 DEF WritesInv, Leaves
  <2>5. CASE ~(Held /\ c.gen = gen)
    <3> DEFINE s == OnWriteFailed(phase)
    <3>1. Dispatch(s, Dequeued)
      BY <1>8, <2>5 DEF CompactionRead
    <3>2. Grows /\ StepOK(s, Stored') /\ (inst \notin HeldIn => Silent(s))
      BY <2>1, UnchangedGrows, PhaseInputs
    <3>3. Own(Stored' \cup Outgoing(Tail(calls))) \subseteq Own(Stored \cup Outgoing(calls))
      BY <2>1, AppliedOutgoing
    <3>4. /\ StepFits(s, replica, Tail(calls), retry, Unheard(inst, dirty, imported), Stored')
          /\ phase.status # "untracked" => s.phase.status # "untracked"
      BY <1>2, <2>1, <2>3, FailureFits
    <3> HIDE DEF s, c
    <3>5. QED
      BY <2>1, <3>1, <3>2, <3>3, <3>4, AnswerWrites
  <2>6. QED
    BY <2>4, <2>5
<1>9. CASE WriterRead
  <2> DEFINE d  == [c EXCEPT !.kind = "load"]
             cs == Tail(calls)
  <2>1. /\ calls # <<>> /\ c.kind = "writerOf" /\ calls' = Append(cs, d) /\ disk' = disk /\ Stored' = Stored
        /\ UNCHANGED <<phase, releasing, seatLost, inst, gen, replica, dirty, imported, retry, fence, seatFence>>
    BY <1>9 DEF WriterRead, HeadIs, storage, seat, Stored
  <2>2. c \in Call /\ c = calls[1] /\ 1 \in DOMAIN calls /\ cs \in Seq(Call)
    BY <1>1, <2>1, HeadOK
  <2>3. \A k \in DOMAIN cs : k \in Nat /\ k + 1 \in DOMAIN calls /\ cs[k] = calls[k + 1] /\ 1 < k + 1
    BY <1>1, <2>1, TailAt
  <2>4. /\ QueueFits(cs, inst, gen, disk) /\ Outgoing(cs) \subseteq Outgoing(calls)
    BY <1>1, <1>2, <2>1, TailFits
  <2>5. PhaseFits(phase, replica, cs, retry, Unheard(inst, dirty, imported), Stored)
    <3>1. c.kind \notin WriteKinds
      BY <2>1 DEF WriteKinds
    <3>2. QED
      BY <1>1, <1>2, <2>1, <3>1, DroppedFits
  <2> HIDE DEF c, cs
  <2>6. d \in Call /\ d.kind = "load" /\ d.gen = c.gen
    BY <2>2 DEF Call, Kinds
  <2> HIDE DEF d
  <2>7. d.kind \notin WriteKinds /\ d.kind \notin {"append", "replace"}
    BY <2>6 DEF WriteKinds
  <2>8. PhaseFits(phase, replica, Append(cs, d), retry, Unheard(inst, dirty, imported), Stored)
    BY <2>2, <2>5, <2>6, <2>7, AddedFits
  <2>9. inst = "loading" /\ d.kind = "load" /\ d.gen = gen => \A k \in DOMAIN cs : cs[k].kind # "mark"
    <3>1. ASSUME inst = "loading", d.gen = gen, NEW k \in DOMAIN cs
          PROVE  cs[k].kind # "mark"
      <4>1. k + 1 \in DOMAIN calls /\ cs[k] = calls[k + 1] /\ 1 < k + 1
        BY <2>3
      <4>2. calls[1].gen = gen /\ calls[1].kind = "writerOf"
        BY <2>1, <2>2, <2>6, <3>1
      <4>3. calls[k + 1].kind \notin WriteKinds \ {"loadAll"}
        BY <1>2, <2>2, <3>1, <4>1, <4>2 DEF QueueFits
      <4>4. QED
        BY <4>1, <4>3 DEF WriteKinds
    <3>2. QED
      BY <3>1
  <2>10. /\ QueueFits(Append(cs, d), inst, gen, disk)
         /\ Outgoing(Append(cs, d)) \subseteq Outgoing(cs) \cup d.ops
         /\ d.kind \notin {"append", "replace"} => Outgoing(Append(cs, d)) \subseteq Outgoing(cs)
    BY <2>2, <2>4, <2>6, <2>7, <2>9, LongerFits
  <2>11. fence' = seatFence' => AddressFits(replica', calls', inst', Stored')
    <3>1. Own(Stored \cup Outgoing(calls')) \subseteq Own(Stored \cup Outgoing(calls))
      BY <2>1, <2>4, <2>7, <2>10 DEF Own
    <3>2. fence = seatFence => AddressFits(replica, calls', inst, Stored)
      BY <1>2, <3>1, FewerFit
    <3>3. QED
      BY <2>1, <3>2
  <2>12. QED
    BY <1>2, <2>1, <2>8, <2>10, <2>11 DEF WritesInv, Leaves
<1>10. CASE Loaded
  <2>1. /\ calls # <<>> /\ c.kind = "load" /\ disk' = disk /\ Stored' = Stored /\ UNCHANGED storage
        /\ UNCHANGED <<gen, seatLost, dirty, imported, fence, seatFence>>
    BY <1>10 DEF Loaded, HeadIs, storage, seat, Stored
  <2>2. CASE inst = "loading" /\ c.gen = gen
    <3> DEFINE taken == replica \cup Stored
               found == \E r \in disk : r.readable
               s     == IF found THEN OnHydrated(phase, LoadedVersion(taken)) ELSE OnRegister(phase)
               n     == [Dequeued EXCEPT !.inst = "ready", !.replica = taken]
    <3>1. Dispatch(s, n)
      BY <1>10, <2>2 DEF Loaded
    <3>2. StepOK(s, Stored')
      BY <2>1, UnchangedGrows, PhaseInputs, StoredTyped, VersionInputsOK DEF LoadedVersion
    <3>3. phase = Untracked /\ phase.status = "untracked" /\ releasing = 0
      BY <1>2, <1>3, <2>2 DEF TrackedOK, HeldIn, Untracked
    <3>4. taken \in Version /\ Stored \in Version
      BY StoredTyped DEF TypeOK, Version
    <3>5. /\ n \in Shells /\ n.inst = "ready" /\ n.replica = taken /\ n.calls = Tail(calls)
          /\ n.retry = retry /\ n.releasing = 0
      <4> HIDE DEF taken
      <4>1. Dequeued \in Shells /\ Dequeued.calls = Tail(calls) /\ Dequeued.retry = retry /\ Dequeued.releasing = releasing
        BY <2>1, HeadOK DEF Dequeued, Now
      <4>2. QED
        BY <3>3, <3>4, <4>1 DEF Shells
    <3>6. Idle(Tail(calls))
      <4>1. ASSUME NEW k \in DOMAIN Tail(calls)
            PROVE  Tail(calls)[k].kind \notin WriteKinds
        <5>1. k + 1 \in DOMAIN calls /\ Tail(calls)[k] = calls[k + 1] /\ 1 < k + 1
          BY <1>1, <2>1, TailAt
        <5>2. calls[1].gen = gen /\ calls[1].kind = "load" /\ 1 \in DOMAIN calls
          BY <1>1, <2>1, <2>2
        <5>3. QED
          BY <1>2, <2>2, <5>1, <5>2 DEF QueueFits
      <4>2. QED
        BY <4>1 DEF Idle
    <3>7. QueueFits(Tail(calls), "ready", gen, disk)
      BY <3>6 DEF QueueFits, Idle, WriteKinds
    <3>8. fence = seatFence => AddressFits(taken, Tail(calls), "ready", Stored)
      <4>1. Outgoing(Tail(calls)) = {}
        BY <3>6 DEF Outgoing, Idle, WriteKinds
      <4>2. Own(Stored \cup taken \cup Outgoing(Tail(calls))) \subseteq Own(Stored \cup replica \cup Outgoing(calls))
        BY <4>1 DEF Own
      <4>3. fence = seatFence => Distinct(Stored \cup taken \cup Outgoing(Tail(calls)))
        BY <1>2, <4>2, DistinctAmongFewer DEF AddressFits
      <4>4. Own(Stored \cup Outgoing(Tail(calls))) \subseteq taken
        BY <4>1 DEF Own
      <4>5. QED
        BY <4>3, <4>4 DEF AddressFits
    <3>9. /\ StepFits(s, taken, Tail(calls), retry, Unheard("ready", dirty', imported'), Stored')
          /\ s.phase.status = "writing"
      <4> DEFINE u == Unheard("ready", dirty', imported')
                 st == Stored'
                 cs == Tail(calls)
                 v == LoadedVersion(taken)
      <4>1. v \in Version /\ Idle(cs)
        BY <3>4, <3>6 DEF LoadedVersion
      <4>2. s = OnHydrated(phase, v) \/ s = OnRegister(phase)
        OBVIOUS
      <4> HIDE DEF u, st, cs, v, s, taken
      <4>3. /\ StepFits(OnHydrated(phase, v), taken, cs, retry, u, st) /\ OnHydrated(phase, v).phase.status = "writing"
            /\ StepFits(OnRegister(phase), taken, cs, retry, u, st) /\ OnRegister(phase).phase.status = "writing"
        BY <1>1, <3>3, <4>1, LoadsFit
      <4>4. StepFits(s, taken, cs, retry, u, st) /\ s.phase.status = "writing"
        BY <4>2, <4>3
      <4>5. QED
        BY <4>4 DEF u, st, cs
    <3> HIDE DEF s, n, taken, c
    <3>10. NowFits(n, Stored', disk') /\ n.inst \in HeldIn
      BY <2>1, <3>5, <3>7, <3>8 DEF NowFits, HeldIn
    <3>11. StepFits(s, n.replica, n.calls, n.retry, Unheard(n.inst, dirty', imported'), Stored')
      BY <3>5, <3>9
    <3>12. seatLost => phase = Untracked
      BY <3>3
    <3>13. /\ LeftFits /\ (inst' # n.inst => inst' \in {"unloaded", "ready"} /\ n.inst = "storing")
           /\ inst' = "unloaded" /\ n.inst # "unloaded" => n.replica \subseteq Stored'
      BY <3>1, <3>2, <3>9, <3>10, <3>11, <3>12, DispatchFits
    <3>14. inst' = "ready"
      BY <3>5, <3>13
    <3>15. QED
      BY <1>2, <2>1, <3>13, <3>14, LeftKeepsWrites DEF Leaves
  <2>3. CASE ~(inst = "loading" /\ c.gen = gen)
    <3>1. Keeps(Ignored(phase), Dequeued)
      BY <1>10, <2>3 DEF Loaded
    <3>2. /\ phase' = phase /\ inst' = inst /\ replica' = replica /\ calls' = Tail(calls)
          /\ releasing' = releasing /\ retry' = retry
      BY <1>1, <2>1, <3>1, HeadOK DEF Keeps, Ignored, Step, CallsAfter, RetryAfter, Dequeued, Now
    <3>3. c.kind \notin WriteKinds
      BY <2>1 DEF WriteKinds
    <3> HIDE DEF c
    <3>4. Head(calls).kind \notin WriteKinds
      BY <3>3 DEF c
    <3>5. QED
      BY <2>1, <3>2, <3>4, DroppedWrites
  <2>4. QED
    BY <2>2, <2>3
<1>11. CASE DeleteDone
  <2>1. /\ calls # <<>> /\ c.kind = "delete" /\ disk' = {} /\ calls' = Tail(calls)
        /\ UNCHANGED <<phase, releasing, seatLost, inst, gen, replica, dirty, imported, retry, fence, seatFence>>
    BY <1>11 DEF DeleteDone, HeadIs, seat
  <2>2. inst \notin HeldIn
    BY <1>1, <1>3, <2>1 DEF DeleteOK
  <2>3. Stored' = {}
    BY <2>1 DEF Stored, Contents
  <2>4. PhaseFits(phase', replica', calls', retry', Unheard(inst', dirty', imported'), Stored')
    BY <1>3, <2>1, <2>2, UntrackedFits DEF TrackedOK
  <2>5. /\ QueueFits(Tail(calls), inst, gen, disk) /\ Outgoing(Tail(calls)) \subseteq Outgoing(calls)
    BY <1>1, <1>2, <2>1, TailFits
  <2>6. QueueFits(calls', inst', gen', disk')
    BY <2>1, <2>5 DEF QueueFits
  <2>7. fence' = seatFence' => AddressFits(replica', calls', inst', Stored')
    <3>1. Own({} \cup Outgoing(Tail(calls))) \subseteq Own(Stored \cup Outgoing(calls))
      BY <2>5 DEF Own
    <3>2. fence = seatFence => AddressFits(replica, Tail(calls), inst, {})
      BY <1>2, <3>1, FewerFit
    <3>3. QED
      BY <2>1, <2>3, <3>2
  <2>8. Distinct(Stored')
    BY <2>3 DEF Distinct, Own
  <2>9. QED
    BY <1>2, <2>1, <2>4, <2>6, <2>7, <2>8 DEF WritesInv, Leaves
<1>12. QED
  BY <1>4, <1>5, <1>6, <1>7, <1>8, <1>9, <1>10, <1>11 DEF StoreCalls

\* Faults and crashes: a run that starts anew knows of no write, and a dead run's call stores nothing.
LEMMA FaultsKeepWrites ==
  ASSUME TypeOK, TypeOK', StoreFirstInv, WritesInv, Faults
  PROVE  WritesInv' /\ Leaves
<1>1. /\ PhaseFits(phase, replica, calls, retry, Unheard(inst, dirty, imported), Stored)
      /\ releasing # 0 => inst = "storing" /\ ~seatLost
      /\ Distinct(Stored) /\ SeatOK
  BY DEF WritesInv, StoreFirstInv
<1>2. CASE WriteFault
  <2> DEFINE c == Head(calls)
             s == OnWriteFailed(phase)
  <2>1. /\ calls # <<>> /\ c.kind \in WriteKinds /\ Dispatch(s, Dequeued)
        /\ UNCHANGED <<gen, seatLost, dirty, imported, fence, seatFence>>
        /\ UNCHANGED storage \/ (c.kind \in {"append", "replace"} /\ Applied(c) /\ fence = seatFence)
    BY <1>2 DEF WriteFault, HeadIs, SeatHeld, WriteKinds, seat
  <2>2. c \in Call /\ CallOK(c, gen, disk, mark)
    BY <2>1, HeadOK
  <2>3. Own(Stored' \cup Outgoing(Tail(calls))) \subseteq Own(Stored \cup Outgoing(calls))
    BY <2>1, AppliedOutgoing
  <2>4. /\ StepFits(s, replica, Tail(calls), retry, Unheard(inst, dirty, imported), Stored')
        /\ phase.status # "untracked" => s.phase.status # "untracked"
    BY <1>1, <2>1, FailureFits
  <2> HIDE DEF c
  <2>5. Grows
    BY <2>1, <2>2, UnchangedGrows, AppliedGrows
  <2>6. StepOK(s, Stored') /\ (inst \notin HeldIn => Silent(s))
    BY <2>5, PhaseInputs
  <2> HIDE DEF s
  <2>7. QED
    BY <2>1, <2>3, <2>4, <2>5, <2>6, AnswerWrites
<1>3. CASE LoadFault
  BY <1>3, DroppedWrites DEF LoadFault, HeadIs, WriteKinds, seat
<1>4. CASE DeleteFault
  BY <1>4, DroppedWrites DEF DeleteFault, HeadIs, WriteKinds, seat
<1>5. CASE Crash
  <2>1. /\ phase' = Untracked /\ releasing' = 0 /\ seatLost' = FALSE /\ inst' = "absent" /\ replica' = {}
        /\ dirty' = FALSE /\ calls' = <<>> /\ disk' = disk /\ Stored' = Stored
    BY <1>5 DEF Crash, storage, Stored
  <2>2. PhaseFits(phase', replica', calls', retry', Unheard(inst', dirty', imported'), Stored')
    BY <2>1, UntrackedFits
  <2>3. DOMAIN calls' = {}
    BY <2>1
  <2>4. QueueFits(calls', inst', gen', disk') /\ Outgoing(calls') = {}
    BY <2>1, <2>3 DEF QueueFits, Outgoing
  <2>5. AddressFits(replica', calls', inst', Stored')
    <3>1. Own(Stored' \cup replica' \cup Outgoing(calls')) \subseteq Own(Stored)
      BY <2>1, <2>4 DEF Own
    <3>2. Distinct(Stored' \cup replica' \cup Outgoing(calls'))
      BY <1>1, <3>1, DistinctAmongFewer
    <3>3. QED
      BY <2>1, <3>2 DEF AddressFits, HeldIn
  <2>6. QED
    BY <1>1, <2>1, <2>2, <2>4, <2>5 DEF WritesInv, Leaves, HeldIn
<1>6. CASE GhostArrives
  <2>1. PICK g \in ghosts : IF SeatHeld(g.fence) THEN Applied(g.call) ELSE UNCHANGED storage
    BY <1>6 DEF GhostArrives
  <2>2. g.fence < seatFence /\ g.fence \in Nat /\ seatFence \in Nat
    BY <1>1 DEF SeatOK, TypeOK
  <2>3. ~SeatHeld(g.fence)
    BY <2>2 DEF SeatHeld
  <2>4. UNCHANGED memory /\ disk' = disk /\ Stored' = Stored /\ UNCHANGED <<fence, seatFence>>
    BY <1>6, <2>1, <2>3 DEF GhostArrives, storage, Stored
  <2>5. QED
    BY <2>4 DEF WritesInv, Leaves, memory
<1>7. QED
  BY <1>2, <1>3, <1>4, <1>5, <1>6 DEF Faults

\* The other processes: none of them touches what this one holds, and one that took its seat is the only to
\* issue at its addresses.
LEMMA OthersKeepWrites ==
  ASSUME TypeOK, TypeOK', StoreFirstInv, WritesInv, Others
  PROVE  WritesInv' /\ Leaves
<1>1. Grows
  BY OthersGrow
<1>2. UNCHANGED memory /\ fence' = fence
  BY DEF Others, SeatTaken, RivalWrites, OtherSeatAppends, OtherSeatCompacts, seat
<1>3. /\ PhaseFits(phase, replica, calls, retry, Unheard(inst, dirty, imported), Stored)
      /\ QueueFits(calls, inst, gen, disk) /\ QueueOK(calls, gen, disk, mark)
      /\ Distinct(Stored) /\ SeatOK
      /\ fence = seatFence => AddressFits(replica, calls, inst, Stored)
      /\ calls \in Seq(Call)
  BY DEF WritesInv, StoreFirstInv, TypeOK
<1>4. PhaseFits(phase, replica, calls, retry, Unheard(inst, dirty, imported), Stored')
  BY <1>1, <1>3 DEF PhaseFits, Grows
<1>5. QueueFits(calls, inst, gen, disk')
  BY <1>1, <1>3, GrowthKeepsFits
<1>6. Distinct(Stored') /\ (fence = seatFence' => AddressFits(replica, calls, inst, Stored'))
  <2>1. CASE SeatTaken
    <3>1. fence = seatFence /\ seatFence' = seatFence + 1 /\ Stored' = Stored
      BY <2>1 DEF SeatTaken, storage, Stored
    <3>2. seatFence \in Nat
      BY DEF TypeOK
    <3>3. QED
      BY <1>3, <3>1, <3>2
  <2>2. CASE RivalWrites
    <3>1. PICK p \in 1 .. MaxOwn :
            NextPos(Stored, p) /\ disk' = Appended({[by |-> "own", pos |-> p, run |-> MaxRuns + seatFence]})
      BY <2>2 DEF RivalWrites
    <3> DEFINE o == [by |-> "own", pos |-> p, run |-> MaxRuns + seatFence]
    <3>2. fence # seatFence /\ seatFence' = seatFence
      BY <2>2 DEF RivalWrites, seat
    <3>3. o.pos = p /\ p \in Nat
      BY BoundsAssumption
    <3>4. \A q \in Own(Stored) : q.pos < p /\ q.pos \in Nat
      BY <3>1, StoredTyped DEF NextPos, Own, Version, Op
    <3>5. Stored' \subseteq Stored \cup {o}
      <4> HIDE DEF o
      <4>1. disk' = disk \cup {[at |-> mark + 1, ops |-> {o}, readable |-> TRUE]}
        BY <3>1 DEF Appended, o
      <4>2. QED
        BY <4>1 DEF Stored, Contents
    <3> HIDE DEF o
    <3>6. \A a, b \in Own(Stored) \cup {o} : a.pos = b.pos => a = b
      BY <1>3, <3>3, <3>4 DEF Distinct
    <3>7. Own(Stored') \subseteq Own(Stored) \cup {o}
      BY <3>5 DEF Own
    <3>8. Distinct(Stored')
      BY <3>6, <3>7 DEF Distinct
    <3>9. QED
      BY <3>2, <3>8
  <2>3. CASE OtherSeatAppends \/ OtherSeatCompacts
    <3>1. seatFence' = seatFence
      BY <2>3 DEF OtherSeatAppends, OtherSeatCompacts, seat
    <3>2. Own(Stored') \subseteq Own(Stored)
      <4>1. CASE OtherSeatAppends
        <5>1. ASSUME NEW k \in 1 .. MaxOther, disk' = Appended({[by |-> "other", pos |-> k, run |-> 0]})
              PROVE  Own(Stored') \subseteq Own(Stored)
          BY <5>1 DEF Appended, Stored, Contents, Own
        <5>2. ASSUME disk' = disk \cup {[at |-> mark + 1, ops |-> {}, readable |-> FALSE]}
              PROVE  Own(Stored') \subseteq Own(Stored)
          BY <5>2 DEF Stored, Contents, Own
        <5>3. QED
          BY <4>1, <5>1, <5>2 DEF OtherSeatAppends
      <4>2. CASE OtherSeatCompacts
        <5>1. PICK m \in {r.at : r \in disk} :
                disk' = (disk \ {r \in disk : r.at <= m})
                          \cup {[at |-> mark + 1, ops |-> Contents({r \in disk : r.at <= m}), readable |-> TRUE]}
          BY <4>2 DEF OtherSeatCompacts
        <5>2. Contents({r \in disk : r.at <= m}) \subseteq Stored
          BY DEF Stored, Contents
        <5> DEFINE ops == Contents({r \in disk : r.at <= m})
        <5>3. disk' \subseteq disk \cup {[at |-> mark + 1, ops |-> ops, readable |-> TRUE]}
          BY <5>1
        <5> HIDE DEF ops
        <5>4. Stored' \subseteq Stored \cup ops
          BY <5>3 DEF Stored, Contents
        <5>5. QED
          BY <5>2, <5>4 DEF Own, ops
      <4>3. QED
        BY <2>3, <4>1, <4>2
    <3>3. Own(Stored' \cup Outgoing(calls)) \subseteq Own(Stored \cup Outgoing(calls))
      BY <3>2 DEF Own
    <3>4. fence = seatFence => AddressFits(replica, calls, inst, Stored')
      BY <1>3, <3>3, FewerFit
    <3>5. Distinct(Stored')
      BY <1>3, <3>2, DistinctAmongFewer
    <3>6. QED
      BY <3>1, <3>4, <3>5
  <2>4. QED
    BY <2>1, <2>2, <2>3 DEF Others
<1>7. QED
  BY <1>2, <1>4, <1>5, <1>6 DEF WritesInv, Leaves, memory

\* The initial state satisfies the invariant.
LEMMA WritesInit ==
  ASSUME Init
  PROVE  WritesInv
<1>1. /\ calls = <<>> /\ DOMAIN calls = {} /\ replica = {} /\ phase = Untracked /\ inst = "absent"
      /\ disk = {} /\ releasing = 0 /\ Stored = {}
  BY DEF Init, Stored, Contents
<1>2. PhaseFits(phase, replica, calls, retry, Unheard(inst, dirty, imported), Stored)
  BY <1>1, UntrackedFits
<1>3. QueueFits(calls, inst, gen, disk) /\ Outgoing(calls) = {}
  BY <1>1 DEF QueueFits, Outgoing
<1>4. AddressFits(replica, calls, inst, Stored) /\ Distinct(Stored)
  BY <1>1, <1>3 DEF AddressFits, Distinct, Own
<1>5. QED
  BY <1>1, <1>2, <1>3, <1>4 DEF WritesInv, HeldIn

\* Every step keeps it, and unloads only what is stored.
LEMMA WritesStep ==
  ASSUME TypeOK, TypeOK', StoreFirstInv, WritesInv, [Next]_vars
  PROVE  WritesInv' /\ Leaves
<1>1. CASE Next
  BY <1>1, DoorsKeepWrites, NetworkKeepsWrites, ShellKeepsWrites, StoreCallsKeepWrites, FaultsKeepWrites,
     OthersKeepWrites DEF Next
<1>2. CASE UNCHANGED vars
  BY <1>2 DEF vars, memory, storage, seat, WritesInv, Leaves, Stored
<1>3. QED
  BY <1>1, <1>2

\* The inductive invariant always holds.
THEOREM WritesCorrect == Spec => []WritesInv
<1>1. Init => WritesInv
  BY WritesInit
<1>2. TypeOK /\ TypeOK' /\ StoreFirstInv /\ WritesInv /\ [Next]_vars => WritesInv'
  BY WritesStep
<1>3. QED
  BY <1>1, <1>2, TypeCorrect, InvCorrect, PTL DEF Spec

-----------------------------------------------------------------------------
(* What follows from it.                                                   *)

\* A document tracked by the store program is held, its phase says which write of its own is under way, and once
\* all is quiet the store holds the replica (store-program.ts, Runtime.#prepareWrite).
LEMMA InvGivesPhase ==
  ASSUME TypeOK, StoreFirstInv, WritesInv
  PROVE  PhaseIsTrue
<1>1. /\ PhaseFits(phase, replica, calls, retry, Unheard(inst, dirty, imported), Stored)
      /\ QueueFits(calls, inst, gen, disk) /\ TrackedOK
      /\ inst \in HeldIn /\ ~seatLost => phase.status # "untracked"
  BY DEF WritesInv, StoreFirstInv
<1>2. phase.status # "untracked" => inst \in HeldIn
  BY <1>1 DEF TrackedOK, Untracked
<1>3. phase.status # "untracked" =>
        {k \in DOMAIN calls : calls[k].kind \in WriteKinds /\ calls[k].gen = gen}
          = {k \in DOMAIN calls : calls[k].kind \in WriteKinds}
  BY <1>1, <1>2 DEF QueueFits
<1>4. OneWriteInFlight
  <2> DEFINE live == {k \in DOMAIN calls : calls[k].kind \in WriteKinds /\ calls[k].gen = gen}
  <2>1. phase.status = "settled" => live = {}
    BY <1>1, <1>3 DEF PhaseFits, Idle
  <2>2. phase.status = "writing" => \E k \in live : live = {k}
    BY <1>1, <1>3 DEF PhaseFits, One
  <2>3. QED
    BY <1>2, <2>1, <2>2 DEF OneWriteInFlight, Held, HeldIn
<1>5. QuietMeansStored
  BY <1>1 DEF QuietMeansStored, IsSettled, PhaseFits, Unheard, HeldIn, TypeOK, Phase
<1>6. QED
  BY <1>4, <1>5 DEF PhaseIsTrue

THEOREM PhaseCorrect == Spec => []PhaseIsTrue
<1>1. TypeOK /\ StoreFirstInv /\ WritesInv => PhaseIsTrue
  BY InvGivesPhase
<1>2. QED
  BY <1>1, TypeCorrect, InvCorrect, WritesCorrect, PTL

\* No address of the seat is issued twice, over every run that used it, whatever was lost, stored or sent
\* (publish-gate.ts, seats.ts).
THEOREM AddressCorrect == Spec => []NoAddressReuse
<1>1. StoreFirstInv /\ WritesInv => NoAddressReuse
  BY DEF StoreFirstInv, StoreFirst, WritesInv, Distinct, NoAddressReuse, Own
<1>2. QED
  BY <1>1, InvCorrect, WritesCorrect, PTL

\* An instance is let go only when the store holds all of it (Runtime, `released`).
THEOREM UnloadCorrect == Spec => UnloadLosesNothing
<1>1. ASSUME TypeOK, TypeOK', StoreFirstInv, WritesInv, [Next]_vars
      PROVE  [inst' = "unloaded" /\ inst # "unloaded" => replica \subseteq Stored']_vars
  BY <1>1, WritesStep DEF Leaves
<1>2. QED
  BY <1>1, TypeCorrect, InvCorrect, WritesCorrect, PTL DEF Spec, UnloadLosesNothing

\* The report of a write an earlier instance asked for finds the document untracked.
LEMMA StaleReport ==
  ASSUME TypeOK, StoreFirstInv, WritesInv, WriteDone \/ NothingToWrite \/ CompactionRead \/ WriteFault,
         Head(calls).gen # gen
  PROVE  phase' = phase
<1>1. calls # <<>> /\ Head(calls).kind \in WriteKinds
  BY DEF WriteDone, NothingToWrite, CompactionRead, WriteFault, HeadIs, WriteKinds
<1>2. calls \in Seq(Call) /\ QueueFits(calls, inst, gen, disk)
      /\ (releasing # 0 => inst = "storing") /\ TrackedOK
  BY DEF TypeOK, WritesInv, StoreFirstInv
<1>3. Head(calls) = calls[1] /\ 1 \in DOMAIN calls
  BY <1>1, <1>2, TailAt
<1>4. inst \notin HeldIn
  BY <1>1, <1>2, <1>3 DEF QueueFits
<1>5. phase = Untracked /\ releasing = 0
  BY <1>2, <1>4 DEF TrackedOK, HeldIn
<1> DEFINE s == OnWriteSucceeded(phase, Head(calls).version)
           f == OnWriteFailed(phase)
<1>6. Silent(s) /\ Silent(f) /\ Silent(Ignored(phase))
  BY <1>5, UntrackedIsSilent
<1>7. Dispatch(s, Dequeued) \/ Dispatch(f, Dequeued)
  BY <1>4 DEF WriteDone, NothingToWrite, CompactionRead, WriteFault, Held, HeldIn
<1>8. Dequeued.releasing = 0
  BY <1>5 DEF Dequeued, Now
<1> HIDE DEF s, f
<1>9. QED
  BY <1>5, <1>6, <1>7, <1>8 DEF Dispatch, Keeps, Silent

\* A document takes no report of an instance that was destroyed before it (serial-store.ts).
THEOREM ReportsCorrect == Spec => ReportsAreOurs
<1>1. ASSUME TypeOK, StoreFirstInv, WritesInv
      PROVE  [/\ WriteDone \/ NothingToWrite \/ CompactionRead \/ WriteFault
              /\ Head(calls).gen # gen
              => phase' = phase]_vars
  BY <1>1, StaleReport
<1>2. QED
  BY <1>1, TypeCorrect, InvCorrect, WritesCorrect, PTL DEF ReportsAreOurs

\* What a write leaves of the stream: all that could be read, and all that could not.
KeepsStream == Stored \subseteq Stored' /\ \A r \in disk : ~r.readable => r \in disk'

\* An applied write keeps the stream.
LEMMA AppliedKeeps ==
  ASSUME TypeOK, StoreFirstInv, WritesInv, calls # <<>>,
         Head(calls).kind \in {"append", "replace"}, Applied(Head(calls))
  PROVE  KeepsStream
<1> DEFINE c == Head(calls)
<1>1. c \in Call /\ CallOK(c, gen, disk, mark) /\ c = calls[1] /\ 1 \in DOMAIN calls
  BY HeadOK
<1>2. c.kind = "replace" => \A r \in disk : r.at <= c.through => r.readable
  BY <1>1 DEF WritesInv, QueueFits
<1>3. c.kind \in {"append", "replace"} /\ Applied(c) /\ c.through \in Nat
  BY <1>1 DEF Call
<1> HIDE DEF c
<1>4. Stored \subseteq Stored'
  BY <1>1, <1>3, AppliedGrows DEF Grows
<1>5. \A r \in disk : ~r.readable => r \in disk'
  BY <1>2, <1>3, AppliedBounds
<1>6. QED
  BY <1>4, <1>5 DEF KeepsStream

\* Every step but a delete keeps it.
LEMMA StepKeepsStream ==
  ASSUME TypeOK, StoreFirstInv, WritesInv, [Next]_vars, ~HeadIs("delete")
  PROVE  KeepsStream
<1>1. UNCHANGED storage => KeepsStream
  BY DEF storage, KeepsStream, Stored
<1>2. CASE Doors \/ Network \/ Shell
  BY <1>1, <1>2 DEF Doors, Get, WriteWhileLoading, LocalWrite, Compact, Unload, Reopen, Destroy,
                    Network, Merge, Export, Shell, Drain, QuietPoint, RetryFires
<1>3. CASE StoreCalls
  <2>1. CASE WriteDone
    BY <2>1, AppliedKeeps DEF WriteDone, HeadIs
  <2>2. CASE ~WriteDone
    BY <1>1, <1>3, <2>2 DEF StoreCalls, NothingToWrite, SeatLost, MarkRead, CompactionRead, WriterRead, Loaded, DeleteDone
  <2>3. QED
    BY <2>1, <2>2
<1>4. CASE Faults
  <2>1. CASE WriteFault
    <3>1. UNCHANGED storage \/ (calls # <<>> /\ Head(calls).kind \in {"append", "replace"} /\ Applied(Head(calls)))
      BY <2>1 DEF WriteFault, HeadIs
    <3>2. QED
      BY <1>1, <3>1, AppliedKeeps
  <2>2. CASE GhostArrives
    <3>1. PICK g \in ghosts : IF SeatHeld(g.fence) THEN Applied(g.call) ELSE UNCHANGED storage
      BY <2>2 DEF GhostArrives
    <3>2. g.fence < seatFence /\ g.fence \in Nat /\ seatFence \in Nat
      BY DEF StoreFirstInv, SeatOK, TypeOK
    <3>3. QED
      BY <1>1, <3>1, <3>2 DEF SeatHeld
  <2>3. CASE LoadFault \/ DeleteFault \/ Crash
    BY <1>1, <2>3 DEF LoadFault, DeleteFault, Crash
  <2>4. QED
    BY <1>4, <2>1, <2>2, <2>3 DEF Faults
<1>5. CASE Others
  <2>1. Stored \subseteq Stored'
    BY <1>5, OthersGrow DEF Grows
  <2>2. \A r \in disk : ~r.readable => r \in disk'
    <3>1. CASE OtherSeatCompacts
      BY <3>1 DEF OtherSeatCompacts
    <3>2. CASE SeatTaken \/ RivalWrites \/ OtherSeatAppends
      BY <3>2 DEF SeatTaken, RivalWrites, OtherSeatAppends, Appended, storage
    <3>3. QED
      BY <1>5, <3>1, <3>2 DEF Others
  <2>3. QED
    BY <2>1, <2>2 DEF KeepsStream
<1>6. CASE UNCHANGED vars
  BY <1>1, <1>6 DEF vars
<1>7. QED
  BY <1>2, <1>3, <1>4, <1>5, <1>6 DEF Next

\* Only a delete takes anything from the stream: no write, no compaction of any process, no call of a dead run.
THEOREM NothingLostCorrect == Spec => NothingStoredIsLost
<1>1. ASSUME TypeOK, StoreFirstInv, WritesInv, [Next]_vars
      PROVE  [/\ ~HeadIs("delete")
              => /\ Stored \subseteq Stored'
                 /\ \A r \in disk : ~r.readable => r \in disk']_vars
  BY <1>1, StepKeepsStream DEF KeepsStream
<1>2. QED
  BY <1>1, TypeCorrect, InvCorrect, WritesCorrect, PTL DEF Spec, NothingStoredIsLost
=============================================================================
