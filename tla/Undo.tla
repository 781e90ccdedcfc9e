-------------------------------- MODULE Undo --------------------------------
(***************************************************************************)
(* An undo stack over the documents of one process: the undo program       *)
(* (packages/exchange/src/undo/undo-program.ts), its shell (stack.ts) and   *)
(* the undo of plain documents (plain-revertible.ts).  The stack is itself *)
(* a stored document; every document is stored by itself, in no order, and *)
(* the process may end between any two steps.                              *)
(*                                                                         *)
(* A document is its log of batches; a batch is a sequence of writes, n    *)
(* for making write n and -n for taking it back.  Its head is the length   *)
(* of the log: a plain version, of the one lineage it has since its first  *)
(* batch.  The footprint of a plain document is the whole of it, so two    *)
(* steps overlap when they have a document in common.                      *)
(***************************************************************************)
EXTENDS Integers, Sequences, SequencesExt, FiniteSets, FiniteSetsExt

CONSTANTS
  Doc,
  Depth,        \* steps each list keeps
  MaxWrites,    \* bound: gestures, typing edits and writes outside the stack
  MaxRequests,  \* bound: undo and redo requests
  MaxCrashes,
  MaxLeaves,    \* bound: documents unloaded or destroyed
  MaxFaults     \* bound: loads and writes that fail while a request waits for them

ASSUME UndoAssumption ==
  /\ IsFiniteSet(Doc) /\ Depth \in Nat \ {0}
  /\ {MaxWrites, MaxRequests, MaxCrashes, MaxLeaves, MaxFaults} \subseteq Nat

VARIABLES
  log,          \* the batches of a document
  disk,         \* how many of them its store holds
  here,         \* a document is open, unloaded or destroyed
  stack, saved, \* the undo document, in memory and in its store
  up,           \* the process runs and has its stack
  open,         \* the step being gathered
  queue,        \* requests waiting
  busy,         \* the request, or the recovery, in flight
  writes, requests, crashes, leaves, faults,
  unsaved,      \* the store lacks a step pushed or moved without a stored note
  mess          \* what went on that a stack cannot account for: see Crash, Writes

documents == <<log, disk, here>>
program == <<open, queue, busy>>
counters == <<writes, requests, crashes, leaves, faults>>
ghosts == <<unsaved, mess>>
vars == <<documents, stack, saved, up, program, counters, ghosts>>

Head_(d) == Len(log[d])
IsOpen(d) == here[d] = "open"

-----------------------------------------------------------------------------
(* Records of plain documents. *)

Record(before, after, ops) == [before |-> before, after |-> after, ops |-> ops]

Inverses(ops) == Reverse([i \in DOMAIN ops |-> -ops[i]])

\* A record stands, whole, when the document is where the record left it.
Stands(r, head) == r.after = head

\* One record for two, or none.
Compose(r, s) == IF s.before = r.after THEN <<Record(r.before, s.after, r.ops \o s.ops)>> ELSE <<>>

\* What the revert of a record, from one head to another, leaves to redo.
RedoOf(r, headBefore, headAfter) == Record(headBefore, headAfter, Inverses(r.ops))

\* Faulty variant: only where a record begins is renamed.
RenamedBefore(r, from, to) == [r EXCEPT !.before = IF @ = from THEN to ELSE @]

\* A revert takes the document to a new head, which stands for the one before the record.
Renamed(r, from, to) ==
  [r EXCEPT !.before = IF @ = from THEN to ELSE @, !.after = IF @ = from THEN to ELSE @]

-----------------------------------------------------------------------------
(* The stored stack. *)

Step(id, parts) == [id |-> id, parts |-> parts]
NoStep == Step(0, <<>>)
NoNote == [step |-> 0]
Note(step, dir, whole, at) == [step |-> step, dir |-> dir, whole |-> whole, at |-> at]
EmptyStack == [undo |-> <<>>, redo |-> <<>>, pending |-> NoNote]

Directions == {"undo", "redo"}
Opposite(dir) == IF dir = "undo" THEN "redo" ELSE "undo"

Docs(s) == DOMAIN s.parts
Overlap(s, t) == Docs(s) \cap Docs(t) # {}

FindStep(steps, id) == IF \E i \in DOMAIN steps : steps[i].id = id
                       THEN CHOOSE s \in ToSet(steps) : s.id = id ELSE NoStep

\* The newest step that writes one of ds and that no later step overlaps.
TopStep(steps, ds) ==
  LET free == {i \in DOMAIN steps : /\ Docs(steps[i]) \cap ds # {}
                                   /\ \A j \in DOMAIN steps : j > i => ~Overlap(steps[i], steps[j])}
  IN  IF free = {} THEN NoStep ELSE steps[Max(free)]

Newest(steps) == SubSeq(steps, Len(steps) - Min({Depth, Len(steps)}) + 1, Len(steps))
Bounded(stk) == [stk EXCEPT !.undo = Newest(@), !.redo = Newest(@)]

\* The redo steps that do not build on seed, nor on one that is cleared, from the step redone first.
ClearDependents(redo, seed) ==
  LET walk(s, acc) == IF Docs(s) \cap acc.cleared # {} THEN [acc EXCEPT !.cleared = @ \cup Docs(s)]
                                                      ELSE [acc EXCEPT !.kept = <<s>> \o @]
  IN  FoldRight(walk, redo, [cleared |-> Docs(seed), kept |-> <<>>]).kept

Push(stk, step) == Bounded([stk EXCEPT !.undo = Append(@, step), !.redo = ClearDependents(@, step)])

\* Every step with its records renamed; remap gives a document's old and new head.
Rewritten(steps, remap) ==
  [i \in DOMAIN steps |->
    Step(steps[i].id, [d \in Docs(steps[i]) |->
      IF d \in DOMAIN remap THEN Renamed(steps[i].parts[d], remap[d].from, remap[d].to) ELSE steps[i].parts[d]])]

Without(steps, id) == SelectSeq(steps, LAMBDA s : s.id # id)

\* A step moved to the other list as its redo.
Moved(stk, dir, step, redo, remap) ==
  Bounded([[stk EXCEPT ![dir] = Rewritten(Without(@, step.id), remap)]
              EXCEPT ![Opposite(dir)] = Append(Rewritten(@, remap), redo), !.pending = NoNote])

\* A step dropped; one from the redo list takes what builds on it.
Dropped(stk, dir, step) ==
  Bounded([stk EXCEPT ![dir] = IF dir = "redo" THEN ClearDependents(Without(@, step.id), step) ELSE Without(@, step.id),
                      !.pending = NoNote])

\* The stack with the open step written.
Closed(stk) == IF open = NoStep THEN stk ELSE Push(stk, open)

-----------------------------------------------------------------------------
(* The program. *)

Request(dir, docs, whole) == [dir |-> dir, docs |-> docs, whole |-> whole]
NoRequest == Request("undo", {}, FALSE)
Busy(phase, request, step) == [phase |-> phase, request |-> request, step |-> step]
Idle == Busy("idle", NoRequest, NoStep)

TopFor(stk, request) == TopStep(stk[request.dir], request.docs)

\* Faulty variant: a request nothing is taken for ends the turn.
NextOnce(stk, q) ==
  IF q = <<>> \/ TopFor(stk, q[1]) = NoStep THEN [busy |-> Idle, queue |-> IF q = <<>> THEN q ELSE Tail(q)]
  ELSE [busy |-> Busy("beginning", q[1], TopFor(stk, q[1])), queue |-> Tail(q)]

\* The first request a step can be taken for begins; those before it are answered with none.
NextRequest(stk, q) ==
  LET served == {k \in DOMAIN q : TopFor(stk, q[k]) # NoStep}
      k == Min(served)
  IN  IF served = {} THEN [busy |-> Idle, queue |-> <<>>]
      ELSE [busy |-> Busy("beginning", q[k], TopFor(stk, q[k])), queue |-> SubSeq(q, k + 1, Len(q))]

Proceeds(stk, q) == LET n == NextRequest(stk, q) IN busy' = n.busy /\ queue' = n.queue

Settlement(kept, total, whole) ==
  CASE whole -> IF kept = total THEN "undone" ELSE "refused"
    [] OTHER -> IF kept = 0 /\ total # 0 THEN "dropped" ELSE "undone"

-----------------------------------------------------------------------------

Init ==
  /\ log = [d \in Doc |-> <<<<>>>>] /\ disk = [d \in Doc |-> 1]
  /\ here = [d \in Doc |-> "open"]
  /\ stack = EmptyStack /\ saved = EmptyStack /\ up = TRUE
  /\ open = NoStep /\ queue = <<>> /\ busy = Idle
  /\ writes = 0 /\ requests = 0 /\ crashes = 0 /\ leaves = 0 /\ faults = 0
  /\ unsaved = FALSE /\ mess = {}

(* The application writes. *)

\* Each of ds gets a batch with a new write.
Writes(ds) ==
  /\ up /\ writes < MaxWrites /\ \A d \in ds : IsOpen(d)
  /\ writes' = writes + 1
  /\ log' = [d \in Doc |-> IF d \in ds THEN Append(log[d], <<writes'>>) ELSE log[d]]
  /\ UNCHANGED <<disk, here, saved, up, queue, busy, requests, crashes, leaves, faults>>

Wrote(d) == Record(Head_(d), Head_(d) + 1, <<writes'>>)

\* Documents of the step in flight.
InFlight == IF busy.phase = "recovering" THEN Docs(FindStep(stack[stack.pending.dir], stack.pending.step)) ELSE Docs(busy.step)
\* Those, and the documents of a stored note that is settled in memory but not yet in the store.
Crossing(ds) ==
  IF ds \cap (InFlight \cup IF saved.pending = NoNote THEN {} ELSE DOMAIN saved.pending.at) # {} THEN {"crossed"} ELSE {}

Gesture(ds) ==
  /\ Writes(ds)
  /\ stack' = Push(Closed(stack), Step(writes', [d \in ds |-> Wrote(d)]))
  /\ open' = NoStep
  /\ unsaved' = TRUE /\ mess' = mess \cup Crossing(ds)

\* An edit joins the open step, if that is another edit of the document with which it composes and if it continues it;
\* otherwise it closes it and begins the next.
Typing(d, continues) ==
  LET both == IF open # NoStep /\ Docs(open) = {d} THEN Compose(open.parts[d], Wrote(d)) ELSE <<>>
  IN  /\ Writes({d})
      /\ IF continues /\ both # <<>>
         THEN open' = Step(open.id, [e \in {d} |-> both[1]]) /\ UNCHANGED <<stack, unsaved>>
         ELSE /\ open' = Step(writes', [e \in {d} |-> Wrote(d)])
              /\ stack' = Closed(stack) /\ unsaved' = (unsaved \/ open # NoStep)
      /\ mess' = mess \cup Crossing({d})

GapElapsed ==
  /\ up /\ open # NoStep
  /\ stack' = Closed(stack) /\ open' = NoStep /\ unsaved' = TRUE
  /\ UNCHANGED <<documents, saved, up, queue, busy, counters, mess>>

\* A write neither gesture, typing nor follow hears.
OutsideWrite(d) ==
  /\ Writes({d})
  /\ mess' = mess \cup {"torn"} \cup Crossing({d})
  /\ UNCHANGED <<stack, open, unsaved>>

Leave(d, how) ==
  /\ up /\ IsOpen(d) /\ leaves < MaxLeaves
  /\ here' = [here EXCEPT ![d] = how]
  /\ leaves' = leaves + 1 /\ mess' = mess \cup {"torn"}
  /\ UNCHANGED <<log, disk, stack, saved, up, program, writes, requests, crashes, faults, unsaved>>

Get(d) ==
  /\ up /\ here[d] = "unloaded"
  /\ here' = [here EXCEPT ![d] = "open"]
  /\ UNCHANGED <<log, disk, stack, saved, up, program, counters, ghosts>>

(* Requests. *)

Requested(request) ==
  /\ up /\ requests < MaxRequests
  /\ requests' = requests + 1
  /\ stack' = Closed(stack) /\ open' = NoStep /\ unsaved' = (unsaved \/ open # NoStep)
  /\ IF busy = Idle THEN Proceeds(stack', Append(queue, request))
     ELSE queue' = Append(queue, request) /\ busy' = busy
  /\ UNCHANGED <<documents, saved, up, writes, crashes, leaves, faults, mess>>

\* The documents of the step were opened, those not destroyed; the note is written.
Opened(ds) == [d \in Doc |-> IF d \in ds /\ here[d] = "unloaded" THEN "open" ELSE here[d]]

Began ==
  /\ busy.phase = "beginning"
  /\ here' = Opened(Docs(busy.step))
  /\ stack' = [stack EXCEPT !.pending =
                 Note(busy.step.id, busy.request.dir, busy.request.whole,
                      [d \in {e \in Docs(busy.step) : here'[e] = "open"} |-> Head_(d)])]
  /\ busy' = [busy EXCEPT !.phase = "noting"]
  /\ UNCHANGED <<log, disk, saved, up, open, queue, counters, ghosts>>

\* A document of the step could not be opened: the request is answered with none.
OpenFailed ==
  /\ busy.phase = "beginning" /\ faults < MaxFaults
  /\ faults' = faults + 1
  /\ Proceeds(stack, queue)
  /\ UNCHANGED <<documents, stack, saved, up, open, writes, requests, crashes, leaves, ghosts>>

\* The parts of applying are reverted at the head, those of recovered were since the note; the step moves.
Reverts(dir, step, applying, recovered, at) ==
  LET before(d) == IF d \in recovered THEN at[d] ELSE Head_(d)
      after(d) == IF d \in recovered THEN Head_(d) ELSE Head_(d) + 1
      redo == Step(step.id, [d \in applying \cup recovered |-> RedoOf(step.parts[d], before(d), after(d))])
      remap == [d \in applying \cup recovered |-> [from |-> step.parts[d].before, to |-> after(d)]]
  IN  /\ log' = [d \in Doc |-> IF d \in applying THEN Append(log[d], Inverses(step.parts[d].ops)) ELSE log[d]]
      /\ stack' = Moved(stack, dir, step, redo, remap)

StandingParts(step, places) == {d \in Docs(step) : places[d] = "open" /\ Stands(step.parts[d], Head_(d))}

\* What is decided from the tallies, carried out.
Decides(dir, step, whole, places) ==
  LET standing == StandingParts(step, places)
  IN  IF Settlement(Cardinality(standing), Cardinality(Docs(step)), whole) = "undone"
      THEN Reverts(dir, step, standing, {}, <<>>)
      ELSE log' = log /\ stack' = Dropped(stack, dir, step)

\* The note is stored, or its write failed; the step is planned, and applied or dropped.  One nothing of which stands
\* is dropped and the next is tried.
Noted ==
  LET request == busy.request
      standing == StandingParts(busy.step, here)
      again == Settlement(Cardinality(standing), Cardinality(Docs(busy.step)), request.whole) = "dropped"
  IN  /\ busy.phase = "noting"
      /\ \/ saved = stack /\ faults' = faults
         \/ saved # stack /\ faults < MaxFaults /\ faults' = faults + 1
      /\ Decides(request.dir, busy.step, request.whole, here)
      /\ Proceeds(stack', IF again THEN <<request>> \o queue ELSE queue)
      /\ unsaved' = (unsaved \/ saved.pending # stack.pending)
      /\ UNCHANGED <<disk, here, saved, up, open, writes, requests, crashes, leaves, mess>>

-----------------------------------------------------------------------------
(* Stores, the end of the process, and recovery. *)

\* Told only while a crash may follow: nothing else depends on it.
DocStored(d) ==
  /\ up /\ disk[d] # Head_(d) /\ crashes < MaxCrashes
  /\ disk' = [disk EXCEPT ![d] = Head_(d)]
  /\ UNCHANGED <<log, here, stack, saved, up, program, counters, ghosts>>

StackStored ==
  /\ up /\ saved # stack
  /\ saved' = stack /\ unsaved' = FALSE
  /\ UNCHANGED <<documents, stack, up, program, counters, mess>>

\* The stored stack names a head the document's store has not reached.
IsAhead ==
  \/ \E dir \in Directions : \E s \in ToSet(saved[dir]) : \E d \in Docs(s) : s.parts[d].after > disk[d]
  \/ saved.pending # NoNote /\ \E d \in DOMAIN saved.pending.at : saved.pending.at[d] > disk[d]

Crash ==
  /\ up /\ crashes < MaxCrashes
  /\ crashes' = crashes + 1 /\ up' = FALSE
  /\ log' = [d \in Doc |-> SubSeq(log[d], 1, disk[d])]
  /\ here' = [d \in Doc |-> IF IsOpen(d) THEN "unloaded" ELSE here[d]]
  /\ stack' = saved /\ open' = NoStep /\ queue' = <<>> /\ busy' = Idle
  /\ unsaved' = FALSE
  /\ mess' = mess \cup (IF IsAhead THEN {"ahead"} ELSE {}) \cup (IF unsaved \/ open # NoStep THEN {"torn"} ELSE {})
  /\ UNCHANGED <<disk, saved, writes, requests, leaves, faults>>

Restart ==
  /\ ~up /\ up' = TRUE
  /\ busy' = IF stack.pending = NoNote THEN Idle ELSE Busy("recovering", NoRequest, NoStep)
  /\ UNCHANGED <<documents, stack, saved, open, queue, counters, ghosts>>

\* Faulty variant: a document is taken for reverted though its head is the noted one.
AuthoredAtNote(d, at) == Head_(d) >= at

AuthoredSince(d, at) == Head_(d) > at

\* The note is cleared and nothing else is done.
Abandons == stack' = [stack EXCEPT !.pending = NoNote] /\ log' = log

Recovers ==
  LET note == stack.pending
      step == FindStep(stack[note.dir], note.step)
      authored == {d \in Docs(step) : here'[d] = "open" /\ d \in DOMAIN note.at /\ AuthoredSince(d, note.at[d])}
  IN  /\ busy.phase = "recovering"
      /\ here' = Opened(Docs(step))
      /\ IF step = NoStep THEN Abandons
         ELSE IF authored = {} THEN Decides(note.dir, step, note.whole, here')
         ELSE Reverts(note.dir, step, StandingParts(step, here') \ authored, authored, note.at)
      /\ Proceeds(stack', queue)
      /\ unsaved' = (unsaved \/ saved.pending # stack.pending)
      /\ UNCHANGED <<disk, saved, up, open, counters, mess>>

RecoveryFails ==
  /\ busy.phase = "recovering" /\ faults < MaxFaults
  /\ faults' = faults + 1
  /\ Abandons
  /\ Proceeds(stack', queue)
  /\ mess' = mess \cup {"torn"}
  /\ UNCHANGED <<disk, here, saved, up, open, writes, requests, crashes, leaves, unsaved>>

Next ==
  \/ \E ds \in SUBSET Doc \ {{}} : Gesture(ds)
  \/ \E d \in Doc : \/ \E continues \in BOOLEAN : Typing(d, continues)
                    \/ OutsideWrite(d) \/ Get(d) \/ DocStored(d)
                    \/ \E how \in {"unloaded", "destroyed"} : Leave(d, how)
  \/ GapElapsed
  \/ \E dir \in Directions, whole \in BOOLEAN, ds \in {Doc} \cup {{d} : d \in Doc} : Requested(Request(dir, ds, whole))
  \/ Began \/ OpenFailed \/ Noted \/ StackStored \/ Crash \/ Restart \/ Recovers \/ RecoveryFails

Spec == Init /\ [][Next]_vars

-----------------------------------------------------------------------------
(* Properties. *)

\* Types, and what the two lists, the note and the program say of each other: a step is listed once; a note is written
\* exactly while a revert waits for it or is to be recovered, and names the step in flight; requests wait only for one.
StackSound ==
  /\ log \in [Doc -> Seq(Seq(Int))] /\ \A d \in Doc : disk[d] \in 0 .. Head_(d)
  /\ here \in [Doc -> {"open", "unloaded", "destroyed"}] /\ up \in BOOLEAN /\ mess \subseteq {"ahead", "crossed", "torn"}
  /\ LET ids == [s \in 1 .. 2 |-> [i \in DOMAIN stack[IF s = 1 THEN "undo" ELSE "redo"] |->
                  stack[IF s = 1 THEN "undo" ELSE "redo"][i].id]]
     IN  IsInjective(ids[1] \o ids[2])
  /\ \A dir \in Directions : Len(stack[dir]) <= Depth /\ \A s \in ToSet(stack[dir]) : Docs(s) # {}
  /\ up => (stack.pending # NoNote <=> busy.phase \in {"noting", "recovering"})
  /\ busy.phase = "noting" => stack.pending.step = busy.step.id
  /\ busy = Idle => queue = <<>>

\* How often a write was made, or taken back for -w, in the first n batches of a document.
Times(d, w, n) == Cardinality({i \in 1 .. n : w \in ToSet(log[d][i])})

\* No step is applied twice: whatever is undone, redone and recovered, a write is made only when it is not in effect and
\* taken back only when it is.
NeverTwice ==
  \A d \in Doc : \A i \in DOMAIN log[d] : \A w \in ToSet(log[d][i]) :
    Times(d, w, i - 1) = Times(d, -w, i - 1) - (IF w > 0 THEN 0 ELSE 1)

\* The same, unless a document was written while a revert of it was in flight, or a crash left the stored stack
\* naming heads its documents' stores had not reached.
NeverTwiceUnlessCrossed == mess \cap {"crossed", "ahead"} = {} => NeverTwice

\* The records of a document in a list follow each other up to its head.
Chain(steps, d) ==
  LET on == SelectSeq(steps, LAMBDA s : d \in Docs(s))
  IN  \A i \in DOMAIN on : Stands(on[i].parts[d], IF i = Len(on) THEN Head_(d) ELSE on[i + 1].parts[d].before)

\* An undo is a strict stack: as long as all writes go through the stack, every step in it still stands when its
\* turn comes, through undo, redo, recovery and the heads they rename.
StrictStack ==
  mess = {} /\ up /\ stack.pending = NoNote =>
    \A d \in Doc, dir \in Directions : Chain(Closed(stack)[dir], d)

\* No step is applied twice once its note is settled: what the documentation says of a crash during the store write,
\* also when the user writes to a document of the step meanwhile.
NeverTwiceOnceNoted == "ahead" \notin mess => NeverTwice
=============================================================================
