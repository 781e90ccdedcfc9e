----------------------------- MODULE Lifecycle ------------------------------
(***************************************************************************)
(* One document from its doors to the sync graph and the store: the        *)
(* lifecycle program run by the Runtime's shell, with the three things its *)
(* effects reach.                                                          *)
(*  - `Runtime.#step` is NOT queued: a door called from inside an effect   *)
(*    runs at once, on the committed model, and the outer step goes on     *)
(*    with the effects it has left.                                        *)
(*  - the Synchronizer's and the store program's dispatchers ARE queued: a *)
(*    message sent while one drains waits for its turn.                    *)
(* `stack` is the call stack, its innermost frame first: the effects a step*)
(* has left, a dispatcher at work, or application code called back.        *)
(* Store calls end, and peers ask, only when it is empty.                  *)
(***************************************************************************)
EXTENDS LifecycleProgram, StoreProgram

CONSTANTS
  CallsBack,   \* where the shell calls application code that may use a door
  Stores,      \* the values of hasStore to begin with
  ResumesEarly,\* is a document resumed that is held and not yet registered?
  UnloadsAgain,\* is a document unloaded again while its release is on its way?
  Serves,      \* does this peer serve the documents it unloaded?
  MaxRequests, \* bound: doors used and messages of peers
  MaxFaults    \* bound: store calls that fail

ASSUME VersionAssumption == Nothing # "held"
ASSUME PlacesAssumption == CallsBack \subseteq {"notify", "events", "persisted", "leaving", "close"}
ASSUME LifecycleBounds ==
  /\ Stores \subseteq BOOLEAN /\ {ResumesEarly, UnloadsAgain, Serves} \subseteq BOOLEAN
  /\ MaxRequests \in Nat /\ MaxFaults \in Nat

VARIABLES
  \* the Runtime
  m,          \* the lifecycle model
  instances,  \* #instances: the live objects of each generation; `fresh`: its
              \* replica holds own writes that no store call carries
  dirty,      \* the document is in #dirtyLocalChanges
  stack,      \* the call stack
  over,       \* reset: the store program is disposed
  \* the Synchronizer
  graph,      \* the document's entry in the sync program
  record,     \* #docs: the generation registered, or 0
  recordMode, \* the mode of that registration
  departures, \* #departures
  syncQ,      \* the queue of its outer dispatcher
  events,     \* document events to be emitted at the next tick
  \* the store
  store,      \* the store program's phase
  releasing,  \* the generation to be released, or 0
  storeQ,     \* the queue of the store program's dispatcher
  calls,      \* the document's queue of store calls
  retry,      \* the retry timer is armed
  disk,       \* the store holds the document
  \* bounds and ghosts
  requests, faults,
  dead,       \* replicas that were disposed
  threw       \* a hook threw after the step was committed

runtime == <<m, instances, dirty, over, dead>>
sync    == <<graph, record, recordMode, departures, events>>
storage == <<store, releasing, calls, retry, disk>>
queues  == <<syncQ, storeQ>>
bounds  == <<requests, faults, threw>>
vars    == <<runtime, stack, sync, storage, queues, bounds>>

-----------------------------------------------------------------------------
(* The call stack and the two dispatchers.                                 *)

Frame(kind, todo, before) == [kind |-> kind, todo |-> todo, before |-> before]

Top == Head(stack)
OnTop(kind) == stack # <<>> /\ Top.kind = kind
Busy(kind, base) == \E i \in DOMAIN base : base[i].kind = kind

\* The stack with the innermost frame's next effect taken.
Rest == <<[Top EXCEPT !.todo = Tail(@)]>> \o Tail(stack)

\* Application code is called where it may use a door, while the bound lasts.
\* Only an interpreted document has terms for it to follow.
CallBack(place, tier, base) ==
  IF place \in CallsBack /\ tier = "interpret" /\ requests < MaxRequests
  THEN <<Frame("app", <<>>, Absent)>> \o base ELSE base

ToSync(msg, base) ==
  /\ syncQ' = Append(syncQ, msg)
  /\ stack' = IF Busy("sync", base) THEN base ELSE <<Frame("sync", <<>>, Absent)>> \o base

ToStoreProgram(input, base) ==
  IF over \/ ~m.hasStore
  THEN storeQ' = storeQ /\ stack' = base
  ELSE /\ storeQ' = Append(storeQ, input)
       /\ stack' = IF Busy("store", base) THEN base ELSE <<Frame("store", <<>>, Absent)>> \o base

StoreInput(type, gen) == [type |-> type, gen |-> gen]

\* `carries`: the call carries own writes of the instance `gen`.
StoreCall(kind, gen, carries) == [kind |-> kind, gen |-> gen, carries |-> carries]

-----------------------------------------------------------------------------
(* What the sync program keeps of the document, as far as it matters here. *)

InGraph(mode) == [mode |-> mode, leaving |-> FALSE, suspended |-> FALSE, reloading |-> FALSE]
NoEntry == InGraph("absent")
Syncs(g) == g.mode \in {"interpret", "replicate"}

\* Faulty variant: an ensure always writes the entry afresh.
EnsuredAfresh(g, mode, suspended) == InGraph(mode)

\* doc-ensure: nothing for an unchanged mode; a suspended document has no entry.
Ensured(g, mode, suspended) ==
  IF suspended THEN NoEntry ELSE IF g.mode = mode THEN g ELSE InGraph(mode)

DeferredIn(g) == IF g.mode = "absent" THEN InGraph("deferred") ELSE g

MarkedLeaving(g, on) == IF Syncs(g) THEN [g EXCEPT !.leaving = on] ELSE g

\* doc-leave, as planLeave decides; `known` is whether a record gave metadata.
LeftGraph(g, as, known) ==
  IF as = "unload" /\ (g.mode # "absent" \/ known)
  THEN [InGraph("unloaded") EXCEPT !.suspended = (g.mode = "absent" \/ g.suspended)]
  ELSE NoEntry

Reloads(g) == g.mode = "unloaded" /\ ~g.reloading /\ ~g.suspended /\ Serves

-----------------------------------------------------------------------------
(* A step of the lifecycle program, as a transaction.                      *)

\* #current: the generation of the instance held, if one is.
Current == IF IsHeld(m.entry) THEN {m.entry.gen} ELSE {}

\* A promotion's build takes the promoted replica.
Built(b, e) ==
  [tier |-> b.tier, replica |-> IF b.of # 0 THEN instances[b.of].replica ELSE b.gen,
   wired |-> FALSE, closed |-> FALSE, refused |-> FALSE, answer |-> HydrationOf(e),
   fresh |-> b.of # 0 /\ instances[b.of].fresh]

\* Faulty variant: the promoted instance stays beside the new one.
JoinedKeepingPromoted(s) ==
  [g \in DOMAIN instances \cup {b.gen : b \in s.builds} |->
     IF g \in DOMAIN instances THEN instances[g]
     ELSE Built(CHOOSE b \in s.builds : b.gen = g, s.m.entry)]

\* What joins #instances at the commit; a promoted instance leaves, undisposed.
Joined(s) ==
  [g \in (DOMAIN instances \cup {b.gen : b \in s.builds}) \ {b.of : b \in s.builds} |->
     IF g \in DOMAIN instances THEN instances[g]
     ELSE Built(CHOOSE b \in s.builds : b.gen = g, s.m.entry)]

\* Run a step from `base`: a refusal commits nothing and tells nobody.
Commit(s, base) ==
  /\ m' = s.m
  /\ instances' = Joined(s)
  /\ stack' = IF s.refused THEN base ELSE <<Frame("step", s.effects, m.entry)>> \o base

-----------------------------------------------------------------------------
(* The doors, from outside every callback or from inside one.              *)

Ask(s) ==
  /\ stack = <<>> \/ OnTop("app")
  /\ ~over
  /\ requests < MaxRequests
  /\ requests' = requests + 1
  /\ Commit(s, stack)
  /\ UNCHANGED <<dirty, over, dead, sync, storage, queues, faults, threw>>

\* A release the store program decided is still to be taken.
ReleaseOnItsWay ==
  \E i \in DOMAIN stack : /\ stack[i].kind = "store"
                         /\ \E j \in DOMAIN stack[i].todo : stack[i].todo[j].do = "released"

DoGet       == \E kind \in {"create", "open"}, fits \in BOOLEAN : Ask(Get(m, kind, fits))
DoReplicate == Ask(Replicate(m))
DoDestroy   == Ask(Destroy(m))
DoSuspend   == Ask(Suspend(m))
DoResume    == /\ IsHeld(m.entry) /\ m.hooked /\ ~m.entry.registered => ResumesEarly
               /\ Ask(Resume(m))
DoUnload    == /\ ReleaseOnItsWay => UnloadsAgain
               /\ Ask(Unload(m))

\* A local write, refused while the document unloads and after a failed load.
\* Once the document is wired it is marked, to be drained.
DoWrite ==
  /\ stack = <<>> \/ OnTop("app")
  /\ requests < MaxRequests /\ ~over
  /\ m.entry.phase \in {"loading", "ready"} /\ m.entry.tier = "interpret"
  /\ requests' = requests + 1
  /\ instances' = [instances EXCEPT ![m.entry.gen].fresh = TRUE]
  /\ dirty' = (dirty \/ instances[m.entry.gen].wired)
  /\ UNCHANGED <<m, over, dead, stack, sync, storage, queues, faults, threw>>

\* #drainLocal: ask for a write if the document is marked.
Drained(base) ==
  /\ dirty' = FALSE
  /\ IF dirty /\ IsHeld(m.entry) /\ m.entry.tier = "interpret"
     THEN ToStoreProgram(StoreInput("state-advanced", 0), base)
     ELSE stack' = base /\ UNCHANGED storeQ

\* The microtask that drains what local writes marked.
DrainLocalChanges ==
  /\ stack = <<>> /\ dirty
  /\ Drained(stack)
  /\ UNCHANGED <<m, instances, over, dead, sync, storage, syncQ, bounds>>

AppReturns ==
  /\ OnTop("app")
  /\ stack' = Tail(stack)
  /\ UNCHANGED <<runtime, sync, storage, queues, bounds>>

\* An Exchange is put over the Runtime.
SetHooks ==
  /\ stack = <<>> /\ ~over /\ ~m.hooked
  /\ Commit(Hooked(m), stack)
  /\ UNCHANGED <<dirty, over, dead, sync, storage, queues, bounds>>

\* reset: the store program is disposed, every instance closed, and the
\* Synchronizer's handles are built again.
Reset ==
  /\ stack = <<>> /\ ~over
  /\ over' = TRUE
  /\ Commit(CloseAll(m), stack)
  /\ graph' = NoEntry /\ record' = 0 /\ recordMode' = "none" /\ departures' = <<>>
  /\ retry' = FALSE
  /\ UNCHANGED <<dirty, dead, events, store, releasing, calls, disk, queues, bounds>>

-----------------------------------------------------------------------------
(* The effects of a step, in order.                                        *)

Doing(do) == OnTop("step") /\ Top.todo # <<>> /\ Head(Top.todo).do = do
E == Head(Top.todo)
Present == E.gen \in DOMAIN instances

\* An effect that names a generation does nothing if its instance is gone.
SkipStale ==
  /\ OnTop("step") /\ Top.todo # <<>> /\ E.gen # 0 /\ ~Present
  /\ stack' = Rest
  /\ UNCHANGED <<runtime, sync, storage, queues, bounds>>

ExecDrain ==
  /\ Doing("drain") /\ Present
  /\ Drained(Rest)
  /\ UNCHANGED <<m, instances, over, dead, sync, storage, syncQ, bounds>>

\* Claim identity, attach the network terms.
ExecLocal ==
  /\ Doing("adopt") \/ Doing("interpreted")
  /\ Present
  /\ stack' = Rest
  /\ UNCHANGED <<runtime, sync, storage, queues, bounds>>

\* The load's first store call; each later one is queued when this one ends.
ExecLoad ==
  /\ Doing("load") /\ Present
  /\ calls' = Append(calls, StoreCall("writerOf", E.gen, FALSE))
  /\ stack' = Rest
  /\ UNCHANGED <<runtime, sync, store, releasing, retry, disk, queues, bounds>>

ExecStore ==
  /\ Doing("store")
  /\ ToStoreProgram(StoreInput(E.arg, E.of), Rest)
  /\ UNCHANGED <<runtime, sync, storage, syncQ, bounds>>

\* registerDoc: a change of mode, the record's or else the entry's, is an event.
ExecRegister ==
  /\ Doing("register") /\ Present
  /\ LET mode == instances[E.gen].tier
         before == IF record # 0 THEN recordMode ELSE graph.mode
     IN /\ record' = E.gen /\ recordMode' = mode
        /\ ToSync([type |-> "ensure", mode |-> mode, suspended |-> E.on,
                   event |-> before # mode], Rest)
  /\ UNCHANGED <<runtime, graph, departures, events, storage, storeQ, bounds>>

ExecWire ==
  /\ Doing("wire") /\ Present
  /\ instances' = [instances EXCEPT ![E.gen].wired = TRUE]
  /\ stack' = Rest
  /\ UNCHANGED <<m, dirty, over, dead, sync, storage, queues, bounds>>

ExecLeaving ==
  /\ Doing("leaving")
  /\ ToSync([type |-> "leaving", on |-> E.on], Rest)
  /\ UNCHANGED <<runtime, sync, storage, storeQ, bounds>>

\* leaveDocument: the record of now is captured, to be let go of when it has left.
Leave(as, gen, base) ==
  /\ departures' = Append(departures, [record |-> record, as |-> as, left |-> gen])
  /\ ToSync([type |-> "leave", as |-> as, known |-> record # 0], base)

ExecLeave ==
  /\ Doing("leave") /\ Present
  /\ IF m.hooked
     THEN /\ Leave("unload", E.gen, Rest)
          /\ UNCHANGED <<m, instances>>
     ELSE /\ Commit(Left(m, E.gen), Rest)
          /\ UNCHANGED <<departures, syncQ>>
  /\ UNCHANGED <<dirty, over, dead, graph, record, recordMode, events, storage, storeQ, bounds>>

\* Faulty variant: the close is the answer, whatever was answered before.
ClosedAnswerAlways(hydration) == "closed"

\* closedHydration: a load still pending fails, an answer given stands.
ClosedAnswer(hydration) ==
  IF hydration = "pending" THEN "closed" ELSE hydration

\* The ref ends: it is unwired, its terms closed and its observers told.
Closed(i, hydration) ==
  [i EXCEPT !.wired = FALSE, !.closed = TRUE, !.answer = ClosedAnswer(hydration)]

ExecClose ==
  /\ Doing("close") /\ Present
  /\ instances' = [instances EXCEPT ![E.gen] = Closed(@, E.arg)]
  /\ stack' = CallBack(IF m.entry.phase = "leaving" THEN "leaving" ELSE "close",
                        instances[E.gen].tier, Rest)
  /\ UNCHANGED <<m, dirty, over, dead, sync, storage, queues, bounds>>

ExecDispose ==
  /\ Doing("dispose") /\ Present
  /\ dead' = dead \cup {instances[E.gen].replica}
  /\ instances' = [g \in DOMAIN instances \ {E.gen} |-> instances[g]]
  /\ stack' = Rest
  /\ UNCHANGED <<m, dirty, over, sync, storage, queues, bounds>>

\* The Exchange hears of a destroy or a suspend.
ExecNotifyLeave ==
  /\ Doing("notify") /\ E.arg \in {"destroyed", "suspended"}
  /\ IF m.hooked
     THEN Leave(IF E.arg = "destroyed" THEN "destroy" ELSE "suspend", 0, Rest)
     ELSE stack' = Rest /\ UNCHANGED <<departures, syncQ>>
  /\ UNCHANGED <<runtime, graph, record, recordMode, events, storage, storeQ, bounds>>

\* resumeDocument throws for a document that is not registered, from a step
\* that is committed: the rest of the step is not run.
ExecNotifyResume ==
  /\ Doing("notify") /\ E.arg = "resumed"
  /\ \/ /\ m.hooked /\ record # 0
        /\ ToSync([type |-> "ensure", mode |-> recordMode, suspended |-> FALSE, event |-> TRUE], Rest)
        /\ UNCHANGED threw
     \/ /\ m.hooked /\ record = 0
        /\ stack' = Tail(stack) /\ threw' = TRUE
        /\ UNCHANGED syncQ
     \/ /\ ~m.hooked
        /\ stack' = Rest
        /\ UNCHANGED <<threw, syncQ>>
  /\ UNCHANGED <<runtime, sync, storage, storeQ, requests, faults>>

\* What a lifecycle says of an instance: its load, and whether its writes are
\* refused because it unloads.
Observed(e, g, i) ==
  <<HydrationOf(e), i.tier = "interpret" /\ e.phase \in {"storing", "leaving"} /\ e.gen = g>>

\* The step ends: the current instance's observers hear what it changed.
EndStep ==
  /\ OnTop("step") /\ Top.todo = <<>>
  /\ LET g == m.entry.gen
         told == /\ IsHeld(m.entry) /\ g \in DOMAIN instances
                 /\ Observed(Top.before, g, instances[g]) # Observed(m.entry, g, instances[g])
     IN IF told
        THEN /\ instances' =
                  [instances EXCEPT
                     ![g].answer = IF instances[g].closed THEN @ ELSE HydrationOf(m.entry),
                     ![g].refused = IF instances[g].closed THEN @
                                    ELSE Observed(m.entry, g, instances[g])[2]]
             /\ stack' = CallBack("notify", instances[g].tier, Tail(stack))
        ELSE stack' = Tail(stack) /\ UNCHANGED instances
  /\ UNCHANGED <<m, dirty, over, dead, sync, storage, queues, bounds>>

-----------------------------------------------------------------------------
(* The Synchronizer's outer dispatcher: routes, then a tick.               *)

\* The first message of the queue is routed to the sync program.
Route(msg) ==
  CASE msg.type = "ensure"  -> [g |-> Ensured(graph, msg.mode, msg.suspended),
                                event |-> msg.event /\ (msg.suspended \/ graph.mode # msg.mode),
                                does |-> <<>>]
    [] msg.type = "defer"   -> [g |-> DeferredIn(graph), event |-> graph.mode = "absent", does |-> <<>>]
    [] msg.type = "leaving" -> [g |-> MarkedLeaving(graph, msg.on), event |-> FALSE, does |-> <<>>]
    [] msg.type = "leave"   -> [g |-> LeftGraph(graph, msg.as, msg.known),
                                event |-> graph.mode # "absent" \/ msg.known, does |-> <<"left">>]
    [] msg.type = "interest" \/ (msg.type = "present" /\ graph.mode # "absent") ->
         [g |-> [graph EXCEPT !.reloading = @ \/ Reloads(graph)], event |-> FALSE,
          does |-> When(Reloads(graph), <<"reload">>)]
    [] msg.type = "present" /\ graph.mode = "absent" ->
         [g |-> graph, event |-> FALSE, does |-> <<"ensure-doc">>]

SyncFrame == OnTop("sync") /\ Top.todo = <<>> /\ syncQ # <<>>

Routed ==
  /\ SyncFrame /\ Head(syncQ).type # "tick"
  /\ LET r == Route(Head(syncQ)) IN
     /\ graph' = r.g
     /\ events' = (events \/ r.event)
     /\ stack' = <<[Top EXCEPT !.todo = r.does \o <<"queue-tick">>]>> \o Tail(stack)
  /\ syncQ' = Tail(syncQ)
  /\ UNCHANGED <<runtime, record, recordMode, departures, storage, storeQ, bounds>>

SyncDoes(what) == OnTop("sync") /\ Top.todo # <<>> /\ Head(Top.todo) = what

\* At most one tick is queued at a time.
QueueTick ==
  /\ SyncDoes("queue-tick")
  /\ syncQ' = IF \E i \in DOMAIN syncQ : syncQ[i].type = "tick" THEN syncQ
              ELSE Append(syncQ, [type |-> "tick"])
  /\ stack' = Rest
  /\ UNCHANGED <<runtime, sync, storage, storeQ, bounds>>

\* The tick tells the application of the document events.
Tick ==
  /\ SyncFrame /\ Head(syncQ).type = "tick"
  /\ syncQ' = Tail(syncQ)
  /\ events' = FALSE
  /\ stack' = IF events THEN CallBack("events", "interpret", stack) ELSE stack
  /\ UNCHANGED <<runtime, graph, record, recordMode, departures, storage, storeQ, bounds>>

\* The record a leave captured goes; one registered since is another, and stays.
RecordLeft(d) == IF d.as # "suspend" /\ record = d.record THEN 0 ELSE record

DocLeft ==
  /\ SyncDoes("left")
  /\ LET d == Head(departures) IN
     /\ departures' = Tail(departures)
     /\ record' = RecordLeft(d)
     /\ recordMode' = IF record' = 0 THEN "none" ELSE recordMode
     /\ IF d.left = 0
        THEN stack' = Rest /\ UNCHANGED <<m, instances>>
        ELSE Commit(Left(m, d.left), Rest)
  /\ UNCHANGED <<dirty, over, dead, graph, events, storage, queues, bounds>>

ReloadDoc ==
  /\ SyncDoes("reload")
  /\ Commit(Reload(m), Rest)
  /\ UNCHANGED <<dirty, over, dead, sync, storage, queues, bounds>>

\* onEnsureDoc: interpret, replicate, defer, or refuse what a peer announced.
EnsureDoc ==
  /\ SyncDoes("ensure-doc")
  /\ \/ Commit(Get(m, "create", TRUE), Rest) /\ UNCHANGED syncQ
     \/ Commit(Replicate(m), Rest) /\ UNCHANGED syncQ
     \/ /\ m.entry.phase \in {"absent", "deferred"}
        /\ Commit(Defer(m), Rest)
        /\ syncQ' = Append(syncQ, [type |-> "defer"])
     \/ stack' = Rest /\ UNCHANGED <<m, instances, syncQ>>
  /\ UNCHANGED <<dirty, over, dead, sync, storage, storeQ, bounds>>

EndSync ==
  /\ OnTop("sync") /\ Top.todo = <<>> /\ syncQ = <<>>
  /\ stack' = Tail(stack)
  /\ UNCHANGED <<runtime, sync, storage, queues, bounds>>

\* A peer announces the document, or asks for it.
PeerAsks ==
  /\ stack = <<>> /\ m.hooked /\ ~over
  /\ requests < MaxRequests
  /\ requests' = requests + 1
  /\ \E type \in {"present", "interest"} : ToSync([type |-> type], stack)
  /\ UNCHANGED <<runtime, sync, storage, storeQ, faults, threw>>

-----------------------------------------------------------------------------
(* The store program's dispatcher, and the document's queue of store calls.*)

\* Faulty variant: a destroyed document stays tracked.
OnDestroyTracked(p) == Ignored(p)

OnDestroy(p) == Ignored(Untracked)

ProgramStep(input) ==
  CASE input.type = "register"        -> OnRegister(store)
    [] input.type = "hydrated"        -> OnHydrated(store, "held")
    [] input.type = "state-advanced"  -> OnStateAdvanced(store)
    [] input.type = "destroy"         -> OnDestroy(store)
    [] input.type \in {"release", "keep"} -> Ignored(store)
    [] input.type = "write-succeeded" -> OnWriteSucceeded(store, "held")
    [] input.type = "write-failed"    -> OnWriteFailed(store)

ReleasingAfter(input) ==
  CASE input.type = "release"             -> input.gen
    [] input.type \in {"keep", "destroy"} -> 0
    [] OTHER                              -> releasing

\* releaseStored: the document is released as soon as the store holds all of it.
StoreTransition ==
  /\ OnTop("store") /\ Top.todo = <<>> /\ storeQ # <<>>
  /\ LET input == Head(storeQ)
         s     == ProgramStep(input)
         gen   == ReleasingAfter(input)
         frees == gen # 0 /\ StoredEntirely(s.phase)
     IN /\ store' = IF frees THEN Untracked ELSE s.phase
        /\ releasing' = IF frees THEN 0 ELSE gen
        /\ stack' = <<[Top EXCEPT !.todo =
               When(s.persisted # Nothing, <<Named("persisted", 0)>>)
                 \o When(s.write # "none", <<Effect("persist", 0, s.write, FALSE, 0)>>)
                 \o When(s.retry, <<Named("retry", 0)>>)
                 \o When(input.type = "destroy", <<Named("delete", 0)>>)
                 \o When(frees, <<Named("released", gen)>>)]>> \o Tail(stack)
  /\ storeQ' = Tail(storeQ)
  /\ UNCHANGED <<runtime, sync, calls, retry, disk, syncQ, bounds>>

StoreDoes(do) == OnTop("store") /\ Top.todo # <<>> /\ E.do = do

\* The write reads the current instance; with none it fails at once.
Persist ==
  /\ StoreDoes("persist")
  /\ retry' = FALSE
  /\ stack' = Rest
  /\ IF Current \cap DOMAIN instances # {}
     THEN /\ calls' = Append(calls, StoreCall(E.arg, m.entry.gen, instances[m.entry.gen].fresh))
          /\ instances' = [instances EXCEPT ![m.entry.gen].fresh = FALSE]
          /\ UNCHANGED storeQ
     ELSE /\ storeQ' = Append(storeQ, StoreInput("write-failed", 0))
          /\ UNCHANGED <<calls, instances>>
  /\ UNCHANGED <<m, dirty, over, dead, sync, store, releasing, disk, syncQ, bounds>>

\* A confirmation moves the document's persistence term.
Persisted ==
  /\ StoreDoes("persisted")
  /\ stack' = CallBack("persisted", IF IsHeld(m.entry) THEN m.entry.tier ELSE "none", Rest)
  /\ UNCHANGED <<runtime, sync, storage, queues, bounds>>

ArmRetry ==
  /\ StoreDoes("retry")
  /\ retry' = TRUE
  /\ stack' = Rest
  /\ UNCHANGED <<runtime, sync, store, releasing, calls, disk, queues, bounds>>

Delete ==
  /\ StoreDoes("delete")
  /\ retry' = FALSE
  /\ calls' = Append(calls, StoreCall("delete", 0, FALSE))
  /\ stack' = Rest
  /\ UNCHANGED <<runtime, sync, store, releasing, disk, queues, bounds>>

Release ==
  /\ StoreDoes("released")
  /\ Commit(Released(m, E.gen), Rest)
  /\ UNCHANGED <<dirty, over, dead, sync, storage, queues, bounds>>

EndStore ==
  /\ OnTop("store") /\ Top.todo = <<>> /\ storeQ = <<>>
  /\ stack' = Tail(stack)
  /\ UNCHANGED <<runtime, sync, storage, queues, bounds>>

RetryFires ==
  /\ stack = <<>> /\ retry
  /\ retry' = FALSE
  /\ ToStoreProgram(StoreInput("state-advanced", 0), stack)
  /\ UNCHANGED <<runtime, sync, store, releasing, calls, disk, syncQ, bounds>>

CallEnds(kinds) == stack = <<>> /\ calls # <<>> /\ Head(calls).kind \in kinds
Reads  == {"writerOf", "currentMeta", "loadAll"}
Writes == {"register", "since"}

\* A read the load needs: it asks for the next one, or tells what it found.
ReadEnds ==
  /\ CallEnds(Reads)
  /\ LET c == Head(calls)
         next == IF c.kind = "writerOf" THEN "currentMeta" ELSE "loadAll"
     IN IF c.kind = "writerOf" \/ (c.kind = "currentMeta" /\ disk)
        THEN /\ calls' = Append(Tail(calls), StoreCall(next, c.gen, FALSE))
             /\ UNCHANGED <<m, instances, stack>>
        ELSE /\ calls' = Tail(calls)
             /\ Commit(Loaded(m, c.gen, IF disk THEN "stored" ELSE "empty"), stack)
  /\ UNCHANGED <<dirty, over, dead, sync, store, releasing, retry, disk, queues, bounds>>

ReadFails ==
  /\ CallEnds(Reads) /\ faults < MaxFaults
  /\ faults' = faults + 1
  /\ calls' = Tail(calls)
  /\ Commit(LoadFailed(m, Head(calls).gen), stack)
  /\ UNCHANGED <<dirty, over, dead, sync, store, releasing, retry, disk, queues, requests, threw>>

\* A `since` write that finds nothing new touches no store.
WriteEnds ==
  /\ CallEnds(Writes)
  /\ calls' = Tail(calls)
  /\ disk' = (disk \/ Head(calls).kind = "register" \/ Head(calls).carries)
  /\ ToStoreProgram(StoreInput("write-succeeded", 0), stack)
  /\ UNCHANGED <<runtime, sync, store, releasing, retry, syncQ, bounds>>

\* The next write starts from what the store confirmed, so it carries them again.
WriteFails ==
  /\ CallEnds(Writes) /\ faults < MaxFaults
  /\ Head(calls).kind = "register" \/ Head(calls).carries
  /\ faults' = faults + 1
  /\ calls' = Tail(calls)
  /\ instances' = [g \in DOMAIN instances |->
       [instances[g] EXCEPT !.fresh = @ \/ (g = Head(calls).gen /\ Head(calls).carries)]]
  /\ ToStoreProgram(StoreInput("write-failed", 0), stack)
  /\ UNCHANGED <<m, dirty, over, dead, sync, store, releasing, retry, disk, syncQ, requests, threw>>

\* A delete that fails is reported and leaves the records.
DeleteEnds ==
  /\ CallEnds({"delete"})
  /\ calls' = Tail(calls)
  /\ \/ disk' = FALSE /\ UNCHANGED faults
     \/ faults < MaxFaults /\ faults' = faults + 1 /\ UNCHANGED disk
  /\ UNCHANGED <<runtime, stack, sync, store, releasing, retry, queues, requests, threw>>

-----------------------------------------------------------------------------
Init ==
  /\ m \in {[InitialLifecycle(s) EXCEPT !.hooked = h] : s \in Stores, h \in BOOLEAN}
  /\ instances = [g \in {} |-> 0] /\ dirty = FALSE
  /\ stack = <<>> /\ over = FALSE /\ dead = {}
  /\ graph = NoEntry /\ record = 0 /\ recordMode = "none" /\ departures = <<>>
  /\ syncQ = <<>> /\ events = FALSE
  /\ store = Untracked /\ releasing = 0 /\ storeQ = <<>> /\ calls = <<>> /\ retry = FALSE
  /\ disk \in IF m.hasStore THEN BOOLEAN ELSE {FALSE}
  /\ requests = 0 /\ faults = 0 /\ threw = FALSE

\* What the program does once started: it is never left half done.
Runs ==
  \/ SkipStale \/ ExecDrain \/ DrainLocalChanges \/ ExecLocal \/ ExecLoad \/ ExecStore \/ ExecRegister \/ ExecWire \/ ExecLeaving
  \/ ExecLeave \/ ExecClose \/ ExecDispose \/ ExecNotifyLeave \/ ExecNotifyResume \/ EndStep
  \/ Routed \/ QueueTick \/ Tick \/ DocLeft \/ ReloadDoc \/ EnsureDoc \/ EndSync
  \/ StoreTransition \/ Persist \/ Persisted \/ ArmRetry \/ Delete \/ Release \/ EndStore
  \/ AppReturns

\* The store answers every call, and the retry timer fires.
Answers == ReadEnds \/ ReadFails \/ WriteEnds \/ WriteFails \/ DeleteEnds \/ RetryFires

Asks == DoGet \/ DoReplicate \/ DoDestroy \/ DoWrite \/ DoSuspend \/ DoResume \/ DoUnload
          \/ SetHooks \/ Reset \/ PeerAsks

Next == Runs \/ Answers \/ Asks

Spec == Init /\ [][Next]_vars
FairSpec == Spec /\ WF_vars(Runs) /\ WF_vars(Answers)

-----------------------------------------------------------------------------
(* Properties.  Quiet: nothing of the Runtime is on the call stack.        *)

Quiet == stack = <<>>

\* The state space of one document.
LifecycleTypeOK ==
  /\ m.entry.phase \in HeldPhases \cup {"absent", "deferred", "unloaded"}
  /\ m.entry.gen \in 0 .. (m.nextGen - 1) /\ m.departing \subseteq 1 .. (m.nextGen - 1)
  /\ \A g \in DOMAIN instances : instances[g].answer \in {"pending", "loaded", "failed", "closed"}
  /\ record \in 0 .. (m.nextGen - 1) /\ dead \subseteq 1 .. (m.nextGen - 1)
  /\ graph.mode \in {"absent", "deferred", "interpret", "replicate", "unloaded"}
  /\ store.status \in {"untracked", "settled", "writing"} /\ releasing \in 0 .. (m.nextGen - 1)

\* At rest the Runtime holds the live objects of the document's current
\* generation and of those still leaving, and no others: no door, completion
\* or nested step leaves an instance behind (#instances, runtime.ts:1463).
OnlyHeldLive == Quiet => DOMAIN instances = Current \cup m.departing

\* No live instance uses a replica that was disposed or that another instance
\* uses: a promotion hands its replica on, and nothing disposes it meanwhile.
ReplicasAlive ==
  /\ \A g \in DOMAIN instances : instances[g].replica \notin dead
  /\ \A g, h \in DOMAIN instances : instances[g].replica = instances[h].replica => g = h

\* Once an instance's observers heard how its load ended, no step tells them
\* otherwise; and none is taken from memory with its load unanswered, unless a
\* promotion took its replica (closedHydration, #notify).
AnswersStand ==
  [][\A g \in DOMAIN instances :
       /\ instances[g].answer # "pending" /\ g \in DOMAIN instances' =>
            instances'[g].answer = instances[g].answer
       /\ g \notin DOMAIN instances' =>
            \/ instances[g].closed /\ instances[g].answer # "pending"
            \/ \E h \in DOMAIN instances' : instances'[h].replica = instances[g].replica]_vars

\* At rest every open instance's observers last heard what the lifecycle says
\* of its load and of its writes, whatever steps were nested in one another.
ObserversCurrent ==
  Quiet => \A g \in DOMAIN instances :
             ~instances[g].closed =>
               /\ instances[g].answer = HydrationOf(m.entry)
               /\ instances[g].tier = "interpret" =>
                    instances[g].refused = (m.entry.phase = "storing")

\* A closed instance sends no local update any more: nothing wires it again
\* after its close, even a step nested between a register and its wire.
ClosedIsUnwired == \A g \in DOMAIN instances : instances[g].closed => ~instances[g].wired

\* At rest the Synchronizer holds the record of the registered instance, and
\* of no other: a leave takes the record it captured, not a later one.
RecordIsRegistered ==
  Quiet /\ m.hooked =>
    record = IF m.entry.phase \in {"ready", "storing"} /\ m.entry.registered
             THEN m.entry.gen ELSE 0

\* At rest the document takes part in the sync graph exactly while a registered
\* instance of it is held and not suspended, in the tier that holds it.
InGraphIffHeld ==
  Quiet /\ m.hooked =>
    LET e == m.entry
        shares == e.phase \in {"ready", "storing"} /\ e.registered /\ ~e.suspended
    IN /\ Syncs(graph) <=> shares
       /\ shares => graph.mode = e.tier

\* At rest the sync program takes nothing in for a document exactly while its
\* unload waits for the store.
LeavingIffStoring ==
  Quiet /\ m.hooked /\ Syncs(graph) => (graph.leaving <=> m.entry.phase = "storing")

\* At rest a document the sync program answers as unloaded is one the Runtime
\* unloaded or is loading again, and a request that was passed on to the
\* Runtime has ended the unload: no peer waits for a load nobody makes.
UnloadedIsAnswered ==
  Quiet /\ graph.mode = "unloaded" =>
    /\ m.entry.phase \in {"unloaded", "loading", "failed"}
    /\ graph.reloading => m.entry.phase # "unloaded"

\* A document out of memory is in the store, and no delete of it is on its way.
UnloadedIsStored ==
  m.entry.phase = "unloaded" =>
    disk /\ \A i \in DOMAIN calls : calls[i].kind # "delete"

\* An unload loses nothing: an instance it closed holds no own write that the
\* store does not, and none of its writes is still on its way.
UnloadLosesNothing ==
  \A g \in DOMAIN instances :
    instances[g].closed /\ (g \in m.departing \/ m.entry.phase \in {"leaving", "unloaded"}) =>
      /\ ~instances[g].fresh
      /\ \A i \in DOMAIN calls : ~(calls[i].gen = g /\ calls[i].carries)

\* What the store program believes confirmed, the store holds, and no delete
\* that was queued before will take it away.
BeliefIsStored ==
  store.version # Nothing => disk /\ \A i \in DOMAIN calls : calls[i].kind # "delete"

\* At rest a stored document that is ready is one the store program tracks,
\* and one that waits for its release is one the store program will release.
ReadyIsTracked ==
  Quiet /\ ~over /\ m.hasStore =>
    /\ m.entry.phase = "ready" => store.status # "untracked" /\ releasing = 0
    /\ m.entry.phase = "storing" => store.status # "untracked" /\ releasing = m.entry.gen

\* The live objects are sound at every moment, between any two effects: of the
\* right types, on a replica of their own, and unwired once closed.
InstancesSound == LifecycleTypeOK /\ ReplicasAlive /\ ClosedIsUnwired

\* What the lifecycle and the store program believe stored, the store holds.
BelievedIsStored == UnloadedIsStored /\ BeliefIsStored

\* Whenever nothing of the Runtime is on the call stack, the lifecycle, the
\* live instances and their observers, the Synchronizer's record, the sync
\* graph and the store program agree about the document.
AgreeAtRest ==
  /\ OnlyHeldLive /\ ObserversCurrent /\ RecordIsRegistered /\ InGraphIffHeld
  /\ LeavingIffStoring /\ UnloadedIsAnswered /\ ReadyIsTracked

\* A door does what it is asked or refuses: no hook throws from a committed step.
NoThrowAfterCommit == ~threw

\* Every load ends, and every unload ends or is cancelled, however many store
\* calls fail before, as long as the store answers.
LoadsSettle   == m.entry.phase = "loading" ~> m.entry.phase # "loading"
UnloadsSettle == m.entry.phase = "storing" ~> m.entry.phase # "storing"
DeparturesEnd == m.departing # {} ~> m.departing = {}

\* Nothing is left loading, unloading or leaving for ever.
EverythingSettles == LoadsSettle /\ UnloadsSettle /\ DeparturesEnd
=============================================================================
