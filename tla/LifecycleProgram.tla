-------------------------- MODULE LifecycleProgram --------------------------
(***************************************************************************)
(* The lifecycle program of a Runtime: the pure machine that answers every *)
(* door (`get`, `replicate`, `destroy`, `unload`, ...) and every completion*)
(* (`loaded`, `load-failed`, `released`, `left`) of a document.  Documents *)
(* do not meet in it, so the operators here are on a model of ONE document.*)
(*                                                                         *)
(* A model is [entry, departing, nextGen, hooked, hasStore], as in the     *)
(* code.  The two stages of `unloading` are two phases here, "storing" and *)
(* "leaving", and the `intent` of a load is "create" or, for an open, what *)
(* the open replaced.  The document is one a store would keep, so storedOf *)
(* is hasStore.                                                            *)
(***************************************************************************)
EXTENDS Naturals, Sequences, SequencesExt

Entry(phase, gen, tier, suspended) ==
  [phase |-> phase, gen |-> gen, tier |-> tier, suspended |-> suspended,
   registered |-> FALSE, intent |-> "none"]

Absent   == Entry("absent", 0, "none", FALSE)
Deferred == Entry("deferred", 0, "none", FALSE)
Unloaded(e) == Entry("unloaded", 0, e.tier, e.suspended)

HeldPhases == {"loading", "ready", "failed", "storing", "leaving"}
IsHeld(e)  == e.phase \in HeldPhases

InitialLifecycle(hasStore) ==
  [entry |-> Absent, departing |-> {}, nextGen |-> 1, hooked |-> FALSE, hasStore |-> hasStore]

Put(m, e) == [m EXCEPT !.entry = e]

\* What a lifecycle says of its load.
HydrationOf(e) ==
  CASE e.phase = "loading" -> "pending"
    [] e.phase = "failed"  -> "failed"
    [] OTHER               -> "loaded"

(***************************************************************************)
(* Effects.  `gen` is 0 in one that names no generation.  `arg` is the     *)
(* hydration of a close, the hook of a notify, the input of a store, whose *)
(* release is `of` a generation.  `on` is whether a register is suspended, *)
(* or a leave starts.                                                      *)
(***************************************************************************)
Effect(do, gen, arg, on, of) == [do |-> do, gen |-> gen, arg |-> arg, on |-> on, of |-> of]

Named(do, gen)     == Effect(do, gen, "", FALSE, 0)
Notify(hook)       == Effect("notify", 0, hook, FALSE, 0)
ToStore(input, of) == Effect("store", 0, input, FALSE, of)
Leaving(on)        == Effect("leaving", 0, "", on, 0)
Register(gen, suspended) == Effect("register", gen, "", suspended, 0)
Close(e)           == Effect("close", e.gen, HydrationOf(e), FALSE, 0)

\* An instance to build, from the generation `of` it promotes, or from 0.
Build(gen, tier, of) == [gen |-> gen, tier |-> tier, of |-> of]

\* A step: what comes before its commit, a refusal or what to build, is kept
\* apart from the effects that follow it.
Does(m, effects) == [m |-> m, refused |-> FALSE, builds |-> {}, effects |-> effects]
Nothing2Do(m)    == Does(m, <<>>)
Refuse(m)        == [Nothing2Do(m) EXCEPT !.refused = TRUE]

When(condition, effects) == IF condition THEN effects ELSE <<>>

\* End an instance for good: an unload's release already closed a leaving one.
End(e) == When(e.phase # "leaving", <<Close(e)>>) \o <<Named("dispose", e.gen)>>

\* The one rule by which a load's end and a cancelled unload register.
Registers(m, registered) == ~registered /\ m.hooked

-----------------------------------------------------------------------------
(* Building and loading.                                                   *)

\* An open that found nothing ends its instance and restores what it replaced.
NotHeld(m, e) ==
  Does(Put(m, IF e.intent = "open-deferred" THEN Deferred ELSE Absent),
       <<Effect("close", e.gen, "failed", FALSE, 0), Named("dispose", e.gen)>>
         \o When(e.intent = "open-unloaded", <<Notify("destroyed")>>))

StoreLearns(outcome) ==
  CASE outcome = "stored" -> <<ToStore("hydrated", 0)>>
    [] outcome = "empty"  -> <<ToStore("register", 0)>>
    [] outcome = "none"   -> <<>>

FinishLoad(m, e, outcome) ==
  IF e.intent # "create" /\ outcome # "stored" THEN NotHeld(m, e)
  ELSE Does(Put(m, [e EXCEPT !.phase = "ready", !.intent = "none", !.registered = m.hooked]),
            When(e.tier = "interpret", <<Named("adopt", e.gen)>>)
              \o StoreLearns(outcome)
              \o When(Registers(m, FALSE), <<Register(e.gen, e.suspended)>>)
              \o When(e.tier = "interpret", <<Named("wire", e.gen)>>))

\* A generation is never reused.
Issued(m) == [m EXCEPT !.nextGen = @ + 1]

\* `promoted`: the ready replica the build upgrades, or 0.
Begin(m, tier, promoted, suspended, intent) ==
  LET gen     == m.nextGen
      issued  == Issued(m)
      loading == [Entry("loading", gen, tier, suspended) EXCEPT !.intent = intent]
      loads   == IF m.hasStore /\ promoted = 0 THEN Does(Put(issued, loading), <<Named("load", gen)>>)
                 ELSE FinishLoad(issued, loading, "none")
  IN [loads EXCEPT !.builds = {Build(gen, tier, promoted)},
                   !.effects = When(tier = "interpret", <<Named("interpreted", gen)>>) \o @]

\* Load again what the store holds all of.  A leaving instance departs.
LoadAgain(m, tier, kind) ==
  LET e == m.entry
      recorded == IF e.phase = "leaving" THEN [m EXCEPT !.departing = @ \cup {e.gen}] ELSE m
  IN Begin(recorded, tier, 0, e.suspended, IF kind = "create" THEN "create" ELSE "open-unloaded")

\* Cancel an unload the store has not released.
Cancel(m) ==
  LET e == m.entry IN
  Does(Put(m, [e EXCEPT !.phase = "ready", !.registered = e.registered \/ m.hooked]),
       <<ToStore("keep", 0)>>
         \o When(e.registered /\ ~e.suspended, <<Leaving(FALSE)>>)
         \o When(Registers(m, e.registered), <<Register(e.gen, e.suspended)>>))

\* `then` after `first`, which builds nothing, as one step: a refusal discards both.
Sequence(before, first, then) ==
  IF then.refused THEN Refuse(before) ELSE [then EXCEPT !.effects = first.effects \o @]

-----------------------------------------------------------------------------
(* The doors.  `fits`: the caller's schema can read what is held or stored.*)

GetStored(m, kind, fits) == IF fits THEN LoadAgain(m, "interpret", kind) ELSE Refuse(m)

\* A create keeps what an open is loading, whatever the load finds.
GetCached(m, kind, fits) ==
  IF ~fits THEN Refuse(m)
  ELSE IF m.entry.phase = "loading" /\ kind = "create"
       THEN Nothing2Do(Put(m, [m.entry EXCEPT !.intent = "create"]))
       ELSE Nothing2Do(m)

\* Only a replica that has loaded is promoted.
GetReplica(m, fits) ==
  IF m.entry.phase = "ready" /\ fits
  THEN Begin(m, "interpret", m.entry.gen, m.entry.suspended, "create")
  ELSE Refuse(m)

\* An open that can load nothing builds nothing.
GetNew(m, kind) ==
  IF kind = "open" /\ ~m.hasStore THEN Nothing2Do(m)
  ELSE Begin(m, "interpret", 0, FALSE,
             CASE kind = "create" -> "create"
               [] kind = "open" /\ m.entry.phase = "deferred" -> "open-deferred"
               [] kind = "open" /\ m.entry.phase = "absent"   -> "open-absent")

GetOther(m, kind, fits) ==
  CASE m.entry.phase \in {"unloaded", "leaving"} -> GetStored(m, kind, fits)
    [] m.entry.phase \in {"absent", "deferred"}  -> GetNew(m, kind)
    [] m.entry.phase \in {"loading", "ready", "failed"} /\ m.entry.tier = "interpret"
         -> GetCached(m, kind, fits)
    [] m.entry.phase \in {"loading", "ready", "failed"} /\ m.entry.tier = "replicate"
         -> GetReplica(m, fits)

\* Before the store released it, a get cancels the unload and is then answered.
Get(m, kind, fits) ==
  IF m.entry.phase = "storing"
  THEN LET cancelled == Cancel(m)
       IN Sequence(m, cancelled, GetOther(cancelled.m, kind, fits))
  ELSE GetOther(m, kind, fits)

Replicate(m) ==
  IF IsHeld(m.entry) \/ (m.entry.phase = "unloaded" /\ m.entry.tier = "interpret")
  THEN Refuse(m)
  ELSE Begin(m, "replicate", 0, m.entry.suspended, "create")

\* A peer asked for an unloaded document, where this peer serves.
Reload(m) ==
  IF m.entry.phase # "unloaded" THEN Nothing2Do(m) ELSE LoadAgain(m, m.entry.tier, "open")

Defer(m) == IF m.entry.phase = "absent" THEN Nothing2Do(Put(m, Deferred)) ELSE Nothing2Do(m)

\* The delete is skipped only for what is known never to have been stored.
Destroy(m) ==
  Does(Put(m, Absent),
       When(IsHeld(m.entry), End(m.entry))
         \o When(~IsHeld(m.entry) \/ m.hasStore, <<ToStore("destroy", 0)>>)
         \o <<Notify("destroyed")>>)

Suspend(m) ==
  CASE ~IsHeld(m.entry) \/ m.entry.phase \in {"storing", "leaving"} -> Refuse(m)
    [] m.entry.phase \in {"loading", "ready", "failed"} /\ m.entry.suspended -> Nothing2Do(m)
    [] m.entry.phase \in {"loading", "ready", "failed"} /\ ~m.entry.suspended
         -> Does(Put(m, [m.entry EXCEPT !.suspended = TRUE]), <<Notify("suspended")>>)

Resume(m) ==
  IF m.entry.phase \in {"loading", "ready", "failed"} /\ m.entry.suspended
  THEN Does(Put(m, [m.entry EXCEPT !.suspended = FALSE]), <<Notify("resumed")>>)
  ELSE Refuse(m)

\* Faulty variant: the release is asked for, and no write before it.
BeginUnloadUnasked(m) ==
  LET e == m.entry IN
  Does(Put(m, [e EXCEPT !.phase = "storing"]),
       When(e.registered /\ ~e.suspended, <<Leaving(TRUE)>>) \o <<ToStore("release", e.gen)>>)

\* The unload of a ready document: its writes are refused from the commit on.
BeginUnload(m) ==
  LET e == m.entry IN
  Does(Put(m, [e EXCEPT !.phase = "storing"]),
       When(e.tier = "interpret", <<Named("drain", e.gen)>>)
         \o When(e.registered /\ ~e.suspended, <<Leaving(TRUE)>>)
         \o <<ToStore("state-advanced", 0), ToStore("release", e.gen)>>)

Unload(m) ==
  CASE m.entry.phase \in {"absent", "deferred", "loading", "failed"} -> Refuse(m)
    [] m.entry.phase \in {"storing", "leaving", "unloaded"} -> Nothing2Do(m)
    [] m.entry.phase = "ready" /\ ~m.hasStore -> Refuse(m)
    [] m.entry.phase = "ready" /\ m.hasStore  -> BeginUnload(m)

\* An Exchange set hooks: only a ready instance registers here.
Hooked(m) ==
  LET e == m.entry IN
  IF e.phase = "ready" /\ ~e.registered
  THEN Does([m EXCEPT !.hooked = TRUE, !.entry.registered = TRUE],
            <<Register(e.gen, e.suspended)>>)
  ELSE Nothing2Do([m EXCEPT !.hooked = TRUE])

\* `reset` or `shutdown`: close every instance, departing ones included.
CloseAll(m) ==
  LET gone == SetToSeq(m.departing)
  IN Does([m EXCEPT !.entry = Absent, !.departing = {}],
          When(IsHeld(m.entry), End(m.entry)) \o [i \in DOMAIN gone |-> Named("dispose", gone[i])])

-----------------------------------------------------------------------------
(* The completions, each with the generation it was started for.           *)

Loaded(m, gen, outcome) ==
  IF m.entry.phase = "loading" /\ m.entry.gen = gen
  THEN FinishLoad(m, m.entry, outcome)
  ELSE Nothing2Do(m)

\* Faulty variant: the failure of an open's load is not recorded.
LoadFailedCreated(m, gen) ==
  IF m.entry.phase = "loading" /\ m.entry.gen = gen /\ m.entry.intent = "create"
  THEN Nothing2Do(Put(m, [m.entry EXCEPT !.phase = "failed", !.intent = "none"]))
  ELSE Nothing2Do(m)

LoadFailed(m, gen) ==
  IF m.entry.phase = "loading" /\ m.entry.gen = gen
  THEN Nothing2Do(Put(m, [m.entry EXCEPT !.phase = "failed", !.intent = "none"]))
  ELSE Nothing2Do(m)

\* A release the unload of `gen` takes; one a ready document kept is handed back.
Released(m, gen) ==
  LET e == m.entry IN
  CASE e.phase = "ready" -> Does(m, <<ToStore("hydrated", 0)>>)
    [] e.phase = "storing" /\ e.gen = gen /\ e.registered
         -> Does(Put(m, [e EXCEPT !.phase = "leaving"]), <<Close(e), Named("leave", gen)>>)
    [] e.phase = "storing" /\ e.gen = gen /\ ~e.registered
         -> Does(Put(m, Unloaded(e)), <<Close(e), Named("dispose", gen)>>)
    [] OTHER -> Nothing2Do(m)

Left(m, gen) ==
  CASE m.entry.phase = "leaving" /\ m.entry.gen = gen
         -> Does(Put(m, Unloaded(m.entry)), <<Named("dispose", gen)>>)
    [] ~(m.entry.phase = "leaving" /\ m.entry.gen = gen) /\ gen \in m.departing
         -> Does([m EXCEPT !.departing = @ \ {gen}], <<Named("dispose", gen)>>)
    [] ~(m.entry.phase = "leaving" /\ m.entry.gen = gen) /\ gen \notin m.departing
         -> Nothing2Do(m)

=============================================================================
