-------------------------- MODULE LifecycleProofs --------------------------
(***************************************************************************)
(* Proofs about Lifecycle, for every value of its constants, wherever the  *)
(* shell calls application code and however steps nest: the live objects   *)
(* of the document are sound between any two effects.                      *)
(*                                                                         *)
(* A step frame's todo is the suffix of what some step of the program      *)
(* left to do.  The invariant relates all of them, at every depth, to the  *)
(* model of now.                                                           *)
(***************************************************************************)
EXTENDS Lifecycle, FiniteSetTheorems, SequenceTheorems, TLAPS

-----------------------------------------------------------------------------
(* Types.                                                                  *)

Tier == {"interpret", "replicate"}
Phases == HeldPhases \cup {"absent", "deferred", "unloaded"}

EntryType == [phase : Phases, gen : Nat, tier : Tier \cup {"none"}, suspended : BOOLEAN, registered : BOOLEAN,
              intent : {"none", "create", "open-deferred", "open-unloaded", "open-absent"}]

\* The generations whose instance is held, or still leaves.
Held(n) == IF IsHeld(n.entry) THEN {n.entry.gen} ELSE {}
Live(n) == Held(n) \cup n.departing

\* Those whose leave was asked for, and those held with none asked for.
LeavingOf(n) == (IF n.entry.phase = "leaving" THEN {n.entry.gen} ELSE {}) \cup n.departing
Steady(n) == IF n.entry.phase = "leaving" THEN {} ELSE Held(n)

\* A leaving instance departs before the next is built.
Drafts ==
  {n \in [entry : EntryType, departing : SUBSET Nat, nextGen : Nat \ {0}, hooked : BOOLEAN, hasStore : BOOLEAN] :
     /\ Live(n) \subseteq 1 .. (n.nextGen - 1)
     /\ ~IsHeld(n.entry) => n.entry.gen = 0
     /\ Steady(n) \cap n.departing = {}
     /\ n.entry.phase \notin {"absent", "deferred"} => n.entry.tier \in Tier}

Models == {n \in Drafts : Held(n) \cap n.departing = {}}

Dos == {"load", "adopt", "interpreted", "register", "wire", "store", "leaving", "notify", "drain", "close", "leave",
        "dispose"}
Args == {"", "pending", "loaded", "failed", "destroyed", "suspended", "resumed", "hydrated", "register", "destroy",
         "keep", "state-advanced", "release"}

\* An effect that may be left to do while the model is n: what is disposed of is not live, and what is closed is not
\* held, unless it leaves.
Effects(n) ==
  {x \in [do : Dos, gen : 0 .. (n.nextGen - 1), arg : Args, on : BOOLEAN, of : 0 .. (n.nextGen - 1)] :
     /\ x.do \in {"dispose", "close", "wire", "leave"} => x.gen # 0
     /\ x.do = "dispose" => x.gen \notin Live(n)
     /\ x.do = "close" => x.gen \notin Steady(n) /\ x.arg \in {"pending", "loaded", "failed"}
     /\ x.do = "store" => x.arg \in {"hydrated", "register", "destroy", "keep", "state-advanced", "release"}}

\* The todo of a step that wires an instance, that resumes the document, or that does neither.
Wiring(n) == {x \in Effects(n) : \/ x.do \in {"interpreted", "adopt", "register", "leaving", "wire"}
                                 \/ x.do = "store" /\ x.arg \in {"hydrated", "register", "keep"}}
Resuming(n) == {x \in Effects(n) : x.do = "notify"}
Others(n) == {x \in Effects(n) : x.do # "wire" /\ (x.do = "notify" => x.arg # "resumed")}

Todo(n) == Seq(Wiring(n)) \cup Seq(Resuming(n)) \cup Seq(Others(n))

SyncDoings == {"left", "queue-tick", "reload", "ensure-doc"}
StoreEffects(n) == [do : {"persisted", "persist", "retry", "delete", "released"}, gen : 0 .. (n.nextGen - 1),
                    arg : {"", "register", "since", "compact"}, on : BOOLEAN, of : Nat]

Frames(n) ==
  [kind : {"step"}, todo : Todo(n), before : EntryType]
    \cup [kind : {"sync"}, todo : Seq(SyncDoings), before : EntryType]
    \cup [kind : {"store"}, todo : Seq(StoreEffects(n)), before : EntryType]
    \cup [kind : {"app"}, todo : {<<>>}, before : EntryType]

Instance == [tier : Tier, replica : Nat \ {0}, wired : BOOLEAN, closed : BOOLEAN, refused : BOOLEAN,
             answer : {"pending", "loaded", "failed", "closed"}, fresh : BOOLEAN]

\* The instances i and the disposed replicas, while the model is n: what is live is in memory, each instance on a replica
\* of its own, and what is closed is unwired and held no more, unless it leaves.
Objects(i, n, gone) ==
  /\ DOMAIN i \subseteq 1 .. (n.nextGen - 1) /\ gone \subseteq 1 .. (n.nextGen - 1)
  /\ \A g \in DOMAIN i : i[g] \in Instance /\ i[g].replica < n.nextGen /\ i[g].replica \notin gone
  /\ \A g, h \in DOMAIN i : i[g].replica = i[h].replica => g = h
  /\ Live(n) \subseteq DOMAIN i
  /\ \A g \in DOMAIN i : i[g].closed => g \notin Steady(n) /\ ~i[g].wired

SyncMessage ==
  [type : {"ensure"}, mode : Tier, suspended : BOOLEAN, event : BOOLEAN]
    \cup [type : {"leave"}, as : {"unload", "destroy", "suspend"}, known : BOOLEAN]
    \cup [type : {"leaving"}, on : BOOLEAN]
    \cup [type : {"defer", "tick", "present", "interest"}]

Departure(n) == [record : Nat, as : {"unload", "destroy", "suspend"}, left : 0 .. (n.nextGen - 1)]

SyncState(n, g, gen, mode, q, d) ==
  /\ g \in [mode : Tier \cup {"absent", "deferred", "unloaded"}, leaving : BOOLEAN, suspended : BOOLEAN, reloading : BOOLEAN]
  /\ gen \in 0 .. (n.nextGen - 1) /\ (gen # 0 => mode \in Tier)
  /\ q \in Seq(SyncMessage) /\ d \in Seq(Departure(n))

StorePhase == [status : {"untracked", "settled", "writing"}, version : {Nothing, "held"}, failures : Nat,
               owed : {"none", "advance", "compact"}]

StoreInputs(n) ==
  [type : {"hydrated", "register", "destroy", "keep", "state-advanced", "release", "write-succeeded", "write-failed"},
   gen : 0 .. (n.nextGen - 1)]

\* What waits for its release is not stored entirely.
StoreState(n, p, gen, q) ==
  /\ p \in StorePhase
  /\ gen \in 0 .. (n.nextGen - 1) /\ (gen # 0 => ~StoredEntirely(p))
  /\ q \in Seq(StoreInputs(n))

-----------------------------------------------------------------------------
(* The invariant.                                                          *)

\* The generations on which effects of that name are in a todo, are left to do by the frame f, and by those above the
\* j-th of s.
On(todo, do) == {todo[k].gen : k \in {k \in DOMAIN todo : todo[k].do = do}}
Left2Do(f, do) == IF f.kind = "step" THEN On(f.todo, do) ELSE {}
Above(s, j, do) == UNION {Left2Do(s[i], do) : i \in 1 .. (j - 1)}
Wires(f) == Left2Do(f, "wire")

\* What a frame of s is to wire is held for good, or ends before: it is disposed of above, or its leave is on its way
\* and the Synchronizer's dispatcher works directly above.  `left`: the generations whose departure waits.
InTime(s, live, n, left) ==
  \A j \in DOMAIN s : \A g \in Wires(s[j]) \cap live :
    \/ g \in Steady(n) \cup Above(s, j, "dispose")
    \/ /\ g \in LeavingOf(n) \cap (Above(s, j, "leave") \cup left)
       /\ j > 1 /\ s[j - 1].kind = "sync"

\* Inputs of the store program from which no step of the lifecycle program follows.
Plain == {"hydrated", "register", "keep", "write-failed"}
PlainStore(f, q) ==
  /\ f.kind = "store" /\ \A k \in DOMAIN f.todo : f.todo[k].do \in {"persist", "retry"}
  /\ \A k \in DOMAIN q : q[k].type \in Plain

\* Whatever runs over a frame that is to wire an instance runs in the Synchronizer's dispatcher, but for the store
\* program's, which then runs alone.
UnderSync(s, q) ==
  \A j \in DOMAIN s : j > 1 /\ Wires(s[j]) # {} =>
    s[j - 1].kind = "sync" \/ (j = 2 /\ PlainStore(s[1], q))

\* The same, with no store program at work on top; and is the frame on top one that is to wire?
Strict(s) == \A j \in DOMAIN s : j > 1 /\ Wires(s[j]) # {} => s[j - 1].kind = "sync"
Open(s) == 1 \in DOMAIN s /\ Wires(s[1]) # {}

\* One departure for each leave that is queued or being routed.
LeavesIn(q) == {k \in DOMAIN q : q[k].type = "leave"}
Lets(f) == f.kind = "sync" /\ f.todo # <<>> /\ f.todo[1] = "left"
Counted(s, q, d) == Len(d) = Cardinality(LeavesIn(q)) + (IF \E i \in DOMAIN s : Lets(s[i]) THEN 1 ELSE 0)

\* The Synchronizer's dispatcher is on the stack once, and empties its queue; a departure ends first.
OneSync(s, q) ==
  /\ \A i, j \in DOMAIN s : s[i].kind = "sync" /\ s[j].kind = "sync" => i = j
  /\ \A i \in DOMAIN s : s[i].kind = "sync" => \A k \in DOMAIN s[i].todo : s[i].todo[k] = "left" => k = 1
  /\ q # <<>> => Busy("sync", s)

Syncing(s, q, d) == OneSync(s, q) /\ Counted(s, q, d)
Storing(s, q) == q # <<>> => Busy("store", s)

LeftWith(d) == {d[k].left : k \in DOMAIN d}

\* All that is said of a stack s: with the objects of `live` in memory, in the model n, with those departures to come, the
\* queues q and sq, and as many departures as d.
Stacked(s, live, n, left, q, d, sq) ==
  /\ s \in Seq(Frames(n)) /\ InTime(s, live, n, left) /\ UnderSync(s, sq) /\ Syncing(s, q, d) /\ Storing(s, sq)

\* The inductive invariant.
SyncTyped    == SyncState(m, graph, record, recordMode, syncQ, departures)
StoreTyped   == StoreState(m, store, releasing, storeQ)
ObjectsSound == Objects(instances, m, dead)
StackSound   == Stacked(stack, DOMAIN instances, m, LeftWith(departures), syncQ, departures, storeQ)

LifecycleInv == m \in Models /\ SyncTyped /\ StoreTyped /\ ObjectsSound /\ StackSound

-----------------------------------------------------------------------------
(* Sequences: what the stack and the todo of a frame are made of.          *)

LEMMA SeqFacts ==
  ASSUME NEW S, NEW s \in Seq(S)
  PROVE  Len(s) \in Nat /\ DOMAIN s = 1 .. Len(s) /\ \A i \in DOMAIN s : s[i] \in S
BY LenProperties, ElementOfSeq

LEMMA SeqLarger == \A S, T : S \subseteq T => Seq(S) \subseteq Seq(T)
BY SeqMonotonic

LEMMA Pushing ==
  ASSUME NEW S, NEW f \in S, NEW b \in Seq(S)
  PROVE  LET s == <<f>> \o b IN
         /\ s \in Seq(S) /\ s # <<>> /\ s[1] = f /\ Len(s) = Len(b) + 1 /\ DOMAIN s = 1 .. (Len(b) + 1)
         /\ DOMAIN b = 1 .. Len(b) /\ Len(b) \in Nat
         /\ \A i \in 1 .. Len(b) : s[i + 1] = b[i]
         /\ \A i \in 2 .. (Len(b) + 1) : s[i] = b[i - 1]
         /\ Head(s) = f /\ Tail(s) = b
<1>1. <<f>> \in Seq(S) /\ Len(<<f>>) = 1 /\ <<f>>[1] = f
  OBVIOUS
<1> DEFINE s == <<f>> \o b
<1>2. s \in Seq(S) /\ Len(s) = Len(b) + 1 /\ \A i \in 1 .. Len(b) + 1 : s[i] = IF i <= 1 THEN f ELSE b[i - 1]
  BY <1>1, ConcatProperties
<1>3. Len(b) \in Nat /\ DOMAIN b = 1 .. Len(b) /\ DOMAIN s = 1 .. (Len(b) + 1)
  BY <1>2, LenProperties
<1> HIDE DEF s
<1>4. s # <<>> /\ s[1] = f /\ Head(s) = f
  BY <1>2, <1>3
<1>5. Tail(s) \in Seq(S) /\ Len(Tail(s)) = Len(b) /\ \A i \in 1 .. Len(b) : Tail(s)[i] = s[i + 1]
  BY <1>2, <1>3, <1>4, HeadTailProperties
<1>6. Tail(s) = b
  BY <1>2, <1>3, <1>5, SeqEqual
<1> QED BY <1>2, <1>3, <1>4, <1>6 DEF s

LEMMA Popping ==
  ASSUME NEW S, NEW s \in Seq(S), s # <<>>
  PROVE  /\ Head(s) = s[1] /\ s[1] \in S /\ Tail(s) \in Seq(S) /\ 1 \in DOMAIN s
         /\ Len(s) \in Nat \ {0} /\ DOMAIN s = 1 .. Len(s)
         /\ Len(Tail(s)) = Len(s) - 1 /\ DOMAIN Tail(s) = 1 .. (Len(s) - 1)
         /\ \A i \in 1 .. (Len(s) - 1) : Tail(s)[i] = s[i + 1]
<1>1. Head(s) \in S /\ Tail(s) \in Seq(S) /\ Len(Tail(s)) = Len(s) - 1 /\ \A i \in 1 .. Len(Tail(s)) : Tail(s)[i] = s[i + 1]
  BY HeadTailProperties
<1>2. Len(s) \in Nat /\ DOMAIN s = 1 .. Len(s) /\ DOMAIN Tail(s) = 1 .. Len(Tail(s)) /\ Len(s) # 0
  BY <1>1, LenProperties, EmptySeq
<1>3. Head(s) = s[1]
  OBVIOUS
<1> QED BY <1>1, <1>2, <1>3

LEMMA Appending ==
  ASSUME NEW S, NEW s \in Seq(S), NEW x \in S
  PROVE  /\ Append(s, x) \in Seq(S) /\ Append(s, x) # <<>> /\ Len(s) \in Nat /\ DOMAIN s = 1 .. Len(s)
         /\ Len(Append(s, x)) = Len(s) + 1 /\ DOMAIN Append(s, x) = 1 .. (Len(s) + 1)
         /\ \A i \in 1 .. Len(s) : Append(s, x)[i] = s[i]
         /\ Append(s, x)[Len(s) + 1] = x
<1>1. Len(s) \in Nat /\ DOMAIN s = 1 .. Len(s)
  BY LenProperties
<1>2. Append(s, x) \in Seq(S) /\ Len(Append(s, x)) = Len(s) + 1
       /\ (\A i \in 1 .. Len(s) : Append(s, x)[i] = s[i]) /\ Append(s, x)[Len(s) + 1] = x
  BY AppendProperties
<1>3. DOMAIN Append(s, x) = 1 .. (Len(s) + 1) /\ Append(s, x) # <<>>
  BY <1>1, <1>2, LenProperties, EmptySeq
<1> QED BY <1>1, <1>2, <1>3

-----------------------------------------------------------------------------
(* What a todo holds.                                                      *)

LEMMA OnNone == \A do : On(<<>>, do) = {}
BY DEF On

LEMMA OnOne == \A x, do : On(<<x>>, do) = IF x.do = do THEN {x.gen} ELSE {}
BY DEF On

LEMMA OnBoth ==
  \A S : \A s, t \in Seq(S) : \A do : On(s \o t, do) = On(s, do) \cup On(t, do)
<1> SUFFICES ASSUME NEW S, NEW s \in Seq(S), NEW t \in Seq(S), NEW do
             PROVE  On(s \o t, do) = On(s, do) \cup On(t, do)
  OBVIOUS
<1>1. /\ Len(s) \in Nat /\ Len(t) \in Nat /\ DOMAIN s = 1 .. Len(s) /\ DOMAIN t = 1 .. Len(t)
      /\ DOMAIN (s \o t) = 1 .. (Len(s) + Len(t))
  BY LenProperties, ConcatProperties
<1>2. \A i \in 1 .. Len(s) + Len(t) : (s \o t)[i] = IF i <= Len(s) THEN s[i] ELSE t[i - Len(s)]
  BY ConcatProperties
<1> DEFINE c == s \o t
<1> HIDE DEF c
<1>3. ASSUME NEW k \in DOMAIN c, c[k].do = do PROVE c[k].gen \in On(s, do) \cup On(t, do)
  <2>1. CASE k <= Len(s)
    BY <2>1, <1>1, <1>2, <1>3 DEF On, c
  <2>2. CASE k > Len(s)
    <3>1. k - Len(s) \in DOMAIN t /\ c[k] = t[k - Len(s)]
      BY <2>2, <1>1, <1>2 DEF c
    <3> QED BY <3>1, <1>3 DEF On
  <2> QED BY <2>1, <2>2, <1>1 DEF c
<1>4. ASSUME NEW k \in DOMAIN s, s[k].do = do PROVE s[k].gen \in On(c, do)
  <2>1. k \in DOMAIN c /\ c[k] = s[k]
    BY <1>1, <1>2 DEF c
  <2> QED BY <2>1, <1>4 DEF On
<1>5. ASSUME NEW k \in DOMAIN t, t[k].do = do PROVE t[k].gen \in On(c, do)
  <2>1. Len(s) + k \in DOMAIN c /\ c[Len(s) + k] = t[k]
    BY <1>1, <1>2 DEF c
  <2> QED BY <2>1, <1>5 DEF On
<1>6. On(c, do) \subseteq On(s, do) \cup On(t, do)
  BY <1>3 DEF On
<1>7. On(s, do) \subseteq On(c, do) /\ On(t, do) \subseteq On(c, do)
  BY <1>4, <1>5 DEF On
<1> QED BY <1>6, <1>7 DEF c

\* The first effect taken.
LEMMA OnTaken ==
  ASSUME NEW S, NEW todo \in Seq(S), todo # <<>>, NEW do
  PROVE  /\ On(todo, do) = On(Tail(todo), do) \cup (IF Head(todo).do = do THEN {Head(todo).gen} ELSE {})
<1>1. /\ Head(todo) = todo[1] /\ 1 \in DOMAIN todo /\ Len(todo) \in Nat \ {0} /\ DOMAIN todo = 1 .. Len(todo)
      /\ DOMAIN Tail(todo) = 1 .. (Len(todo) - 1) /\ \A i \in 1 .. (Len(todo) - 1) : Tail(todo)[i] = todo[i + 1]
  BY Popping
<1> DEFINE t == Tail(todo)
<1>2. DOMAIN t = 1 .. (Len(todo) - 1) /\ \A i \in 1 .. (Len(todo) - 1) : t[i] = todo[i + 1]
  BY <1>1
<1> HIDE DEF t
<1>3. ASSUME NEW k \in DOMAIN todo, todo[k].do = do, k # 1 PROVE todo[k].gen \in On(t, do)
  <2>1. k - 1 \in DOMAIN t /\ t[k - 1] = todo[k]
    BY <1>1, <1>2, <1>3
  <2> QED BY <2>1, <1>3 DEF On
<1>4. ASSUME NEW k \in DOMAIN t, t[k].do = do PROVE t[k].gen \in On(todo, do)
  <2>1. k + 1 \in DOMAIN todo /\ todo[k + 1] = t[k]
    BY <1>1, <1>2
  <2> QED BY <2>1, <1>4 DEF On
<1>5. On(todo, do) \subseteq On(t, do) \cup (IF Head(todo).do = do THEN {Head(todo).gen} ELSE {})
  BY <1>1, <1>3 DEF On
<1>6. On(t, do) \subseteq On(todo, do)
  BY <1>4 DEF On
<1>7. Head(todo).do = do => Head(todo).gen \in On(todo, do)
  BY <1>1 DEF On
<1> QED BY <1>5, <1>6, <1>7 DEF t

\* Effects not named in any of a sequence.
LEMMA OnOf ==
  ASSUME NEW S, NEW todo \in Seq(S), NEW do, \A x \in S : x.do # do
  PROVE  On(todo, do) = {}
<1>1. \A k \in DOMAIN todo : todo[k] \in S
  BY SeqFacts
<1> QED BY <1>1 DEF On

-----------------------------------------------------------------------------
(* The program.  One model after another: no generation comes back.        *)

Later(n, p) ==
  /\ n.nextGen <= p.nextGen
  /\ Live(p) \subseteq Live(n) \cup {n.nextGen}
  /\ Steady(p) \subseteq Steady(n) \cup {n.nextGen}

LEMMA DraftFacts ==
  ASSUME NEW n \in Drafts
  PROVE  /\ n.entry \in EntryType /\ n.entry.gen \in 0 .. (n.nextGen - 1) /\ n.nextGen \in Nat \ {0}
         /\ n.departing \subseteq 1 .. (n.nextGen - 1) /\ Live(n) \subseteq 1 .. (n.nextGen - 1)
         /\ Live(n) = Steady(n) \cup LeavingOf(n) /\ Steady(n) \cap LeavingOf(n) = {}
         /\ IsHeld(n.entry) => n.entry.gen \in Live(n) /\ n.entry.tier \in Tier
         /\ n = [entry |-> n.entry, departing |-> n.departing, nextGen |-> n.nextGen, hooked |-> n.hooked, hasStore |-> n.hasStore]
         /\ n.hooked \in BOOLEAN /\ n.hasStore \in BOOLEAN
<1>1. n \in [entry : EntryType, departing : SUBSET Nat, nextGen : Nat \ {0}, hooked : BOOLEAN, hasStore : BOOLEAN]
       /\ Live(n) \subseteq 1 .. (n.nextGen - 1) /\ (~IsHeld(n.entry) => n.entry.gen = 0) /\ Steady(n) \cap n.departing = {}
       /\ (n.entry.phase \notin {"absent", "deferred"} => n.entry.tier \in Tier)
  BY DEF Drafts
<1>2. n.entry \in EntryType /\ n.nextGen \in Nat \ {0} /\ n.hooked \in BOOLEAN /\ n.hasStore \in BOOLEAN
  BY <1>1
<1>3. n = [entry |-> n.entry, departing |-> n.departing, nextGen |-> n.nextGen, hooked |-> n.hooked, hasStore |-> n.hasStore]
  BY <1>1
<1>4. n.departing \subseteq 1 .. (n.nextGen - 1)
  BY <1>1 DEF Live
<1>5. IsHeld(n.entry) => n.entry.gen \in Live(n) /\ n.entry.tier \in Tier
  BY <1>1 DEF Live, Held, IsHeld, HeldPhases
<1>6. n.entry.gen \in 0 .. (n.nextGen - 1)
  BY <1>1, <1>2, <1>5
<1>7. Live(n) = Steady(n) \cup LeavingOf(n) /\ Steady(n) \cap LeavingOf(n) = {}
  BY <1>1 DEF Live, Held, Steady, LeavingOf, IsHeld, HeldPhases
<1> QED BY <1>1, <1>2, <1>3, <1>4, <1>5, <1>6, <1>7

LEMMA ModelFacts ==
  ASSUME NEW n \in Models
  PROVE  /\ n.entry \in EntryType /\ n.entry.gen \in 0 .. (n.nextGen - 1) /\ n.nextGen \in Nat \ {0}
         /\ n.departing \subseteq 1 .. (n.nextGen - 1) /\ Live(n) \subseteq 1 .. (n.nextGen - 1)
         /\ Live(n) = Steady(n) \cup LeavingOf(n) /\ Steady(n) \cap LeavingOf(n) = {}
         /\ IsHeld(n.entry) => n.entry.gen \in Live(n) /\ n.entry.tier \in Tier
         /\ n = [entry |-> n.entry, departing |-> n.departing, nextGen |-> n.nextGen, hooked |-> n.hooked, hasStore |-> n.hasStore]
         /\ n.hooked \in BOOLEAN /\ n.hasStore \in BOOLEAN
BY DraftFacts DEF Models

\* A model with another entry.
LEMMA PutDraft ==
  ASSUME NEW n \in Drafts, NEW e \in EntryType, e.phase \notin {"absent", "deferred"} => e.tier \in Tier,
         IF IsHeld(e) THEN e.gen \in 1 .. (n.nextGen - 1) /\ e.gen \notin n.departing ELSE e.gen = 0
  PROVE  /\ Put(n, e) \in Models /\ Put(n, e).entry = e /\ Put(n, e).departing = n.departing
         /\ Put(n, e).nextGen = n.nextGen /\ Put(n, e).hooked = n.hooked /\ Put(n, e).hasStore = n.hasStore
<1> DEFINE p == Put(n, e)
<1>1. p = [entry |-> e, departing |-> n.departing, nextGen |-> n.nextGen, hooked |-> n.hooked, hasStore |-> n.hasStore]
  BY DraftFacts DEF Put
<1>2. n.departing \subseteq 1 .. (n.nextGen - 1) /\ n.nextGen \in Nat \ {0} /\ n.hooked \in BOOLEAN /\ n.hasStore \in BOOLEAN
  BY DraftFacts
<1>3. p \in [entry : EntryType, departing : SUBSET Nat, nextGen : Nat \ {0}, hooked : BOOLEAN, hasStore : BOOLEAN]
  BY <1>1, <1>2
<1>4. p.entry = e /\ p.departing = n.departing /\ p.nextGen = n.nextGen /\ p.hooked = n.hooked /\ p.hasStore = n.hasStore
  BY <1>1
<1> HIDE DEF p
<1>5. Live(p) \subseteq 1 .. (p.nextGen - 1) /\ Steady(p) \cap p.departing = {} /\ Held(p) \cap p.departing = {}
  BY <1>2, <1>4 DEF Live, Held, Steady
<1>6. p \in Models
  BY <1>3, <1>4, <1>5 DEF Drafts, Models
<1> QED BY <1>4, <1>6 DEF p

LEMMA PutModel ==
  ASSUME NEW n \in Models, NEW e \in EntryType, e.phase \notin {"absent", "deferred"} => e.tier \in Tier,
         IF IsHeld(e) THEN e.gen \in 1 .. (n.nextGen - 1) /\ e.gen \notin n.departing ELSE e.gen = 0
  PROVE  /\ Put(n, e) \in Models /\ Put(n, e).entry = e /\ Put(n, e).departing = n.departing
         /\ Put(n, e).nextGen = n.nextGen /\ Put(n, e).hooked = n.hooked /\ Put(n, e).hasStore = n.hasStore
BY PutDraft DEF Models

\* What is left to do may be left to do after another step.
LEMMA LaterFrames ==
  ASSUME NEW n \in Models, NEW p \in Models, Later(n, p)
  PROVE  /\ Effects(n) \subseteq Effects(p) /\ Wiring(n) \subseteq Wiring(p) /\ Others(n) \subseteq Others(p)
         /\ Todo(n) \subseteq Todo(p) /\ Frames(n) \subseteq Frames(p) /\ Seq(Frames(n)) \subseteq Seq(Frames(p))
<1>1. n.nextGen \in Nat \ {0} /\ p.nextGen \in Nat \ {0} /\ n.nextGen <= p.nextGen
  BY ModelFacts DEF Later
<1>2. 0 .. (n.nextGen - 1) \subseteq 0 .. (p.nextGen - 1)
  BY <1>1
<1>3. ASSUME NEW x \in Effects(n) PROVE x \in Effects(p)
  <2>1. x \in [do : Dos, gen : 0 .. (n.nextGen - 1), arg : Args, on : BOOLEAN, of : 0 .. (n.nextGen - 1)]
    BY <1>3 DEF Effects
  <2>2. x \in [do : Dos, gen : 0 .. (p.nextGen - 1), arg : Args, on : BOOLEAN, of : 0 .. (p.nextGen - 1)]
    BY <2>1, <1>2
  <2>3. x.gen # n.nextGen
    BY <2>1, <1>1
  <2>4. x.gen \notin Live(n) => x.gen \notin Live(p)
    BY <2>3 DEF Later
  <2>5. x.gen \notin Steady(n) => x.gen \notin Steady(p)
    BY <2>3 DEF Later
  <2> QED BY <2>2, <2>4, <2>5, <1>3 DEF Effects
<1>4. Wiring(n) \subseteq Wiring(p) /\ Others(n) \subseteq Others(p) /\ Resuming(n) \subseteq Resuming(p)
  BY <1>3 DEF Wiring, Others, Resuming
<1>5. Todo(n) \subseteq Todo(p)
  BY <1>4, SeqLarger DEF Todo
<1>6. StoreEffects(n) \subseteq StoreEffects(p)
  BY <1>2 DEF StoreEffects
<1>7. Seq(StoreEffects(n)) \subseteq Seq(StoreEffects(p))
  BY <1>6, SeqLarger
<1>8. Frames(n) \subseteq Frames(p)
  BY <1>5, <1>7 DEF Frames
<1> QED BY <1>3, <1>4, <1>5, <1>8, SeqLarger

-----------------------------------------------------------------------------
(* A step of the program, taken on the model n.                            *)

Disposed(s) == On(s.effects, "dispose")
LeftBy(s)   == On(s.effects, "leave")

\* What it builds is of the next generation, in place of one promoted or of none.
Builds(n, s) ==
  \/ s.builds = {} /\ Live(s.m) \subseteq Live(n)
  \/ \E tier \in Tier, of \in {0} \cup (Steady(n) \ Live(s.m)) :
       s.builds = {Build(n.nextGen, tier, of)} /\ s.m.nextGen = n.nextGen + 1

\* An instance held is still held, or leaves, or is disposed of or promoted; one that leaves does, or is disposed of.
Accounts(n, s) ==
  /\ \A g \in Steady(n) : \/ g \in Steady(s.m) \cup Disposed(s) \cup {b.of : b \in s.builds}
                          \/ g \in LeavingOf(s.m) \cap LeftBy(s)
  /\ LeavingOf(n) \subseteq LeavingOf(s.m) \cup Disposed(s)

StepOf(n, s) ==
  /\ s = [m |-> s.m, refused |-> s.refused, builds |-> s.builds, effects |-> s.effects]
  /\ s.m \in Models /\ s.effects \in Todo(s.m) /\ s.refused \in BOOLEAN
  /\ Later(n, s.m) /\ Builds(n, s) /\ Accounts(n, s)
  /\ s.refused => s.m = n /\ s.builds = {}
  /\ On(s.effects, "wire") \subseteq Steady(s.m)

LEMMA DoesIs ==
  ASSUME NEW p, NEW effects
  PROVE  LET s == Does(p, effects) IN
         /\ s = [m |-> p, refused |-> FALSE, builds |-> {}, effects |-> effects]
         /\ s.m = p /\ s.effects = effects /\ ~s.refused /\ s.builds = {}
BY DEF Does

LEMMA SameLater == ASSUME NEW n \in Models PROVE Later(n, n)
BY ModelFacts DEF Later

LEMMA NoTodo == \A n : <<>> \in Seq(Wiring(n)) /\ <<>> \in Seq(Others(n)) /\ <<>> \in Todo(n)
BY EmptySeq DEF Todo

\* Nothing to do, or a refusal.
LEMMA IdleStep ==
  ASSUME NEW n \in Models PROVE StepOf(n, Nothing2Do(n)) /\ StepOf(n, Refuse(n))
<1>1. /\ Nothing2Do(n) = [m |-> n, refused |-> FALSE, builds |-> {}, effects |-> <<>>]
      /\ Refuse(n) = [m |-> n, refused |-> TRUE, builds |-> {}, effects |-> <<>>]
  <2>1. Nothing2Do(n) = [m |-> n, refused |-> FALSE, builds |-> {}, effects |-> <<>>]
    BY DEF Nothing2Do, Does
  <2>2. Refuse(n) = [[m |-> n, refused |-> FALSE, builds |-> {}, effects |-> <<>>] EXCEPT !.refused = TRUE]
    BY <2>1 DEF Refuse
  <2> QED BY <2>1, <2>2
<1>2. ASSUME NEW s, NEW r \in BOOLEAN, s = [m |-> n, refused |-> r, builds |-> {}, effects |-> <<>>] PROVE StepOf(n, s)
  <2>1. s.m = n /\ s.effects = <<>> /\ s.builds = {} /\ s.refused = r
    BY <1>2
  <2>2. On(s.effects, "wire") = {}
    BY <2>1, OnNone
  <2>3. Accounts(n, s)
    BY <2>1 DEF Accounts
  <2>4. Builds(n, s)
    BY <2>1 DEF Builds
  <2> QED BY <1>2, <2>1, <2>2, <2>3, <2>4, SameLater, NoTodo DEF StepOf
<1> QED BY <1>1, <1>2

\* A step of which the instances held stay held, and that only does what it may.
LEMMA KeepStep ==
  ASSUME NEW n \in Models, NEW p \in Models, NEW effects \in Todo(p), p.nextGen = n.nextGen,
         LeavingOf(p) = LeavingOf(n), Steady(p) = Steady(n), On(effects, "wire") \subseteq Steady(p)
  PROVE  StepOf(n, Does(p, effects))
<1> DEFINE s == Does(p, effects)
<1>1. s = [m |-> p, refused |-> FALSE, builds |-> {}, effects |-> effects]
  BY DoesIs
<1>2. s.m = p /\ s.effects = effects /\ s.builds = {} /\ ~s.refused
  BY DoesIs
<1>3. Live(p) = Live(n) /\ n.nextGen \in Nat
  BY ModelFacts
<1> HIDE DEF s
<1>4. Later(n, p) /\ Accounts(n, s) /\ Builds(n, s)
  BY <1>2, <1>3 DEF Later, Accounts, Builds
<1>5. s = [m |-> s.m, refused |-> s.refused, builds |-> s.builds, effects |-> s.effects] /\ s.refused \in BOOLEAN
  BY <1>1, <1>2
<1> QED BY <1>2, <1>4, <1>5 DEF StepOf, s

-----------------------------------------------------------------------------
(* The effects that are left to do.                                        *)

LEMMA EffectFields ==
  ASSUME NEW do, NEW gen, NEW arg, NEW on, NEW of
  PROVE  LET x == Effect(do, gen, arg, on, of) IN x.do = do /\ x.gen = gen /\ x.arg = arg /\ x.on = on /\ x.of = of
BY DEF Effect

LEMMA InEffects ==
  ASSUME NEW p \in Models, NEW do \in Dos, NEW gen \in 0 .. (p.nextGen - 1), NEW arg \in Args, NEW on \in BOOLEAN,
         NEW of \in 0 .. (p.nextGen - 1),
         do \in {"dispose", "close", "wire", "leave"} => gen # 0,
         do = "dispose" => gen \notin Live(p),
         do = "close" => gen \notin Steady(p) /\ arg \in {"pending", "loaded", "failed"},
         do = "store" => arg \in {"hydrated", "register", "destroy", "keep", "state-advanced", "release"}
  PROVE  Effect(do, gen, arg, on, of) \in Effects(p)
<1> DEFINE x == Effect(do, gen, arg, on, of)
<1>1. x \in [do : Dos, gen : 0 .. (p.nextGen - 1), arg : Args, on : BOOLEAN, of : 0 .. (p.nextGen - 1)]
  BY DEF Effect
<1>2. x.do = do /\ x.gen = gen /\ x.arg = arg
  BY EffectFields
<1> HIDE DEF x
<1>3. x \in Effects(p)
  BY <1>1, <1>2 DEF Effects
<1> QED BY <1>3 DEF x

LEMMA NamedIn ==
  ASSUME NEW p \in Models, NEW gen \in 1 .. (p.nextGen - 1)
  PROVE  /\ {Named("adopt", gen), Named("interpreted", gen), Named("wire", gen)} \subseteq Wiring(p)
         /\ {Named("adopt", gen), Named("interpreted", gen), Named("load", gen), Named("drain", gen), Named("leave", gen)}
              \subseteq Others(p)
         /\ gen \notin Live(p) => Named("dispose", gen) \in Others(p)
<1>1. p.nextGen \in Nat \ {0} /\ gen \in 0 .. (p.nextGen - 1) /\ 0 \in 0 .. (p.nextGen - 1) /\ gen # 0
  BY ModelFacts
<1>2. ASSUME NEW do \in {"adopt", "interpreted", "wire", "load", "drain", "leave"} PROVE Effect(do, gen, "", FALSE, 0) \in Effects(p)
  <2>1. do \in Dos /\ "" \in Args /\ FALSE \in BOOLEAN /\ do \notin {"dispose", "close", "store"}
    BY DEF Dos, Args
  <2> QED BY <1>1, <2>1, InEffects
<1>3. gen \notin Live(p) => Effect("dispose", gen, "", FALSE, 0) \in Effects(p)
  <2>1. "dispose" \in Dos /\ "" \in Args /\ FALSE \in BOOLEAN
    BY DEF Dos, Args
  <2> QED BY <1>1, <2>1, InEffects
<1>4. \A do \in {"adopt", "interpreted", "wire", "load", "drain", "leave"} : Named(do, gen) \in Effects(p) /\ Named(do, gen).do = do
  BY <1>2 DEF Effect, Named
<1>5. gen \notin Live(p) => Named("dispose", gen) \in Effects(p) /\ Named("dispose", gen).do = "dispose"
  BY <1>3 DEF Effect, Named
<1> QED BY <1>4, <1>5 DEF Wiring, Others

LEMMA StoreIn ==
  ASSUME NEW p \in Models, NEW of \in 0 .. (p.nextGen - 1)
  PROVE  /\ \A arg \in {"hydrated", "register", "keep"} : ToStore(arg, of) \in Wiring(p) \cap Others(p)
         /\ \A arg \in {"destroy", "state-advanced", "release"} : ToStore(arg, of) \in Others(p)
<1>1. p.nextGen \in Nat \ {0} /\ 0 \in 0 .. (p.nextGen - 1)
  BY ModelFacts
<1>2. ASSUME NEW arg \in {"hydrated", "register", "keep", "destroy", "state-advanced", "release"}
      PROVE  Effect("store", 0, arg, FALSE, of) \in Effects(p)
  <2>1. "store" \in Dos /\ arg \in Args /\ FALSE \in BOOLEAN
    BY DEF Dos, Args
  <2> QED BY <1>1, <2>1, InEffects
<1> QED BY <1>2 DEF Effect, ToStore, Wiring, Others

LEMMA NotifyIn ==
  ASSUME NEW p \in Models
  PROVE  /\ Notify("destroyed") \in Others(p) /\ Notify("suspended") \in Others(p) /\ Notify("resumed") \in Resuming(p)
         /\ \A on \in BOOLEAN : Leaving(on) \in Wiring(p) \cap Others(p)
<1>1. p.nextGen \in Nat \ {0} /\ 0 \in 0 .. (p.nextGen - 1)
  BY ModelFacts
<1>2. ASSUME NEW arg \in {"destroyed", "suspended", "resumed"} PROVE Effect("notify", 0, arg, FALSE, 0) \in Effects(p)
  <2>1. "notify" \in Dos /\ arg \in Args /\ FALSE \in BOOLEAN
    BY DEF Dos, Args
  <2> QED BY <1>1, <2>1, InEffects
<1>3. ASSUME NEW on \in BOOLEAN PROVE Effect("leaving", 0, "", on, 0) \in Effects(p)
  <2>1. "leaving" \in Dos /\ "" \in Args
    BY DEF Dos, Args
  <2> QED BY <1>1, <2>1, InEffects
<1> QED BY <1>2, <1>3 DEF Effect, Notify, Leaving, Wiring, Others, Resuming

LEMMA RegisterIn ==
  ASSUME NEW p \in Models, NEW gen \in 1 .. (p.nextGen - 1), NEW suspended \in BOOLEAN
  PROVE  Register(gen, suspended) \in Wiring(p) \cap Others(p)
<1>1. p.nextGen \in Nat \ {0} /\ gen \in 0 .. (p.nextGen - 1) /\ 0 \in 0 .. (p.nextGen - 1)
  BY ModelFacts
<1>2. Effect("register", gen, "", suspended, 0) \in Effects(p)
  <2>1. "register" \in Dos /\ "" \in Args
    BY DEF Dos, Args
  <2> QED BY <1>1, <2>1, InEffects
<1> QED BY <1>2 DEF Effect, Register, Wiring, Others

LEMMA CloseIn ==
  ASSUME NEW p \in Models, NEW gen \in 1 .. (p.nextGen - 1), gen \notin Steady(p), NEW arg \in {"pending", "loaded", "failed"}
  PROVE  Effect("close", gen, arg, FALSE, 0) \in Others(p)
<1>1. p.nextGen \in Nat \ {0} /\ gen \in 0 .. (p.nextGen - 1) /\ 0 \in 0 .. (p.nextGen - 1) /\ gen # 0
  BY ModelFacts
<1>2. Effect("close", gen, arg, FALSE, 0) \in Effects(p)
  <2>1. arg \in Args
    BY DEF Args
  <2> QED BY <1>1, <2>1, InEffects DEF Dos
<1> QED BY <1>2 DEF Effect, Others

LEMMA Hydration == \A e \in EntryType : HydrationOf(e) \in {"pending", "loaded", "failed"}
BY DEF HydrationOf

LEMMA WhenIn ==
  ASSUME NEW S, NEW condition, NEW x, condition => x \in S
  PROVE  When(condition, <<x>>) \in Seq(S)
<1>1. condition => <<x>> \in Seq(S)
  OBVIOUS
<1> QED BY <1>1, EmptySeq DEF When

LEMMA OnWhen ==
  ASSUME NEW condition, NEW x, NEW do
  PROVE  On(When(condition, <<x>>), do) = IF condition /\ x.do = do THEN {x.gen} ELSE {}
BY OnOne, OnNone DEF When

LEMMA OnTwo ==
  ASSUME NEW x, NEW y, NEW do
  PROVE  On(<<x, y>>, do) = (IF x.do = do THEN {x.gen} ELSE {}) \cup (IF y.do = do THEN {y.gen} ELSE {})
<1>1. DOMAIN <<x, y>> = {1, 2} /\ <<x, y>>[1] = x /\ <<x, y>>[2] = y
  OBVIOUS
<1>2. On(<<x, y>>, do) = {g \in {x.gen, y.gen} : (g = x.gen /\ x.do = do) \/ (g = y.gen /\ y.do = do)}
  BY <1>1 DEF On
<1> QED BY <1>2, OnOne

\* Sequences of a set, one after another.
LEMMA BothIn == \A S : \A s, t \in Seq(S) : s \o t \in Seq(S)
BY ConcatProperties

-----------------------------------------------------------------------------
(* Loading and building.                                                   *)

LEMMA BaseEntries ==
  /\ Absent \in EntryType /\ Deferred \in EntryType /\ ~IsHeld(Absent) /\ ~IsHeld(Deferred)
  /\ Absent.phase = "absent" /\ Deferred.phase = "deferred" /\ Absent.gen = 0 /\ Deferred.gen = 0
BY DEF Absent, Deferred, Entry, EntryType, Phases, Tier, IsHeld, HeldPhases

\* A load ends with the instance held, or with it disposed of.
LoadEnds(n, gen, create, s) ==
  /\ s = [m |-> s.m, refused |-> FALSE, builds |-> {}, effects |-> s.effects]
  /\ s.m \in Models /\ s.m.nextGen = n.nextGen /\ LeavingOf(s.m) = n.departing
  /\ On(s.effects, "wire") \subseteq Steady(s.m)
  /\ \/ s.m.entry.phase = "ready" /\ Steady(s.m) = {gen} /\ s.effects \in Seq(Wiring(s.m))
     \/ ~create /\ Steady(s.m) = {} /\ s.effects \in Seq(Others(s.m)) /\ gen \in Disposed(s)

LEMMA NotHeldEnds ==
  ASSUME NEW n \in Drafts, NEW e \in EntryType, e.gen \in 1 .. (n.nextGen - 1), e.gen \notin n.departing, e.intent # "create"
  PROVE  LoadEnds(n, e.gen, e.intent = "create", NotHeld(n, e))
<1> DEFINE x == IF e.intent = "open-deferred" THEN Deferred ELSE Absent
           p == Put(n, x)
           c == Effect("close", e.gen, "failed", FALSE, 0)
           d == Named("dispose", e.gen)
           cd == <<c, d>>
           w == When(e.intent = "open-unloaded", <<Notify("destroyed")>>)
           s == NotHeld(n, e)
<1>1. x \in EntryType /\ ~IsHeld(x) /\ x.gen = 0 /\ x.phase \in {"absent", "deferred"}
  BY BaseEntries
<1>2. p \in Models /\ p.entry = x /\ p.departing = n.departing /\ p.nextGen = n.nextGen
  BY <1>1, PutDraft
<1>3. Steady(p) = {} /\ LeavingOf(p) = n.departing /\ Live(p) = n.departing
  BY <1>1, <1>2 DEF Steady, LeavingOf, Live, Held
<1>4. s = [m |-> p, refused |-> FALSE, builds |-> {}, effects |-> cd \o w]
  BY DEF NotHeld, Does
<1> HIDE DEF p, s, x
<1>5. c \in Others(p)
  BY <1>2, <1>3, CloseIn
<1>6. d \in Others(p)
  BY <1>2, <1>3, NamedIn
<1>7. w \in Seq(Others(p))
  BY <1>2, NotifyIn, WhenIn
<1>9. c.do = "close" /\ d.do = "dispose" /\ d.gen = e.gen /\ Notify("destroyed").do = "notify"
  BY DEF Effect, Named, Notify
<1> HIDE DEF c, d, w
<1>8. cd \in Seq(Others(p))
  BY <1>5, <1>6
<1>11. On(cd, "wire") = {} /\ e.gen \in On(cd, "dispose")
  BY <1>9, OnTwo
<1> HIDE DEF cd
<1>10. On(cd \o w, "dispose") = On(cd, "dispose") \cup On(w, "dispose")
       /\ On(cd \o w, "wire") = On(cd, "wire") \cup On(w, "wire")
  BY <1>7, <1>8, OnBoth
<1>12. On(w, "wire") = {}
  BY <1>9, OnWhen DEF w
<1>13. cd \o w \in Seq(Others(p))
  BY <1>7, <1>8, BothIn
<1>14. s.m = p /\ s.effects = cd \o w
  BY <1>4
<1> QED BY <1>2, <1>3, <1>4, <1>10, <1>11, <1>12, <1>13, <1>14 DEF LoadEnds, Disposed, s

LEMMA Learns ==
  ASSUME NEW p \in Models, NEW outcome \in {"stored", "empty", "none"}
  PROVE  StoreLearns(outcome) \in Seq(Wiring(p)) /\ On(StoreLearns(outcome), "wire") = {}
<1>1. ToStore("hydrated", 0) \in Wiring(p) /\ ToStore("register", 0) \in Wiring(p)
  <2>1. 0 \in 0 .. (p.nextGen - 1)
    BY ModelFacts
  <2> QED BY <2>1, StoreIn
<1>2. <<ToStore("hydrated", 0)>> \in Seq(Wiring(p)) /\ <<ToStore("register", 0)>> \in Seq(Wiring(p))
  BY <1>1
<1>3. \A arg : ToStore(arg, 0).do = "store"
  BY DEF ToStore, Effect
<1> QED BY <1>2, <1>3, OnOne, OnNone, NoTodo DEF StoreLearns

LEMMA FinishLoadEnds ==
  ASSUME NEW n \in Drafts, NEW e \in EntryType, e.gen \in 1 .. (n.nextGen - 1), e.gen \notin n.departing, e.tier \in Tier,
         NEW outcome \in {"stored", "empty", "none"}
  PROVE  LoadEnds(n, e.gen, e.intent = "create", FinishLoad(n, e, outcome))
<1>1. CASE e.intent # "create" /\ outcome # "stored"
  BY <1>1, NotHeldEnds DEF FinishLoad
<1>2. CASE ~(e.intent # "create" /\ outcome # "stored")
  <2> DEFINE x == [e EXCEPT !.phase = "ready", !.intent = "none", !.registered = n.hooked]
             p == Put(n, x)
             a == When(e.tier = "interpret", <<Named("adopt", e.gen)>>)
             b == StoreLearns(outcome)
             c == When(Registers(n, FALSE), <<Register(e.gen, e.suspended)>>)
             d == When(e.tier = "interpret", <<Named("wire", e.gen)>>)
             s == FinishLoad(n, e, outcome)
  <2>1. x \in EntryType /\ x.phase = "ready" /\ x.gen = e.gen /\ x.tier = e.tier /\ IsHeld(x)
    BY DraftFacts DEF EntryType, Phases, HeldPhases, IsHeld
  <2>2. p \in Models /\ p.entry = x /\ p.departing = n.departing /\ p.nextGen = n.nextGen
    BY <2>1, PutDraft
  <2>3. Steady(p) = {e.gen} /\ LeavingOf(p) = n.departing
    BY <2>1, <2>2 DEF Steady, LeavingOf, Held
  <2>4. s = [m |-> p, refused |-> FALSE, builds |-> {}, effects |-> a \o b \o c \o d]
    BY <1>2 DEF FinishLoad, Does
  <2> HIDE DEF p, s, x
  <2>5. a \in Seq(Wiring(p)) /\ d \in Seq(Wiring(p))
    BY <2>2, NamedIn, WhenIn
  <2>6. b \in Seq(Wiring(p)) /\ On(b, "wire") = {}
    BY <2>2, Learns
  <2>7. c \in Seq(Wiring(p))
    <3>1. Register(e.gen, e.suspended) \in Wiring(p)
      BY <2>2, RegisterIn DEF EntryType
    <3> QED BY <3>1, WhenIn
  <2>8. Named("adopt", e.gen).do = "adopt" /\ Register(e.gen, e.suspended).do = "register" /\ Named("wire", e.gen).gen = e.gen
    BY DEF Named, Effect, Register
  <2>9. On(a, "wire") = {} /\ On(c, "wire") = {} /\ On(d, "wire") \subseteq {e.gen}
    BY <2>8, OnWhen
  <2> HIDE DEF a, b, c, d
  <2> DEFINE ab == a \o b
             abc == ab \o c
  <2>10. ab \in Seq(Wiring(p)) /\ On(ab, "wire") = On(a, "wire") \cup On(b, "wire")
    BY <2>5, <2>6, OnBoth, BothIn
  <2> HIDE DEF ab
  <2>11. abc \in Seq(Wiring(p)) /\ On(abc, "wire") = On(ab, "wire") \cup On(c, "wire")
    BY <2>7, <2>10, OnBoth, BothIn
  <2> HIDE DEF abc
  <2>14. abc \o d \in Seq(Wiring(p)) /\ On(abc \o d, "wire") = On(abc, "wire") \cup On(d, "wire")
    BY <2>5, <2>11, OnBoth, BothIn
  <2>12. s.m = p /\ s.effects = abc \o d /\ s = [m |-> p, refused |-> FALSE, builds |-> {}, effects |-> abc \o d]
    BY <2>4 DEF ab, abc
  <2>13. s.m.entry.phase = "ready"
    BY <2>12, <2>2, <2>1
  <2> QED BY <2>2, <2>3, <2>6, <2>9, <2>10, <2>11, <2>14, <2>12, <2>13 DEF LoadEnds, s
<1> QED BY <1>1, <1>2

\* What a build comes to, whatever the instance held before.
LEMMA BeginStep ==
  ASSUME NEW n \in Drafts, NEW tier \in Tier, NEW promoted \in Nat, NEW suspended \in BOOLEAN,
         NEW intent \in {"create", "open-deferred", "open-unloaded", "open-absent"},
         promoted = 0 \/ promoted \in Steady(n), Steady(n) \subseteq {promoted}, LeavingOf(n) = n.departing
  PROVE  LET s == Begin(n, tier, promoted, suspended, intent) IN
         /\ StepOf(n, s) /\ ~s.refused
         /\ promoted # 0 /\ intent = "create" => s.effects \in Seq(Wiring(s.m))
<1> DEFINE gen     == n.nextGen
           issued  == Issued(n)
           loading == [Entry("loading", gen, tier, suspended) EXCEPT !.intent = intent]
           loads   == IF n.hasStore /\ promoted = 0 THEN Does(Put(issued, loading), <<Named("load", gen)>>)
                      ELSE FinishLoad(issued, loading, "none")
           before  == When(tier = "interpret", <<Named("interpreted", gen)>>)
           s       == Begin(n, tier, promoted, suspended, intent)
<1>1. gen \in Nat \ {0} /\ n.departing \subseteq 1 .. (gen - 1) /\ Live(n) = Steady(n) \cup LeavingOf(n)
      /\ Live(n) \subseteq 1 .. (gen - 1) /\ Steady(n) \cap LeavingOf(n) = {}
  BY DraftFacts
<1>2. issued = [entry |-> n.entry, departing |-> n.departing, nextGen |-> gen + 1, hooked |-> n.hooked, hasStore |-> n.hasStore]
  BY DraftFacts DEF Issued
<1>3. issued \in Drafts
  <2>1. issued \in [entry : EntryType, departing : SUBSET Nat, nextGen : Nat \ {0}, hooked : BOOLEAN, hasStore : BOOLEAN]
    BY <1>1, <1>2, DraftFacts
  <2>2. issued.entry = n.entry /\ issued.departing = n.departing /\ issued.nextGen = gen + 1
    BY <1>2
  <2> HIDE DEF issued
  <2>3. Live(issued) = Live(n) /\ Steady(issued) = Steady(n)
    BY <2>2 DEF Live, Held, Steady
  <2>4. Live(issued) \subseteq 1 .. (issued.nextGen - 1)
    BY <1>1, <2>2, <2>3
  <2>5. (~IsHeld(n.entry) => n.entry.gen = 0) /\ Steady(n) \cap n.departing = {}
        /\ (n.entry.phase \notin {"absent", "deferred"} => n.entry.tier \in Tier)
    BY DEF Drafts
  <2> QED BY <2>1, <2>2, <2>3, <2>4, <2>5 DEF Drafts
<1>4. issued.departing = n.departing /\ issued.nextGen = gen + 1
  BY <1>2
<1>5. /\ loading \in EntryType /\ loading.phase = "loading" /\ loading.gen = gen /\ loading.tier = tier
      /\ loading.intent = intent /\ IsHeld(loading)
  BY <1>1 DEF Entry, EntryType, Phases, HeldPhases, IsHeld
<1>6. loading.gen \in 1 .. (issued.nextGen - 1) /\ loading.gen \notin issued.departing
  BY <1>1, <1>4, <1>5
<1>7. s = [loads EXCEPT !.builds = {Build(gen, tier, promoted)}, !.effects = before \o @]
  BY DEF Begin
<1>8. Named("interpreted", gen).do = "interpreted" /\ Named("load", gen).do = "load"
  BY DEF Named, Effect
<1>9. On(before, "wire") = {} /\ On(<<Named("load", gen)>>, "wire") = {}
  BY <1>8, OnWhen, OnOne
<1> HIDE DEF issued, loading
<1>10. /\ loads = [m |-> loads.m, refused |-> FALSE, builds |-> {}, effects |-> loads.effects]
       /\ loads.m \in Models /\ loads.m.nextGen = gen + 1 /\ LeavingOf(loads.m) = n.departing
       /\ Steady(loads.m) \subseteq {gen}
       /\ before \o loads.effects \in Todo(loads.m) /\ On(before \o loads.effects, "wire") \subseteq Steady(loads.m)
       /\ promoted # 0 /\ intent = "create" => before \o loads.effects \in Seq(Wiring(loads.m))
  <2>1. CASE n.hasStore /\ promoted = 0
    <3> DEFINE p == Put(issued, loading)
    <3>1. p \in Models /\ p.entry = loading /\ p.departing = n.departing /\ p.nextGen = gen + 1
      BY <1>3, <1>4, <1>5, <1>6, PutDraft
    <3>2. loads = [m |-> p, refused |-> FALSE, builds |-> {}, effects |-> <<Named("load", gen)>>]
      BY <2>1 DEF Does
    <3>3. loads.m = p /\ loads.effects = <<Named("load", gen)>>
      BY <3>2
    <3> HIDE DEF p, loads
    <3>4. Steady(p) = {gen} /\ LeavingOf(p) = n.departing
      BY <3>1, <1>5 DEF Steady, LeavingOf, Held
    <3>5. gen \in 1 .. (p.nextGen - 1)
      BY <3>1, <1>1
    <3>6. Named("load", gen) \in Others(p) /\ Named("interpreted", gen) \in Others(p)
      BY <3>1, <3>5, NamedIn
    <3>7. before \in Seq(Others(p))
      BY <3>6, WhenIn
    <3> DEFINE load == <<Named("load", gen)>>
    <3>8. load \in Seq(Others(p)) /\ On(load, "wire") = {}
      BY <3>6, <1>9
    <3> HIDE DEF before, load
    <3>9. before \o load \in Seq(Others(p)) /\ On(before \o load, "wire") = {}
      BY <3>7, <3>8, <1>9, BothIn, OnBoth
    <3>10. loads.effects = load
      BY <3>3 DEF load
    <3> QED BY <2>1, <3>1, <3>2, <3>3, <3>4, <3>9, <3>10 DEF Todo
  <2>2. CASE ~(n.hasStore /\ promoted = 0)
    <3>1. LoadEnds(issued, loading.gen, loading.intent = "create", loads)
      BY <2>2, <1>3, <1>5, <1>6, FinishLoadEnds
    <3> HIDE DEF loads
    <3> DEFINE p == loads.m
               t == loads.effects
    <3>2. /\ loads = [m |-> p, refused |-> FALSE, builds |-> {}, effects |-> t]
          /\ p \in Models /\ p.nextGen = gen + 1 /\ LeavingOf(p) = n.departing /\ On(t, "wire") \subseteq Steady(p)
          /\ \/ Steady(p) = {gen} /\ t \in Seq(Wiring(p))
             \/ intent # "create" /\ Steady(p) = {} /\ t \in Seq(Others(p))
      BY <3>1, <1>4, <1>5 DEF LoadEnds
    <3> HIDE DEF p, t
    <3>3. gen \in 1 .. (p.nextGen - 1)
      BY <3>2, <1>1
    <3>4. before \in Seq(Wiring(p)) /\ before \in Seq(Others(p))
      BY <3>2, <3>3, NamedIn, WhenIn
    <3> HIDE DEF before
    <3>5. ASSUME t \in Seq(Wiring(p))
          PROVE  before \o t \in Seq(Wiring(p)) /\ On(before \o t, "wire") = On(t, "wire")
      <4>1. before \o t \in Seq(Wiring(p)) /\ On(before \o t, "wire") = On(before, "wire") \cup On(t, "wire")
        BY <3>4, <3>5, BothIn, OnBoth
      <4>2. On(before, "wire") = {}
        BY <1>9
      <4> QED BY <4>1, <4>2
    <3>8. ASSUME t \in Seq(Others(p))
          PROVE  before \o t \in Seq(Others(p)) /\ On(before \o t, "wire") = On(t, "wire")
      <4>1. before \o t \in Seq(Others(p)) /\ On(before \o t, "wire") = On(before, "wire") \cup On(t, "wire")
        BY <3>4, <3>8, BothIn, OnBoth
      <4>2. On(before, "wire") = {}
        BY <1>9
      <4> QED BY <4>1, <4>2
    <3>6. CASE Steady(p) = {gen} /\ t \in Seq(Wiring(p))
      BY <3>6, <3>5, <3>2 DEF Todo, p, t
    <3>7. CASE intent # "create" /\ Steady(p) = {} /\ t \in Seq(Others(p))
      BY <3>7, <3>8, <3>2 DEF Todo, p, t
    <3> QED BY <3>2, <3>6, <3>7
  <2> QED BY <2>1, <2>2
<1> HIDE DEF loads, before, s
<1> DEFINE p == loads.m
           b == Build(gen, tier, promoted)
           t == before \o loads.effects
<1>11. s = [m |-> p, refused |-> FALSE, builds |-> {b}, effects |-> t]
  <2>1. s = [loads EXCEPT !.builds = {b}, !.effects = t]
    BY <1>7, <1>10
  <2> DEFINE u == loads.effects
  <2>2. loads = [m |-> p, refused |-> FALSE, builds |-> {}, effects |-> u]
    BY <1>10
  <2> HIDE DEF p, b, t, u
  <2> QED BY <2>1, <2>2
<1>12. s.m = p /\ s.builds = {b} /\ s.effects = before \o loads.effects /\ ~s.refused /\ b.of = promoted
  BY <1>11 DEF Build
<1>13. Live(p) = Steady(p) \cup LeavingOf(p)
  BY <1>10, ModelFacts
<1>14. Later(n, p)
  BY <1>1, <1>10, <1>13 DEF Later
<1>15. Builds(n, s)
  <2>1. promoted \in {0} \cup (Steady(n) \ Live(p))
    BY <1>1, <1>10, <1>13
  <2>2. s.builds = {Build(gen, tier, promoted)} /\ s.m.nextGen = gen + 1
    BY <1>12, <1>10
  <2> QED BY <2>1, <2>2, <1>12 DEF Builds
<1>16. Accounts(n, s)
  BY <1>10, <1>12 DEF Accounts
<1>17. s = [m |-> s.m, refused |-> s.refused, builds |-> s.builds, effects |-> s.effects] /\ s.refused \in BOOLEAN
  BY <1>11
<1> QED BY <1>10, <1>12, <1>14, <1>15, <1>16, <1>17 DEF StepOf, s

-----------------------------------------------------------------------------
(* The doors.                                                              *)

\* A step taken from a model of the same instances, with what is put before it.
LEMMA StepFrom ==
  ASSUME NEW n \in Models, NEW r \in Drafts, r.nextGen = n.nextGen, Steady(r) = Steady(n), LeavingOf(r) = LeavingOf(n),
         NEW s, StepOf(r, s), ~s.refused,
         NEW u, u = [m |-> s.m, refused |-> FALSE, builds |-> s.builds, effects |-> u.effects],
         u.effects \in Todo(s.m), On(u.effects, "wire") \subseteq Steady(s.m),
         Disposed(s) \subseteq Disposed(u), LeftBy(s) \subseteq LeftBy(u)
  PROVE  StepOf(n, u)
<1>1. u.m = s.m /\ u.builds = s.builds /\ u.refused = FALSE
  <2> DEFINE e == u.effects
  <2>1. u = [m |-> s.m, refused |-> FALSE, builds |-> s.builds, effects |-> e]
    OBVIOUS
  <2> HIDE DEF e
  <2> QED BY <2>1
<1>2. Live(n) = Live(r)
  BY ModelFacts, DraftFacts
<1>3. s.m \in Models /\ Later(r, s.m) /\ Builds(r, s) /\ Accounts(r, s)
  BY DEF StepOf
<1>4. Later(n, u.m)
  BY <1>1, <1>2, <1>3 DEF Later
<1>5. Builds(n, u)
  BY <1>1, <1>2, <1>3 DEF Builds
<1>6. Accounts(n, u)
  BY <1>1, <1>3 DEF Accounts
<1> QED BY <1>1, <1>3, <1>4, <1>5, <1>6 DEF StepOf

LEMMA SameStep ==
  ASSUME NEW n \in Models, NEW r \in Drafts, r.nextGen = n.nextGen, Steady(r) = Steady(n), LeavingOf(r) = LeavingOf(n),
         NEW s, StepOf(r, s), ~s.refused
  PROVE  StepOf(n, s)
<1>1. s = [m |-> s.m, refused |-> s.refused, builds |-> s.builds, effects |-> s.effects] /\ s.refused = FALSE
  BY DEF StepOf
<1>2. s.effects \in Todo(s.m) /\ On(s.effects, "wire") \subseteq Steady(s.m)
  BY DEF StepOf
<1>3. s = [m |-> s.m, refused |-> FALSE, builds |-> s.builds, effects |-> s.effects]
  BY <1>1, Zenon
<1> QED BY <1>2, <1>3, StepFrom

LEMMA LoadAgainStep ==
  ASSUME NEW n \in Models, n.entry.phase \in {"unloaded", "leaving"}, NEW tier \in Tier, NEW kind \in {"create", "open"}
  PROVE  StepOf(n, LoadAgain(n, tier, kind))
<1> DEFINE e == n.entry
           r == IF e.phase = "leaving" THEN [n EXCEPT !.departing = @ \cup {e.gen}] ELSE n
           intent == IF kind = "create" THEN "create" ELSE "open-unloaded"
           s == Begin(r, tier, 0, e.suspended, intent)
<1>1. /\ e \in EntryType /\ n.nextGen \in Nat \ {0} /\ n.departing \subseteq 1 .. (n.nextGen - 1)
      /\ e.phase = "leaving" => e.gen \in 1 .. (n.nextGen - 1)
      /\ n = [entry |-> e, departing |-> n.departing, nextGen |-> n.nextGen, hooked |-> n.hooked, hasStore |-> n.hasStore]
      /\ n.hooked \in BOOLEAN /\ n.hasStore \in BOOLEAN
  BY ModelFacts DEF IsHeld, HeldPhases
<1>2. r \in Drafts /\ r.nextGen = n.nextGen /\ Steady(r) = {} /\ Steady(n) = {} /\ LeavingOf(r) = LeavingOf(n)
      /\ LeavingOf(r) = r.departing
  <2>1. CASE e.phase = "leaving"
    <3>1. r = [entry |-> e, departing |-> n.departing \cup {e.gen}, nextGen |-> n.nextGen, hooked |-> n.hooked, hasStore |-> n.hasStore]
      BY <1>1, <2>1
    <3>2. r.entry = e /\ r.departing = n.departing \cup {e.gen} /\ r.nextGen = n.nextGen
      BY <3>1
    <3>3. r \in [entry : EntryType, departing : SUBSET Nat, nextGen : Nat \ {0}, hooked : BOOLEAN, hasStore : BOOLEAN]
      BY <3>1, <1>1
    <3> HIDE DEF r
    <3>4. Steady(r) = {} /\ Steady(n) = {} /\ LeavingOf(r) = LeavingOf(n) /\ LeavingOf(r) = r.departing
      BY <3>2, <2>1 DEF Steady, LeavingOf
    <3>5. Live(r) \subseteq 1 .. (r.nextGen - 1)
      BY <3>2, <1>1, <2>1 DEF Live, Held
    <3>6. IsHeld(e) /\ e.tier \in Tier
      BY <2>1, ModelFacts DEF IsHeld, HeldPhases
    <3> QED BY <3>2, <3>3, <3>4, <3>5, <3>6 DEF Drafts
  <2>2. CASE e.phase = "unloaded"
    BY <2>2 DEF Steady, LeavingOf, Held, IsHeld, HeldPhases, Models
  <2> QED BY <2>1, <2>2
<1> HIDE DEF r
<1>3. e.suspended \in BOOLEAN
  BY <1>1 DEF EntryType
<1>4. StepOf(r, s) /\ ~s.refused
  BY <1>2, <1>3, BeginStep
<1>5. LoadAgain(n, tier, kind) = s
  BY DEF LoadAgain, r
<1> HIDE DEF s
<1>6. StepOf(n, s)
  BY <1>2, <1>4, SameStep
<1> QED BY <1>5, <1>6

LEMMA GetStoredStep ==
  ASSUME NEW n \in Models, n.entry.phase \in {"unloaded", "leaving"}, NEW kind \in {"create", "open"}, NEW fits \in BOOLEAN
  PROVE  StepOf(n, GetStored(n, kind, fits))
BY LoadAgainStep, IdleStep DEF GetStored, Tier

LEMMA GetCachedStep ==
  ASSUME NEW n \in Models, n.entry.phase \in {"loading", "ready", "failed"}, NEW kind, NEW fits
  PROVE  StepOf(n, GetCached(n, kind, fits)) /\ GetCached(n, kind, fits).effects = <<>>
<1> DEFINE e == [n.entry EXCEPT !.intent = "create"]
           p == Put(n, e)
<1>1. e \in EntryType /\ e.phase = n.entry.phase /\ e.tier = n.entry.tier /\ e.gen = n.entry.gen /\ IsHeld(e) /\ IsHeld(n.entry)
  BY ModelFacts DEF EntryType, IsHeld, HeldPhases
<1>2. n.entry.gen \in 1 .. (n.nextGen - 1) /\ n.entry.gen \notin n.departing /\ n.entry.tier \in Tier
  BY <1>1, ModelFacts DEF Steady, LeavingOf, Held
<1>3. p \in Models /\ p.entry = e /\ p.departing = n.departing /\ p.nextGen = n.nextGen
  BY <1>1, <1>2, PutModel
<1> HIDE DEF e, p
<1>4. Steady(p) = Steady(n) /\ LeavingOf(p) = LeavingOf(n)
  BY <1>1, <1>3 DEF Steady, LeavingOf, Held
<1>5. StepOf(n, Does(p, <<>>))
  BY <1>3, <1>4, NoTodo, OnNone, KeepStep
<1>6. StepOf(n, Nothing2Do(p)) /\ Nothing2Do(p).effects = <<>>
  BY <1>5, DoesIs DEF Nothing2Do
<1>7. /\ StepOf(n, Nothing2Do(n)) /\ StepOf(n, Refuse(n))
      /\ Nothing2Do(n).effects = <<>> /\ Refuse(n).effects = <<>>
  BY IdleStep DEF Nothing2Do, Refuse, Does
<1> QED BY <1>6, <1>7 DEF GetCached, p, e

\* A promotion, which wires.
LEMMA GetReplicaStep ==
  ASSUME NEW n \in Models, n.entry.phase \in {"loading", "ready", "failed"}, NEW fits
  PROVE  /\ StepOf(n, GetReplica(n, fits))
         /\ ~GetReplica(n, fits).refused => GetReplica(n, fits).effects \in Seq(Wiring(GetReplica(n, fits).m))
<1> DEFINE s == Begin(n, "interpret", n.entry.gen, n.entry.suspended, "create")
<1>1. IsHeld(n.entry) /\ n.entry.gen \in Live(n) /\ Steady(n) = {n.entry.gen} /\ LeavingOf(n) = n.departing /\ n.entry.suspended \in BOOLEAN
      /\ n.entry.gen \in Nat \ {0}
  BY ModelFacts DEF Steady, LeavingOf, Held, IsHeld, HeldPhases, EntryType
<1>2. StepOf(n, s) /\ ~s.refused /\ s.effects \in Seq(Wiring(s.m))
  BY <1>1, BeginStep DEF Tier, Models
<1> HIDE DEF s
<1>3. StepOf(n, Refuse(n)) /\ Refuse(n).refused
  BY IdleStep DEF Nothing2Do, Refuse, Does
<1>4. GetReplica(n, fits) = s \/ GetReplica(n, fits) = Refuse(n)
  BY DEF GetReplica, s
<1> QED BY <1>2, <1>3, <1>4

LEMMA GetNewStep ==
  ASSUME NEW n \in Models, n.entry.phase \in {"absent", "deferred"}, NEW kind \in {"create", "open"}
  PROVE  StepOf(n, GetNew(n, kind))
<1> DEFINE intent == CASE kind = "create" -> "create"
                       [] kind = "open" /\ n.entry.phase = "deferred" -> "open-deferred"
                       [] kind = "open" /\ n.entry.phase = "absent"   -> "open-absent"
<1>1. intent \in {"create", "open-deferred", "open-unloaded", "open-absent"}
  OBVIOUS
<1> HIDE DEF intent
<1>2. Steady(n) = {} /\ LeavingOf(n) = n.departing
  BY DEF Steady, LeavingOf, Held, IsHeld, HeldPhases
<1>3. StepOf(n, Begin(n, "interpret", 0, FALSE, intent))
  BY <1>1, <1>2, BeginStep DEF Tier, Models
<1>4. GetNew(n, kind) = Nothing2Do(n) \/ GetNew(n, kind) = Begin(n, "interpret", 0, FALSE, intent)
  BY DEF GetNew, intent
<1> QED BY <1>3, <1>4, IdleStep

LEMMA GetOtherStep ==
  ASSUME NEW n \in Models, n.entry.phase # "storing", NEW kind \in {"create", "open"}, NEW fits \in BOOLEAN
  PROVE  /\ StepOf(n, GetOther(n, kind, fits))
         /\ n.entry.phase = "ready" /\ ~GetOther(n, kind, fits).refused =>
              GetOther(n, kind, fits).effects \in Seq(Wiring(GetOther(n, kind, fits).m))
<1>1. n.entry \in EntryType /\ (IsHeld(n.entry) => n.entry.tier \in Tier)
  BY ModelFacts
<1>2. CASE n.entry.phase \in {"unloaded", "leaving"}
  BY <1>2, GetStoredStep DEF GetOther
<1>3. CASE n.entry.phase \in {"absent", "deferred"}
  BY <1>3, GetNewStep DEF GetOther
<1>4. CASE n.entry.phase \in {"loading", "ready", "failed"} /\ n.entry.tier = "interpret"
  <2>1. GetOther(n, kind, fits) = GetCached(n, kind, fits)
    BY <1>4 DEF GetOther
  <2> QED BY <1>4, <2>1, GetCachedStep, NoTodo
<1>5. CASE n.entry.phase \in {"loading", "ready", "failed"} /\ n.entry.tier = "replicate"
  <2>1. GetOther(n, kind, fits) = GetReplica(n, fits)
    BY <1>5 DEF GetOther
  <2> QED BY <1>5, <2>1, GetReplicaStep
<1>6. n.entry.phase \in {"unloaded", "leaving", "absent", "deferred", "loading", "ready", "failed"}
  BY <1>1 DEF EntryType, Phases, HeldPhases
<1>7. n.entry.phase \in {"loading", "ready", "failed"} => n.entry.tier \in {"interpret", "replicate"}
  BY <1>1 DEF IsHeld, HeldPhases, Tier
<1> QED BY <1>2, <1>3, <1>4, <1>5, <1>6, <1>7

\* An unload that is cancelled.
LEMMA CancelStep ==
  ASSUME NEW n \in Models, n.entry.phase = "storing"
  PROVE  LET s == Cancel(n) IN
         /\ StepOf(n, s) /\ s.effects \in Seq(Wiring(s.m)) /\ On(s.effects, "wire") = {}
         /\ s.m \in Models /\ s.m.entry.phase = "ready" /\ s.m.nextGen = n.nextGen
         /\ Steady(s.m) = Steady(n) /\ LeavingOf(s.m) = LeavingOf(n)
<1> DEFINE e == n.entry
           x == [e EXCEPT !.phase = "ready", !.registered = e.registered \/ n.hooked]
           p == Put(n, x)
           a == <<ToStore("keep", 0)>>
           b == When(e.registered /\ ~e.suspended, <<Leaving(FALSE)>>)
           c == When(Registers(n, e.registered), <<Register(e.gen, e.suspended)>>)
           ab == a \o b
           abc == ab \o c
<1>1. /\ e \in EntryType /\ IsHeld(e) /\ e.gen \in Live(n) /\ e.tier \in Tier /\ Live(n) \subseteq 1 .. (n.nextGen - 1)
      /\ Steady(n) = {e.gen} /\ e.gen \notin n.departing /\ n.hooked \in BOOLEAN /\ n.nextGen \in Nat \ {0}
  BY ModelFacts DEF IsHeld, HeldPhases, Steady, LeavingOf, Held
<1>2. x \in EntryType /\ x.phase = "ready" /\ x.gen = e.gen /\ x.tier = e.tier /\ IsHeld(x)
  BY <1>1 DEF EntryType, Phases, IsHeld, HeldPhases
<1>3. e.gen \in 1 .. (n.nextGen - 1)
  BY <1>1
<1> HIDE DEF x
<1>4. p \in Models /\ p.entry = x /\ p.departing = n.departing /\ p.nextGen = n.nextGen
  BY <1>1, <1>2, <1>3, PutModel
<1>5. Cancel(n) = Does(p, abc)
  BY DEF Cancel, x
<1> HIDE DEF p
<1>6. Steady(p) = Steady(n) /\ LeavingOf(p) = LeavingOf(n)
  BY <1>1, <1>2, <1>4 DEF Steady, LeavingOf, Held
<1>7. a \in Seq(Wiring(p)) /\ b \in Seq(Wiring(p)) /\ c \in Seq(Wiring(p))
  <2>1. ToStore("keep", 0) \in Wiring(p)
    BY <1>1, <1>4, StoreIn
  <2>2. Leaving(FALSE) \in Wiring(p)
    BY <1>4, NotifyIn
  <2>3. Register(e.gen, e.suspended) \in Wiring(p)
    BY <1>1, <1>3, <1>4, RegisterIn DEF EntryType
  <2>4. a \in Seq(Wiring(p))
    BY <2>1
  <2>5. b \in Seq(Wiring(p))
    BY <2>2, WhenIn
  <2>6. c \in Seq(Wiring(p))
    BY <2>3, WhenIn
  <2> QED BY <2>4, <2>5, <2>6
<1>8. On(a, "wire") = {} /\ On(b, "wire") = {} /\ On(c, "wire") = {}
  <2>1. ToStore("keep", 0).do = "store" /\ Leaving(FALSE).do = "leaving" /\ Register(e.gen, e.suspended).do = "register"
    BY DEF ToStore, Leaving, Register, Effect
  <2> QED BY <2>1, OnOne, OnWhen
<1> HIDE DEF a, b, c
<1>9. ab \in Seq(Wiring(p)) /\ On(ab, "wire") = {}
  BY <1>7, <1>8, BothIn, OnBoth
<1> HIDE DEF ab
<1>10. abc \in Seq(Wiring(p)) /\ On(abc, "wire") = {}
  BY <1>7, <1>8, <1>9, BothIn, OnBoth
<1> HIDE DEF abc
<1>11. StepOf(n, Does(p, abc))
  BY <1>4, <1>6, <1>10, KeepStep DEF Todo
<1> QED BY <1>2, <1>4, <1>5, <1>6, <1>10, <1>11, DoesIs

LEMMA GetStep ==
  ASSUME NEW n \in Models, NEW kind \in {"create", "open"}, NEW fits \in BOOLEAN
  PROVE  StepOf(n, Get(n, kind, fits))
<1>1. CASE n.entry.phase # "storing"
  BY <1>1, GetOtherStep DEF Get
<1>2. CASE n.entry.phase = "storing"
  <2> DEFINE c == Cancel(n)
             t == GetOther(c.m, kind, fits)
             u == [t EXCEPT !.effects = c.effects \o @]
  <2>1. /\ c.effects \in Seq(Wiring(c.m)) /\ On(c.effects, "wire") = {}
        /\ c.m \in Models /\ c.m.entry.phase = "ready" /\ c.m.nextGen = n.nextGen
        /\ Steady(c.m) = Steady(n) /\ LeavingOf(c.m) = LeavingOf(n)
    BY <1>2, CancelStep
  <2>2. Get(n, kind, fits) = IF t.refused THEN Refuse(n) ELSE u
    BY <1>2 DEF Get, Sequence
  <2> HIDE DEF c
  <2>3. StepOf(c.m, t) /\ (~t.refused => t.effects \in Seq(Wiring(t.m)))
    BY <2>1, GetOtherStep
  <2> HIDE DEF t
  <2>4. ASSUME ~t.refused PROVE StepOf(n, u)
    <3> DEFINE e == t.effects
               a == c.effects
               p == t.m
    <3>1. t = [m |-> p, refused |-> t.refused, builds |-> t.builds, effects |-> e] /\ p \in Models /\ Later(c.m, p)
          /\ On(e, "wire") \subseteq Steady(p) /\ t.refused \in BOOLEAN
      BY <2>3 DEF StepOf
    <3>2. a \in Seq(Wiring(p)) /\ e \in Seq(Wiring(p)) /\ On(a, "wire") = {}
      <4>1. Wiring(c.m) \subseteq Wiring(p)
        BY <2>1, <3>1, LaterFrames
      <4> QED BY <4>1, <2>1, <2>3, <2>4, SeqLarger
    <3>3. u = [t EXCEPT !.effects = a \o e]
      OBVIOUS
    <3> HIDE DEF u, e, a
    <3>4. a \o e \in Seq(Wiring(p)) /\ \A do : On(a \o e, do) = On(a, do) \cup On(e, do)
      BY <3>2, BothIn, OnBoth
    <3> DEFINE ae == a \o e
    <3> HIDE DEF ae
    <3>5. u = [m |-> p, refused |-> FALSE, builds |-> t.builds, effects |-> ae]
      <4> DEFINE bs == t.builds
                 r == t.refused
      <4>1. t = [m |-> p, refused |-> r, builds |-> bs, effects |-> e] /\ r = FALSE
        BY <3>1, <2>4
      <4>2. u = [t EXCEPT !.effects = ae]
        BY <3>3 DEF ae
      <4> HIDE DEF bs, r, p
      <4>3. u = [m |-> p, refused |-> FALSE, builds |-> bs, effects |-> ae]
        BY <4>1, <4>2
      <4> QED BY <4>3 DEF bs
    <3>6. u.effects = ae /\ \A do : On(ae, do) = On(a, do) \cup On(e, do)
      <4> HIDE DEF p
      <4>1. u.effects = ae
        BY <3>5
      <4> QED BY <4>1, <3>4 DEF ae
    <3>7. u.effects \in Todo(p) /\ On(u.effects, "wire") \subseteq Steady(p)
      BY <3>1, <3>2, <3>4, <3>6 DEF Todo, ae
    <3>8. Disposed(t) \subseteq Disposed(u) /\ LeftBy(t) \subseteq LeftBy(u)
      BY <3>6 DEF Disposed, LeftBy, e
    <3>9. u = [m |-> t.m, refused |-> FALSE, builds |-> t.builds, effects |-> u.effects]
      BY <3>5, <3>6, Zenon
    <3> QED BY <2>1, <2>3, <2>4, <3>7, <3>8, <3>9, StepFrom DEF Models
  <2> QED BY <2>2, <2>4, IdleStep
<1> QED BY <1>1, <1>2

\* A step that issues no generation.
LEMMA PlainStep ==
  ASSUME NEW n \in Models, NEW p \in Models, NEW effects \in Todo(p), p.nextGen = n.nextGen,
         Live(p) \subseteq Live(n), Steady(p) \subseteq Steady(n), On(effects, "wire") \subseteq Steady(p),
         \A g \in Steady(n) : g \in Steady(p) \cup On(effects, "dispose") \/ g \in LeavingOf(p) \cap On(effects, "leave"),
         LeavingOf(n) \subseteq LeavingOf(p) \cup On(effects, "dispose")
  PROVE  StepOf(n, Does(p, effects))
<1> DEFINE s == Does(p, effects)
<1>1. s = [m |-> p, refused |-> FALSE, builds |-> {}, effects |-> effects]
  BY DoesIs
<1>2. s.m = p /\ s.effects = effects /\ s.builds = {} /\ ~s.refused
  BY DoesIs
<1>3. n.nextGen \in Nat
  BY ModelFacts
<1> HIDE DEF s
<1>4. Later(n, p) /\ Builds(n, s)
  BY <1>2, <1>3 DEF Later, Builds
<1>5. Accounts(n, s)
  BY <1>2 DEF Accounts, Disposed, LeftBy
<1>6. s = [m |-> s.m, refused |-> s.refused, builds |-> s.builds, effects |-> s.effects] /\ s.refused \in BOOLEAN
  BY <1>1, <1>2
<1> QED BY <1>2, <1>4, <1>5, <1>6 DEF StepOf, s

LEMMA ReplicateStep == ASSUME NEW n \in Models PROVE StepOf(n, Replicate(n))
<1>1. CASE IsHeld(n.entry) \/ (n.entry.phase = "unloaded" /\ n.entry.tier = "interpret")
  BY <1>1, IdleStep DEF Replicate
<1>2. CASE ~(IsHeld(n.entry) \/ (n.entry.phase = "unloaded" /\ n.entry.tier = "interpret"))
  <2>1. Steady(n) = {} /\ LeavingOf(n) = n.departing /\ n.entry.suspended \in BOOLEAN
    BY <1>2, ModelFacts DEF Steady, LeavingOf, Held, IsHeld, HeldPhases, EntryType
  <2>2. StepOf(n, Begin(n, "replicate", 0, n.entry.suspended, "create"))
    BY <2>1, BeginStep DEF Tier, Models
  <2> QED BY <1>2, <2>2 DEF Replicate
<1> QED BY <1>1, <1>2

LEMMA ReloadStep == ASSUME NEW n \in Models PROVE StepOf(n, Reload(n))
<1>1. n.entry.phase = "unloaded" => n.entry.tier \in Tier
  BY DEF Models, Drafts
<1>2. n.entry.phase = "unloaded" => StepOf(n, LoadAgain(n, n.entry.tier, "open"))
  BY <1>1, LoadAgainStep
<1> QED BY <1>2, IdleStep DEF Reload

\* An entry that holds nothing, in place of one that held nothing.
LEMMA DeferStep == ASSUME NEW n \in Models PROVE StepOf(n, Defer(n))
<1> DEFINE p == Put(n, Deferred)
<1>1. p \in Models /\ p.entry = Deferred /\ p.departing = n.departing /\ p.nextGen = n.nextGen
  BY BaseEntries, PutModel
<1> HIDE DEF p
<1>2. n.entry.phase = "absent" => Steady(p) = Steady(n) /\ LeavingOf(p) = LeavingOf(n)
  BY <1>1, BaseEntries DEF Steady, LeavingOf, Held, IsHeld, HeldPhases
<1>3. n.entry.phase = "absent" => StepOf(n, Nothing2Do(p))
  BY <1>1, <1>2, KeepStep, NoTodo, OnNone DEF Nothing2Do
<1> QED BY <1>3, IdleStep DEF Defer, p

\* An instance is ended for good.
LEMMA EndIn ==
  ASSUME NEW p \in Models, NEW e \in EntryType, e.gen \in 1 .. (p.nextGen - 1), e.gen \notin Live(p)
  PROVE  /\ End(e) \in Seq(Others(p)) /\ On(End(e), "wire") = {} /\ e.gen \in On(End(e), "dispose")
<1> DEFINE a == When(e.phase # "leaving", <<Close(e)>>)
           b == <<Named("dispose", e.gen)>>
<1>1. Close(e) \in Others(p)
  <2>1. e.gen \notin Steady(p)
    BY ModelFacts
  <2>2. HydrationOf(e) \in {"pending", "loaded", "failed"}
    BY Hydration
  <2> QED BY <2>1, <2>2, CloseIn DEF Close
<1>2. Named("dispose", e.gen) \in Others(p)
  BY NamedIn
<1>3. Close(e).do = "close" /\ Named("dispose", e.gen).do = "dispose" /\ Named("dispose", e.gen).gen = e.gen
  BY DEF Close, Named, Effect
<1>4. a \in Seq(Others(p)) /\ On(a, "wire") = {}
  BY <1>1, <1>3, WhenIn, OnWhen
<1>5. b \in Seq(Others(p)) /\ On(b, "wire") = {} /\ On(b, "dispose") = {e.gen}
  <2>1. b \in Seq(Others(p))
    BY <1>2
  <2> QED BY <2>1, <1>3, OnOne
<1>6. End(e) = a \o b
  BY DEF End
<1> HIDE DEF a, b
<1>7. a \o b \in Seq(Others(p)) /\ \A do : On(a \o b, do) = On(a, do) \cup On(b, do)
  BY <1>4, <1>5, BothIn, OnBoth
<1> QED BY <1>4, <1>5, <1>6, <1>7

LEMMA DestroyStep == ASSUME NEW n \in Models PROVE StepOf(n, Destroy(n))
<1> DEFINE e == n.entry
           p == Put(n, Absent)
           a == When(IsHeld(e), End(e))
           b == When(~IsHeld(e) \/ n.hasStore, <<ToStore("destroy", 0)>>)
           c == <<Notify("destroyed")>>
           ab == a \o b
           abc == ab \o c
<1>1. p \in Models /\ p.entry = Absent /\ p.departing = n.departing /\ p.nextGen = n.nextGen
  BY BaseEntries, PutModel
<1>2. Destroy(n) = Does(p, abc)
  BY DEF Destroy
<1> HIDE DEF p
<1>3. Steady(p) = {} /\ LeavingOf(p) = n.departing /\ Live(p) = n.departing
  BY <1>1, BaseEntries DEF Steady, LeavingOf, Live, Held
<1>4. /\ e \in EntryType /\ n.nextGen \in Nat \ {0} /\ (IsHeld(e) => e.gen \in 1 .. (n.nextGen - 1))
      /\ Live(n) = Steady(n) \cup LeavingOf(n) /\ n.departing \subseteq Live(n)
      /\ Live(n) \subseteq n.departing \cup Held(n)
  BY ModelFacts DEF Live
<1>5. ASSUME IsHeld(e), e.gen \notin n.departing
      PROVE  a \in Seq(Others(p)) /\ On(a, "wire") = {} /\ e.gen \in On(a, "dispose")
  BY <1>1, <1>3, <1>4, <1>5, EndIn DEF When
<1>6. ~IsHeld(e) => a \in Seq(Others(p)) /\ On(a, "wire") = {}
  BY NoTodo, OnNone DEF When
<1>7. b \in Seq(Others(p)) /\ On(b, "wire") = {}
  <2>1. ToStore("destroy", 0).do = "store"
    BY DEF ToStore, Effect
  <2>2. ToStore("destroy", 0) \in Others(p)
    BY <1>1, <1>4, StoreIn
  <2> QED BY <2>1, <2>2, WhenIn, OnWhen
<1>8. c \in Seq(Others(p)) /\ On(c, "wire") = {}
  <2>1. Notify("destroyed").do = "notify"
    BY DEF Notify, Effect
  <2>2. c \in Seq(Others(p))
    BY <1>1, NotifyIn
  <2> QED BY <2>1, <2>2, OnOne
<1>9. IsHeld(e) => e.gen \notin n.departing
  BY DEF Models, Held
<1>10. a \in Seq(Others(p)) /\ On(a, "wire") = {} /\ (IsHeld(e) => e.gen \in On(a, "dispose"))
  BY <1>5, <1>6, <1>9
<1> HIDE DEF a, b, c
<1>11. ab \in Seq(Others(p)) /\ \A do : On(ab, do) = On(a, do) \cup On(b, do)
  BY <1>7, <1>10, BothIn, OnBoth
<1> HIDE DEF ab
<1>12. abc \in Seq(Others(p)) /\ \A do : On(abc, do) = On(ab, do) \cup On(c, do)
  BY <1>8, <1>11, BothIn, OnBoth
<1> HIDE DEF abc
<1>13. On(abc, "wire") = {} /\ (IsHeld(e) => e.gen \in On(abc, "dispose"))
  BY <1>7, <1>8, <1>10, <1>11, <1>12
<1>14. Steady(n) \subseteq On(abc, "dispose") /\ LeavingOf(n) \subseteq n.departing \cup On(abc, "dispose")
  BY <1>13 DEF Steady, LeavingOf, Held, IsHeld, HeldPhases
<1>15. StepOf(n, Does(p, abc))
  BY <1>1, <1>3, <1>4, <1>12, <1>13, <1>14, PlainStep DEF Todo
<1> QED BY <1>2, <1>15

LEMMA SuspendStep == ASSUME NEW n \in Models PROVE StepOf(n, Suspend(n)) /\ StepOf(n, Resume(n))
<1>1. ASSUME n.entry.phase \in {"loading", "ready", "failed"}, NEW on \in BOOLEAN, NEW todo \in {"suspended", "resumed"}
      PROVE  StepOf(n, Does(Put(n, [n.entry EXCEPT !.suspended = on]), <<Notify(todo)>>))
  <2> DEFINE e == [n.entry EXCEPT !.suspended = on]
             p == Put(n, e)
  <2>1. /\ e \in EntryType /\ e.phase = n.entry.phase /\ e.gen = n.entry.gen /\ e.tier = n.entry.tier /\ IsHeld(e)
        /\ IsHeld(n.entry)
    BY <1>1, ModelFacts DEF EntryType, IsHeld, HeldPhases
  <2>2. e.gen \in 1 .. (n.nextGen - 1) /\ e.gen \notin n.departing /\ e.tier \in Tier
    BY <2>1, ModelFacts DEF Models, Held
  <2> HIDE DEF e
  <2>3. p \in Models /\ p.entry = e /\ p.departing = n.departing /\ p.nextGen = n.nextGen
    BY <2>1, <2>2, PutModel
  <2> HIDE DEF p
  <2>4. Steady(p) = Steady(n) /\ LeavingOf(p) = LeavingOf(n)
    BY <2>1, <2>3 DEF Steady, LeavingOf, Held
  <2>5. <<Notify(todo)>> \in Seq(Others(p)) \cup Seq(Resuming(p))
    BY <2>3, NotifyIn
  <2>6. On(<<Notify(todo)>>, "wire") = {}
    <3>1. Notify(todo).do = "notify"
      BY DEF Notify, Effect
    <3> QED BY <3>1, OnOne
  <2>7. StepOf(n, Does(p, <<Notify(todo)>>))
    BY <2>3, <2>4, <2>5, <2>6, KeepStep DEF Todo
  <2> QED BY <2>7 DEF p, e
<1>2. n.entry.suspended \in BOOLEAN /\ n.entry.phase \in Phases
  BY ModelFacts DEF EntryType
<1>3. StepOf(n, Suspend(n))
  <2>1. CASE ~IsHeld(n.entry) \/ n.entry.phase \in {"storing", "leaving"}
    <3>1. Suspend(n) = Refuse(n)
      BY <2>1 DEF Suspend, IsHeld, HeldPhases
    <3> QED BY <3>1, IdleStep
  <2>2. CASE n.entry.phase \in {"loading", "ready", "failed"} /\ n.entry.suspended
    <3>1. Suspend(n) = Nothing2Do(n)
      BY <2>2 DEF Suspend, IsHeld, HeldPhases
    <3> QED BY <3>1, IdleStep
  <2>3. CASE n.entry.phase \in {"loading", "ready", "failed"} /\ ~n.entry.suspended
    <3>1. Suspend(n) = Does(Put(n, [n.entry EXCEPT !.suspended = TRUE]), <<Notify("suspended")>>)
      BY <2>3 DEF Suspend, IsHeld, HeldPhases
    <3> QED BY <2>3, <3>1, <1>1
  <2> QED BY <2>1, <2>2, <2>3, <1>2 DEF IsHeld, HeldPhases
<1>4. StepOf(n, Resume(n))
  BY <1>1, IdleStep DEF Resume
<1> QED BY <1>3, <1>4

LEMMA BeginUnloadStep ==
  ASSUME NEW n \in Models, n.entry.phase = "ready" PROVE StepOf(n, BeginUnload(n))
<1> DEFINE e == n.entry
           x == [e EXCEPT !.phase = "storing"]
           p == Put(n, x)
           a == When(e.tier = "interpret", <<Named("drain", e.gen)>>)
           b == When(e.registered /\ ~e.suspended, <<Leaving(TRUE)>>)
           c == <<ToStore("state-advanced", 0), ToStore("release", e.gen)>>
           ab == a \o b
           abc == ab \o c
<1>1. /\ e \in EntryType /\ IsHeld(e) /\ e.gen \in 1 .. (n.nextGen - 1) /\ e.gen \notin n.departing /\ e.tier \in Tier
      /\ n.nextGen \in Nat \ {0}
  BY ModelFacts DEF Models, Held, IsHeld, HeldPhases
<1>2. x \in EntryType /\ x.phase = "storing" /\ x.gen = e.gen /\ x.tier = e.tier /\ IsHeld(x)
  BY <1>1 DEF EntryType, Phases, IsHeld, HeldPhases
<1> HIDE DEF x
<1>3. p \in Models /\ p.entry = x /\ p.departing = n.departing /\ p.nextGen = n.nextGen
  BY <1>1, <1>2, PutModel
<1>4. BeginUnload(n) = Does(p, abc)
  BY DEF BeginUnload, x
<1> HIDE DEF p
<1>5. Steady(p) = Steady(n) /\ LeavingOf(p) = LeavingOf(n)
  BY <1>1, <1>2, <1>3 DEF Steady, LeavingOf, Held
<1>6. a \in Seq(Others(p)) /\ On(a, "wire") = {}
  <2>1. Named("drain", e.gen).do = "drain"
    BY DEF Named, Effect
  <2>2. Named("drain", e.gen) \in Others(p)
    BY <1>1, <1>3, NamedIn
  <2> QED BY <2>1, <2>2, WhenIn, OnWhen
<1>7. b \in Seq(Others(p)) /\ On(b, "wire") = {}
  <2>1. Leaving(TRUE).do = "leaving"
    BY DEF Leaving, Effect
  <2>2. Leaving(TRUE) \in Others(p)
    BY <1>3, NotifyIn
  <2> QED BY <2>1, <2>2, WhenIn, OnWhen
<1>8. c \in Seq(Others(p)) /\ On(c, "wire") = {}
  <2>1. ToStore("state-advanced", 0).do = "store" /\ ToStore("release", e.gen).do = "store"
    BY DEF ToStore, Effect
  <2>2. ToStore("state-advanced", 0) \in Others(p) /\ ToStore("release", e.gen) \in Others(p)
    <3>1. 0 \in 0 .. (p.nextGen - 1) /\ e.gen \in 0 .. (p.nextGen - 1)
      BY <1>1, <1>3
    <3> QED BY <1>3, <3>1, StoreIn
  <2> QED BY <2>1, <2>2, OnTwo
<1> HIDE DEF a, b, c
<1>9. ab \in Seq(Others(p)) /\ On(ab, "wire") = {}
  BY <1>6, <1>7, BothIn, OnBoth
<1> HIDE DEF ab
<1>10. abc \in Seq(Others(p)) /\ On(abc, "wire") = {}
  BY <1>8, <1>9, BothIn, OnBoth
<1> HIDE DEF abc
<1>11. StepOf(n, Does(p, abc))
  BY <1>3, <1>5, <1>10, KeepStep DEF Todo
<1> QED BY <1>4, <1>11

LEMMA UnloadStep == ASSUME NEW n \in Models PROVE StepOf(n, Unload(n))
<1>1. n.entry.phase \in Phases /\ n.hasStore \in BOOLEAN
  BY ModelFacts DEF EntryType
<1>2. CASE n.entry.phase \in {"absent", "deferred", "loading", "failed"}
  <2>1. Unload(n) = Refuse(n)
    BY <1>2 DEF Unload
  <2> QED BY <2>1, IdleStep
<1>3. CASE n.entry.phase \in {"storing", "leaving", "unloaded"}
  <2>1. Unload(n) = Nothing2Do(n)
    BY <1>3 DEF Unload
  <2> QED BY <2>1, IdleStep
<1>4. CASE n.entry.phase = "ready" /\ ~n.hasStore
  <2>1. Unload(n) = Refuse(n)
    BY <1>4 DEF Unload
  <2> QED BY <2>1, IdleStep
<1>5. CASE n.entry.phase = "ready" /\ n.hasStore
  <2>1. Unload(n) = BeginUnload(n)
    BY <1>5 DEF Unload
  <2> QED BY <2>1, <1>5, BeginUnloadStep
<1> QED BY <1>1, <1>2, <1>3, <1>4, <1>5 DEF Phases, HeldPhases

\* A model of which the hooks and the registration differ.
LEMMA HookedStep == ASSUME NEW n \in Models PROVE StepOf(n, Hooked(n))
<1> DEFINE e == n.entry
           x == [e EXCEPT !.registered = TRUE]
           h == [n EXCEPT !.hooked = TRUE]
           p == [n EXCEPT !.hooked = TRUE, !.entry.registered = TRUE]
<1>1. n \in [entry : EntryType, departing : SUBSET Nat, nextGen : Nat \ {0}, hooked : BOOLEAN, hasStore : BOOLEAN] /\ e \in EntryType
  BY DEF Models, Drafts
<1>2. h \in [entry : EntryType, departing : SUBSET Nat, nextGen : Nat \ {0}, hooked : BOOLEAN, hasStore : BOOLEAN] /\ h.entry = e /\ h.departing = n.departing /\ h.nextGen = n.nextGen
  BY <1>1
<1>3. p \in [entry : EntryType, departing : SUBSET Nat, nextGen : Nat \ {0}, hooked : BOOLEAN, hasStore : BOOLEAN] /\ p.entry = x /\ p.departing = n.departing /\ p.nextGen = n.nextGen
  BY <1>1 DEF EntryType
<1>4. x \in EntryType /\ x.phase = e.phase /\ x.gen = e.gen /\ x.tier = e.tier /\ (IsHeld(x) <=> IsHeld(e))
  BY <1>1 DEF EntryType, IsHeld
<1> HIDE DEF x, h, p
<1>5. ASSUME NEW y \in EntryType, y.phase = e.phase, y.gen = e.gen, y.tier = e.tier, NEW q,
             q \in [entry : EntryType, departing : SUBSET Nat, nextGen : Nat \ {0}, hooked : BOOLEAN, hasStore : BOOLEAN],
             q.entry = y, q.departing = n.departing, q.nextGen = n.nextGen
      PROVE  q \in Models /\ q.nextGen = n.nextGen /\ Steady(q) = Steady(n) /\ LeavingOf(q) = LeavingOf(n)
  <2>3. IsHeld(y) <=> IsHeld(e)
    BY <1>5 DEF IsHeld
  <2>4. Steady(q) = Steady(n) /\ LeavingOf(q) = LeavingOf(n) /\ Live(q) = Live(n) /\ Held(q) = Held(n)
    BY <1>5, <2>3 DEF Steady, LeavingOf, Live, Held
  <2>5. /\ Live(n) \subseteq 1 .. (n.nextGen - 1) /\ (~IsHeld(e) => e.gen = 0) /\ Steady(n) \cap n.departing = {}
        /\ (e.phase \notin {"absent", "deferred"} => e.tier \in Tier) /\ Held(n) \cap n.departing = {}
    BY DEF Models, Drafts
  <2> QED BY <1>5, <2>3, <2>4, <2>5 DEF Models, Drafts
<1>6. h \in Models /\ h.nextGen = n.nextGen /\ Steady(h) = Steady(n) /\ LeavingOf(h) = LeavingOf(n)
  BY <1>1, <1>2, <1>5
<1>7. p \in Models /\ p.nextGen = n.nextGen /\ Steady(p) = Steady(n) /\ LeavingOf(p) = LeavingOf(n)
  BY <1>3, <1>4, <1>5
<1>8. StepOf(n, Does(h, <<>>))
  BY <1>6, NoTodo, OnNone, KeepStep
<1>9. ASSUME e.phase = "ready" PROVE StepOf(n, Does(p, <<Register(e.gen, e.suspended)>>))
  <2>1. e.gen \in 1 .. (p.nextGen - 1) /\ e.suspended \in BOOLEAN
    BY <1>9, <1>7, ModelFacts DEF IsHeld, HeldPhases, EntryType
  <2> DEFINE r == Register(e.gen, e.suspended)
  <2>2. r \in Wiring(p)
    BY <1>7, <2>1, RegisterIn
  <2>3. r.do = "register"
    BY DEF Register, Effect
  <2> HIDE DEF r
  <2>4. On(<<r>>, "wire") = {}
    BY <2>3, OnOne
  <2>6. <<r>> \in Seq(Wiring(p))
    BY <2>2
  <2>5. StepOf(n, Does(p, <<r>>))
    BY <1>7, <2>4, <2>6, KeepStep DEF Todo
  <2> QED BY <2>5 DEF r
<1> QED BY <1>8, <1>9 DEF Hooked, Nothing2Do, h, p

LEMMA SetSeq ==
  ASSUME NEW S, IsFiniteSet(S) PROVE SetToSeq(S) \in Seq(S) /\ \A x \in S : \E i \in DOMAIN SetToSeq(S) : SetToSeq(S)[i] = x
<1> DEFINE n == Cardinality(S)
           I == 1 .. n
<1>1. n \in Nat /\ ExistsBijection(I, S)
  BY FS_CardinalityType
<1> HIDE DEF n
<1>2. \E f \in [I -> S] : IsInjective(f)
  <2>1. PICK f : f \in Bijection(I, S)
    BY <1>1 DEF ExistsBijection
  <2>2. f \in [I -> S] /\ IsInjective(f)
    BY <2>1 DEF Bijection, Injection
  <2> QED BY <2>2
<1> DEFINE f == SetToSeq(S)
<1>3. f \in [I -> S] /\ IsInjective(f)
  BY <1>2 DEF SetToSeq, n
<1> HIDE DEF f
<1>4. f \in Injection(I, S)
  BY <1>3 DEF Injection
<1>5. IsFiniteSet(I) /\ Cardinality(I) = n
  BY <1>1, FS_Interval
<1>6. f \in Surjection(I, S)
  BY <1>4, <1>5, FS_Injection DEF n
<1>7. f \in Seq(S)
  BY <1>1, <1>3
<1> QED BY <1>3, <1>6, <1>7 DEF Surjection, f

LEMMA CloseAllStep == ASSUME NEW n \in Models PROVE StepOf(n, CloseAll(n))
<1> DEFINE e == n.entry
           p == [n EXCEPT !.entry = Absent, !.departing = {}]
           gone == SetToSeq(n.departing)
           a == When(IsHeld(e), End(e))
           b == [i \in DOMAIN gone |-> Named("dispose", gone[i])]
<1>1. /\ e \in EntryType /\ n.nextGen \in Nat \ {0} /\ (IsHeld(e) => e.gen \in 1 .. (n.nextGen - 1))
      /\ n.departing \subseteq 1 .. (n.nextGen - 1)
      /\ n \in [entry : EntryType, departing : SUBSET Nat, nextGen : Nat \ {0}, hooked : BOOLEAN, hasStore : BOOLEAN]
  BY ModelFacts DEF Models, Drafts
<1>2. /\ p \in [entry : EntryType, departing : SUBSET Nat, nextGen : Nat \ {0}, hooked : BOOLEAN, hasStore : BOOLEAN]
      /\ p.entry = Absent /\ p.departing = {} /\ p.nextGen = n.nextGen
  BY <1>1, BaseEntries
<1>3. CloseAll(n) = Does(p, a \o b)
  BY DEF CloseAll
<1> HIDE DEF p
<1>4. Steady(p) = {} /\ LeavingOf(p) = {} /\ Live(p) = {} /\ Held(p) = {}
  BY <1>2, BaseEntries DEF Steady, LeavingOf, Live, Held
<1>5. p \in Models
  BY <1>2, <1>4, BaseEntries DEF Models, Drafts
<1>6. gone \in Seq(n.departing) /\ \A x \in n.departing : \E i \in DOMAIN gone : gone[i] = x
  <2>1. IsFiniteSet(1 .. (n.nextGen - 1))
    BY <1>1, FS_Interval
  <2>2. IsFiniteSet(n.departing)
    BY <1>1, <2>1, FS_Subset
  <2> QED BY <2>2, SetSeq
<1> HIDE DEF gone
<1>7. Len(gone) \in Nat /\ DOMAIN gone = 1 .. Len(gone) /\ \A i \in DOMAIN gone : gone[i] \in n.departing
  BY <1>6, SeqFacts
<1>8. ASSUME NEW i \in DOMAIN gone
      PROVE  Named("dispose", gone[i]) \in Others(p) /\ Named("dispose", gone[i]).do = "dispose"
             /\ Named("dispose", gone[i]).gen = gone[i]
  <2>1. gone[i] \in 1 .. (p.nextGen - 1) /\ gone[i] \notin Live(p)
    BY <1>1, <1>2, <1>4, <1>7
  <2>2. Named("dispose", gone[i]).do = "dispose" /\ Named("dispose", gone[i]).gen = gone[i]
    BY DEF Named, Effect
  <2> QED BY <1>5, <2>1, <2>2, NamedIn
<1>9. b \in Seq(Others(p))
  <2>1. b \in [1 .. Len(gone) -> Others(p)]
    BY <1>7, <1>8
  <2> QED BY <2>1, <1>7
<1>10. On(b, "wire") = {} /\ n.departing \subseteq On(b, "dispose")
  <2>1. DOMAIN b = DOMAIN gone /\ \A i \in DOMAIN gone : b[i].do = "dispose" /\ b[i].gen = gone[i]
    BY <1>8
  <2> HIDE DEF b
  <2> QED BY <2>1, <1>6 DEF On
<1> HIDE DEF b
<1>11. a \in Seq(Others(p)) /\ On(a, "wire") = {} /\ (IsHeld(e) => e.gen \in On(a, "dispose"))
  <2>1. CASE IsHeld(e)
    <3>1. e.gen \in 1 .. (p.nextGen - 1) /\ e.gen \notin Live(p)
      BY <2>1, <1>1, <1>2, <1>4
    <3>2. a = End(e)
      BY <2>1 DEF When
    <3> QED BY <1>1, <1>5, <3>1, <3>2, EndIn
  <2>2. CASE ~IsHeld(e)
    <3>1. a = <<>>
      BY <2>2 DEF When
    <3> QED BY <2>2, <3>1, NoTodo, OnNone
  <2> QED BY <2>1, <2>2
<1> HIDE DEF a
<1> DEFINE t == a \o b
<1>12. t \in Seq(Others(p)) /\ \A do : On(t, do) = On(a, do) \cup On(b, do)
  BY <1>9, <1>11, BothIn, OnBoth
<1> HIDE DEF t
<1>13. On(t, "wire") = {} /\ n.departing \cup Held(n) \subseteq On(t, "dispose")
  BY <1>10, <1>11, <1>12 DEF Held
<1>14. Steady(n) \subseteq On(t, "dispose") /\ LeavingOf(n) \subseteq On(t, "dispose")
  BY <1>13 DEF Steady, LeavingOf, Held, IsHeld, HeldPhases
<1>15. StepOf(n, Does(p, t))
  BY <1>2, <1>4, <1>5, <1>12, <1>13, <1>14, PlainStep DEF Todo
<1> QED BY <1>3, <1>15 DEF t

-----------------------------------------------------------------------------
(* The completions.                                                        *)

LEMMA LoadedStep ==
  ASSUME NEW n \in Models, NEW gen, NEW outcome \in {"stored", "empty"}
  PROVE  StepOf(n, Loaded(n, gen, outcome)) /\ StepOf(n, LoadFailed(n, gen))
<1>1. CASE ~(n.entry.phase = "loading" /\ n.entry.gen = gen)
  BY <1>1, IdleStep DEF Loaded, LoadFailed
<1>2. CASE n.entry.phase = "loading" /\ n.entry.gen = gen
  <2> DEFINE e == n.entry
             s == FinishLoad(n, e, outcome)
             x == [e EXCEPT !.phase = "failed", !.intent = "none"]
             p == Put(n, x)
  <2>1. /\ e \in EntryType /\ IsHeld(e) /\ e.gen \in 1 .. (n.nextGen - 1) /\ e.gen \notin n.departing /\ e.tier \in Tier
        /\ Steady(n) = {e.gen} /\ LeavingOf(n) = n.departing /\ Live(n) = {e.gen} \cup n.departing
    BY <1>2, ModelFacts DEF Models, Held, Live, Steady, LeavingOf, IsHeld, HeldPhases
  <2>2. LoadEnds(n, e.gen, e.intent = "create", s)
    BY <2>1, FinishLoadEnds DEF Models
  <2> HIDE DEF s
  <2>3. /\ s = [m |-> s.m, refused |-> FALSE, builds |-> {}, effects |-> s.effects]
        /\ s.m \in Models /\ s.m.nextGen = n.nextGen /\ LeavingOf(s.m) = n.departing
        /\ On(s.effects, "wire") \subseteq Steady(s.m)
        /\ \/ Steady(s.m) = {e.gen} /\ s.effects \in Seq(Wiring(s.m))
           \/ Steady(s.m) = {} /\ s.effects \in Seq(Others(s.m)) /\ e.gen \in On(s.effects, "dispose")
    BY <2>2 DEF LoadEnds, Disposed
  <2>4. Live(s.m) = Steady(s.m) \cup LeavingOf(s.m)
    BY <2>3, ModelFacts
  <2>5. s = Does(s.m, s.effects)
    BY <2>3 DEF Does
  <2>6. s.effects \in Todo(s.m)
    BY <2>3 DEF Todo
  <2>7. StepOf(n, Does(s.m, s.effects))
    <3> DEFINE q == s.m
               t == s.effects
    <3>1. /\ q \in Models /\ t \in Todo(q) /\ q.nextGen = n.nextGen /\ LeavingOf(q) = n.departing
          /\ On(t, "wire") \subseteq Steady(q) /\ Live(q) = Steady(q) \cup LeavingOf(q)
          /\ Steady(q) = {e.gen} \/ (Steady(q) = {} /\ e.gen \in On(t, "dispose"))
      BY <2>3, <2>4, <2>6
    <3> HIDE DEF q, t
    <3>2. StepOf(n, Does(q, t))
      BY <2>1, <3>1, PlainStep
    <3> QED BY <3>2 DEF q, t
  <2>8. x \in EntryType /\ x.phase = "failed" /\ x.gen = e.gen /\ x.tier = e.tier /\ IsHeld(x)
    BY <2>1 DEF EntryType, Phases, IsHeld, HeldPhases
  <2> HIDE DEF x
  <2>9. p \in Models /\ p.entry = x /\ p.departing = n.departing /\ p.nextGen = n.nextGen
    BY <2>1, <2>8, PutModel
  <2> HIDE DEF p
  <2>10. Steady(p) = Steady(n) /\ LeavingOf(p) = LeavingOf(n)
    BY <2>1, <2>8, <2>9 DEF Steady, LeavingOf, Held
  <2>11. StepOf(n, Does(p, <<>>))
    BY <2>9, <2>10, NoTodo, OnNone, KeepStep
  <2>12. Loaded(n, gen, outcome) = s
    BY <1>2 DEF Loaded, s
  <2>13. LoadFailed(n, gen) = Does(p, <<>>)
    BY <1>2 DEF LoadFailed, Nothing2Do, p, x
  <2> QED BY <2>5, <2>7, <2>11, <2>12, <2>13
<1> QED BY <1>1, <1>2

\* What was held, and is unloaded.
LEMMA UnloadedModel ==
  ASSUME NEW n \in Models, IsHeld(n.entry)
  PROVE  LET p == Put(n, Unloaded(n.entry)) IN
         p \in Models /\ p.nextGen = n.nextGen /\ Steady(p) = {} /\ LeavingOf(p) = n.departing /\ Live(p) = n.departing
<1> DEFINE x == Unloaded(n.entry)
           p == Put(n, x)
<1>1. /\ x \in EntryType /\ x.phase = "unloaded" /\ x.gen = 0 /\ x.tier \in Tier /\ ~IsHeld(x)
  BY ModelFacts DEF Unloaded, Entry, EntryType, Phases, IsHeld, HeldPhases
<1> HIDE DEF x
<1>2. p \in Models /\ p.entry = x /\ p.departing = n.departing /\ p.nextGen = n.nextGen
  BY <1>1, PutModel
<1> HIDE DEF p
<1>3. Steady(p) = {} /\ LeavingOf(p) = n.departing /\ Live(p) = n.departing
  BY <1>1, <1>2 DEF Steady, LeavingOf, Live, Held
<1> QED BY <1>2, <1>3 DEF p, x

LEMMA ReleasedStep == ASSUME NEW n \in Models, NEW gen PROVE StepOf(n, Released(n, gen))
<1> DEFINE e == n.entry
<1>1. CASE e.phase = "ready"
  <2>1. Released(n, gen) = Does(n, <<ToStore("hydrated", 0)>>)
    BY <1>1 DEF Released
  <2>2. 0 \in 0 .. (n.nextGen - 1)
    BY ModelFacts
  <2>3. ToStore("hydrated", 0) \in Wiring(n)
    BY <2>2, StoreIn
  <2>4. ToStore("hydrated", 0).do = "store"
    BY DEF ToStore, Effect
  <2> DEFINE t == <<ToStore("hydrated", 0)>>
  <2>5. On(t, "wire") = {}
    BY <2>4, OnOne
  <2>6. t \in Seq(Wiring(n))
    BY <2>3
  <2> HIDE DEF t
  <2>7. StepOf(n, Does(n, t))
    BY <2>5, <2>6, KeepStep DEF Todo
  <2> QED BY <2>1, <2>7 DEF t
<1>2. CASE e.phase = "storing" /\ e.gen = gen
  <2>1. /\ e \in EntryType /\ IsHeld(e) /\ e.gen \in 1 .. (n.nextGen - 1) /\ e.gen \notin n.departing /\ e.tier \in Tier
        /\ Steady(n) = {e.gen} /\ LeavingOf(n) = n.departing /\ Live(n) = {e.gen} \cup n.departing
    BY <1>2, ModelFacts DEF Models, Held, Live, Steady, LeavingOf, IsHeld, HeldPhases
  <2>2. HydrationOf(e) \in {"pending", "loaded", "failed"} /\ Close(e) = Effect("close", e.gen, HydrationOf(e), FALSE, 0)
        /\ Close(e).do = "close"
    BY <2>1, Hydration DEF Close, Effect
  <2>3. CASE e.registered
    <3> DEFINE x == [e EXCEPT !.phase = "leaving"]
               p == Put(n, x)
               a == Close(e)
               b == Named("leave", gen)
               t == <<a, b>>
    <3>1. x \in EntryType /\ x.phase = "leaving" /\ x.gen = e.gen /\ x.tier = e.tier /\ IsHeld(x)
      BY <2>1 DEF EntryType, Phases, IsHeld, HeldPhases
    <3> HIDE DEF x
    <3>2. p \in Models /\ p.entry = x /\ p.departing = n.departing /\ p.nextGen = n.nextGen
      BY <2>1, <3>1, PutModel
    <3>3. Released(n, gen) = Does(p, t)
      BY <1>2, <2>3 DEF Released, x
    <3> HIDE DEF p
    <3>4. Steady(p) = {} /\ LeavingOf(p) = {e.gen} \cup n.departing /\ Live(p) = {e.gen} \cup n.departing
      BY <3>1, <3>2 DEF Steady, LeavingOf, Live, Held
    <3>5. a \in Others(p) /\ a.do = "close"
      BY <2>1, <2>2, <3>2, <3>4, CloseIn
    <3>6. b \in Others(p)
      BY <1>2, <2>1, <3>2, NamedIn
    <3>7. b.do = "leave" /\ b.gen = gen
      BY DEF Named, Effect
    <3> HIDE DEF a, b
    <3>8. t \in Seq(Others(p))
      BY <3>5, <3>6
    <3>9. On(t, "wire") = {} /\ On(t, "leave") = {e.gen}
      BY <1>2, <3>5, <3>7, OnTwo
    <3> HIDE DEF t
    <3>10. StepOf(n, Does(p, t))
      BY <2>1, <3>2, <3>4, <3>8, <3>9, PlainStep DEF Todo
    <3> QED BY <3>3, <3>10
  <2>4. CASE ~e.registered
    <3> DEFINE p == Put(n, Unloaded(e))
               a == Close(e)
               b == Named("dispose", gen)
               t == <<a, b>>
    <3>1. p \in Models /\ p.nextGen = n.nextGen /\ Steady(p) = {} /\ LeavingOf(p) = n.departing /\ Live(p) = n.departing
      BY <2>1, UnloadedModel
    <3>2. Released(n, gen) = Does(p, t)
      BY <1>2, <2>4 DEF Released
    <3> HIDE DEF p
    <3>3. a \in Others(p) /\ a.do = "close"
      BY <2>1, <2>2, <3>1, CloseIn
    <3>4. b \in Others(p)
      BY <1>2, <2>1, <3>1, NamedIn
    <3>5. b.do = "dispose" /\ b.gen = gen
      BY DEF Named, Effect
    <3> HIDE DEF a, b
    <3>6. t \in Seq(Others(p))
      BY <3>3, <3>4
    <3>7. On(t, "wire") = {} /\ On(t, "dispose") = {e.gen}
      BY <1>2, <3>3, <3>5, OnTwo
    <3> HIDE DEF t
    <3>8. StepOf(n, Does(p, t))
      BY <2>1, <3>1, <3>6, <3>7, PlainStep DEF Todo
    <3> QED BY <3>2, <3>8
  <2> QED BY <2>3, <2>4
<1>3. CASE e.phase # "ready" /\ ~(e.phase = "storing" /\ e.gen = gen)
  <2>1. Released(n, gen) = Nothing2Do(n)
    BY <1>3 DEF Released
  <2> QED BY <2>1, IdleStep
<1> QED BY <1>1, <1>2, <1>3

LEMMA LeftStep ==
  ASSUME NEW n \in Models, NEW gen
  PROVE  /\ StepOf(n, Left(n, gen)) /\ ~Left(n, gen).refused
         /\ gen \in LeavingOf(n) => gen \in Disposed(Left(n, gen))
<1> DEFINE e == n.entry
           b == Named("dispose", gen)
           t == <<b>>
<1>1. b.do = "dispose" /\ b.gen = gen
  BY DEF Named, Effect
<1>2. On(t, "wire") = {} /\ On(t, "dispose") = {gen}
  BY <1>1, OnOne
<1>3. CASE e.phase = "leaving" /\ e.gen = gen
  <2> DEFINE p == Put(n, Unloaded(e))
  <2>1. /\ IsHeld(e) /\ e.gen \in 1 .. (n.nextGen - 1) /\ e.gen \notin n.departing
        /\ Steady(n) = {} /\ LeavingOf(n) = {e.gen} \cup n.departing /\ Live(n) = {e.gen} \cup n.departing
    BY <1>3, ModelFacts DEF Models, Held, Live, Steady, LeavingOf, IsHeld, HeldPhases
  <2>2. p \in Models /\ p.nextGen = n.nextGen /\ Steady(p) = {} /\ LeavingOf(p) = n.departing /\ Live(p) = n.departing
    BY <2>1, UnloadedModel
  <2>3. Left(n, gen) = Does(p, t)
    BY <1>3 DEF Left
  <2> HIDE DEF p
  <2>4. b \in Others(p)
    BY <1>3, <2>1, <2>2, NamedIn
  <2> HIDE DEF b
  <2>5. t \in Seq(Others(p))
    BY <2>4
  <2> HIDE DEF t
  <2>6. StepOf(n, Does(p, t))
    BY <1>2, <1>3, <2>1, <2>2, <2>5, PlainStep DEF Todo
  <2>7. Does(p, t).effects = t /\ ~Does(p, t).refused
    BY DoesIs
  <2> QED BY <1>2, <2>3, <2>6, <2>7 DEF Disposed
<1>4. CASE ~(e.phase = "leaving" /\ e.gen = gen) /\ gen \in n.departing
  <2> DEFINE p == [n EXCEPT !.departing = @ \ {gen}]
  <2>1. /\ n \in [entry : EntryType, departing : SUBSET Nat, nextGen : Nat \ {0}, hooked : BOOLEAN, hasStore : BOOLEAN]
        /\ Live(n) \subseteq 1 .. (n.nextGen - 1) /\ (~IsHeld(e) => e.gen = 0) /\ Steady(n) \cap n.departing = {}
        /\ (e.phase \notin {"absent", "deferred"} => e.tier \in Tier) /\ Held(n) \cap n.departing = {}
    BY DEF Models, Drafts
  <2>2. /\ p \in [entry : EntryType, departing : SUBSET Nat, nextGen : Nat \ {0}, hooked : BOOLEAN, hasStore : BOOLEAN]
        /\ p.entry = e /\ p.departing = n.departing \ {gen} /\ p.nextGen = n.nextGen
    BY <2>1
  <2>3. Left(n, gen) = Does(p, t)
    BY <1>4 DEF Left
  <2> HIDE DEF p
  <2>4. Steady(p) = Steady(n) /\ Held(p) = Held(n) /\ LeavingOf(n) \subseteq LeavingOf(p) \cup {gen} /\ Live(p) \subseteq Live(n)
    BY <2>2 DEF Steady, LeavingOf, Live, Held
  <2>5. p \in Models
    BY <2>1, <2>2, <2>4 DEF Models, Drafts
  <2>6. gen \in 1 .. (p.nextGen - 1) /\ gen \notin Live(p)
    BY <1>4, <2>1, <2>2, <2>4 DEF Live
  <2>7. b \in Others(p)
    BY <2>5, <2>6, NamedIn
  <2> HIDE DEF b
  <2>8. t \in Seq(Others(p))
    BY <2>7
  <2> HIDE DEF t
  <2>9. StepOf(n, Does(p, t))
    BY <1>2, <2>2, <2>4, <2>5, <2>8, PlainStep DEF Todo
  <2>10. Does(p, t).effects = t /\ ~Does(p, t).refused
    BY DoesIs
  <2> QED BY <1>2, <2>3, <2>9, <2>10 DEF Disposed
<1>5. CASE ~(e.phase = "leaving" /\ e.gen = gen) /\ gen \notin n.departing
  <2>1. Left(n, gen) = Nothing2Do(n)
    BY <1>5 DEF Left
  <2>2. gen \notin LeavingOf(n)
    BY <1>5 DEF LeavingOf
  <2>3. ~Nothing2Do(n).refused
    BY DoesIs DEF Nothing2Do
  <2> QED BY <2>1, <2>2, <2>3, IdleStep
<1> QED BY <1>3, <1>4, <1>5

-----------------------------------------------------------------------------
(* The call stack: s has the frame f on top of b.                          *)

IsOn(s, f, b) ==
  /\ Len(b) \in Nat /\ DOMAIN b = 1 .. Len(b) /\ DOMAIN s = 1 .. (Len(b) + 1) /\ s[1] = f
  /\ \A i \in 1 .. Len(b) : s[i + 1] = b[i]
  /\ \A i \in 2 .. (Len(b) + 1) : s[i] = b[i - 1]

LEMMA PushOn ==
  ASSUME NEW S, NEW f \in S, NEW b \in Seq(S)
  PROVE  /\ <<f>> \o b \in Seq(S) /\ IsOn(<<f>> \o b, f, b) /\ Head(<<f>> \o b) = f /\ Tail(<<f>> \o b) = b
         /\ <<f>> \o b # <<>>
<1> DEFINE s == <<f>> \o b
<1>1. /\ s \in Seq(S) /\ s # <<>> /\ s[1] = f /\ DOMAIN s = 1 .. (Len(b) + 1)
      /\ DOMAIN b = 1 .. Len(b) /\ Len(b) \in Nat
      /\ \A i \in 1 .. Len(b) : s[i + 1] = b[i]
      /\ \A i \in 2 .. (Len(b) + 1) : s[i] = b[i - 1]
      /\ Head(s) = f /\ Tail(s) = b
  BY Pushing
<1> HIDE DEF s
<1>2. IsOn(s, f, b)
  BY <1>1 DEF IsOn
<1> QED BY <1>1, <1>2 DEF s

LEMMA PopOn ==
  ASSUME NEW S, NEW s \in Seq(S), s # <<>>
  PROVE  IsOn(s, Head(s), Tail(s)) /\ Head(s) \in S /\ Tail(s) \in Seq(S) /\ Head(s) = s[1] /\ 1 \in DOMAIN s
<1> DEFINE b == Tail(s)
<1>1. /\ Head(s) = s[1] /\ s[1] \in S /\ b \in Seq(S) /\ 1 \in DOMAIN s
      /\ Len(s) \in Nat \ {0} /\ DOMAIN s = 1 .. Len(s)
      /\ Len(b) = Len(s) - 1 /\ DOMAIN b = 1 .. (Len(s) - 1)
      /\ \A i \in 1 .. (Len(s) - 1) : b[i] = s[i + 1]
  BY Popping
<1> HIDE DEF b
<1>2. /\ Len(b) \in Nat /\ DOMAIN b = 1 .. Len(b) /\ DOMAIN s = 1 .. (Len(b) + 1)
      /\ \A i \in 1 .. Len(b) : s[i + 1] = b[i]
  BY <1>1
<1>3. \A i \in 2 .. (Len(b) + 1) : i - 1 \in 1 .. Len(b) /\ (i - 1) + 1 = i
  BY <1>2
<1>4. \A i \in 2 .. (Len(b) + 1) : s[i] = b[i - 1]
  BY <1>2, <1>3
<1> QED BY <1>1, <1>2, <1>4 DEF IsOn, b

LEMMA AboveOn ==
  ASSUME NEW s, NEW f, NEW b, IsOn(s, f, b), NEW do
  PROVE  /\ Above(s, 1, do) = {}
         /\ \A j \in 1 .. Len(b) : Above(s, j + 1, do) = Left2Do(f, do) \cup Above(b, j, do)
<1>1. 1 .. (1 - 1) = {}
  OBVIOUS
<1>2. Above(s, 1, do) = {}
  BY <1>1 DEF Above
<1>3. ASSUME NEW j \in 1 .. Len(b) PROVE Above(s, j + 1, do) = Left2Do(f, do) \cup Above(b, j, do)
  <2>1. Len(b) \in Nat /\ j \in Nat /\ 1 \in 1 .. ((j + 1) - 1) /\ s[1] = f
    BY DEF IsOn
  <2>2. ASSUME NEW i \in 1 .. (j - 1) PROVE i + 1 \in 1 .. ((j + 1) - 1) /\ s[i + 1] = b[i]
    BY <2>1, <2>2 DEF IsOn
  <2>3. ASSUME NEW i \in 1 .. ((j + 1) - 1), i # 1 PROVE i - 1 \in 1 .. (j - 1) /\ s[i] = b[i - 1]
    BY <2>1, <2>3 DEF IsOn
  <2>4. Above(s, j + 1, do) \subseteq Left2Do(f, do) \cup Above(b, j, do)
    BY <2>1, <2>3 DEF Above
  <2>5. Left2Do(f, do) \subseteq Above(s, j + 1, do)
    BY <2>1 DEF Above
  <2>6. Above(b, j, do) \subseteq Above(s, j + 1, do)
    BY <2>2 DEF Above
  <2> QED BY <2>4, <2>5, <2>6
<1> QED BY <1>2, <1>3

\* In time, of a stack by its top: each frame of b, and f.
LEMMA InTimeOn ==
  ASSUME NEW s, NEW f, NEW b, IsOn(s, f, b), NEW live, NEW n, NEW left
  PROVE  InTime(s, live, n, left) <=>
           /\ Wires(f) \cap live \subseteq Steady(n)
           /\ \A j \in 1 .. Len(b) : \A g \in Wires(b[j]) \cap live :
                \/ g \in Steady(n) \cup Left2Do(f, "dispose") \cup Above(b, j, "dispose")
                \/ /\ g \in LeavingOf(n) \cap (Left2Do(f, "leave") \cup Above(b, j, "leave") \cup left)
                   /\ IF j = 1 THEN f.kind = "sync" ELSE b[j - 1].kind = "sync"
<1> DEFINE Fine(j, g) == \/ g \in Steady(n) \cup Above(s, j, "dispose")
                         \/ /\ g \in LeavingOf(n) \cap (Above(s, j, "leave") \cup left)
                            /\ j > 1 /\ s[j - 1].kind = "sync"
           Under(j, g) == \/ g \in Steady(n) \cup Left2Do(f, "dispose") \cup Above(b, j, "dispose")
                          \/ /\ g \in LeavingOf(n) \cap (Left2Do(f, "leave") \cup Above(b, j, "leave") \cup left)
                             /\ IF j = 1 THEN f.kind = "sync" ELSE b[j - 1].kind = "sync"
<1>1. /\ Len(b) \in Nat /\ DOMAIN s = 1 .. (Len(b) + 1) /\ s[1] = f
      /\ \A i \in 1 .. Len(b) : s[i + 1] = b[i]
  BY DEF IsOn
<1>2. \A g : Fine(1, g) <=> g \in Steady(n)
  BY AboveOn
<1>3. ASSUME NEW j \in 1 .. Len(b) PROVE \A g : Fine(j + 1, g) <=> Under(j, g)
  <2>1. Above(s, j + 1, "dispose") = Left2Do(f, "dispose") \cup Above(b, j, "dispose")
    BY AboveOn
  <2>2. Above(s, j + 1, "leave") = Left2Do(f, "leave") \cup Above(b, j, "leave")
    BY AboveOn
  <2>3. j \in Nat \ {0} /\ j + 1 > 1 /\ (j + 1) - 1 = j
    BY <1>1
  <2>4. s[(j + 1) - 1].kind = IF j = 1 THEN f.kind ELSE b[j - 1].kind
    <3>1. CASE j = 1
      BY <3>1, <1>1
    <3>2. CASE j # 1
      <4>1. j \in 2 .. (Len(b) + 1)
        BY <3>2, <1>1
      <4> QED BY <4>1, <2>3, <3>2 DEF IsOn
    <3> QED BY <3>1, <3>2
  <2> QED BY <2>1, <2>2, <2>3, <2>4
<1> HIDE DEF Fine, Under
<1>4. InTime(s, live, n, left) <=> \A j \in DOMAIN s : \A g \in Wires(s[j]) \cap live : Fine(j, g)
  BY DEF InTime, Fine
<1>5. (\A j \in DOMAIN s : \A g \in Wires(s[j]) \cap live : Fine(j, g)) <=>
        (\A g \in Wires(f) \cap live : Fine(1, g)) /\ \A j \in 1 .. Len(b) : \A g \in Wires(b[j]) \cap live : Fine(j + 1, g)
  <2>1. \A j \in DOMAIN s : j = 1 \/ (j - 1 \in 1 .. Len(b) /\ (j - 1) + 1 = j)
    BY <1>1
  <2>2. \A j \in 1 .. Len(b) : j + 1 \in DOMAIN s
    BY <1>1
  <2>3. 1 \in DOMAIN s
    BY <1>1
  <2> DEFINE Every(j) == \A g \in Wires(s[j]) \cap live : Fine(j, g)
  <2>4. s[1] = f /\ \A j \in 1 .. Len(b) : s[j + 1] = b[j]
    BY <1>1
  <2> HIDE DEF Every
  <2>5. (\A j \in DOMAIN s : Every(j)) <=> Every(1) /\ \A j \in 1 .. Len(b) : Every(j + 1)
    <3>1. ASSUME \A j \in DOMAIN s : Every(j) PROVE Every(1) /\ \A j \in 1 .. Len(b) : Every(j + 1)
      BY <2>2, <2>3, <3>1
    <3>2. ASSUME Every(1), \A j \in 1 .. Len(b) : Every(j + 1), NEW j \in DOMAIN s PROVE Every(j)
      BY <2>1, <3>2
    <3> QED BY <3>1, <3>2
  <2> QED BY <2>4, <2>5 DEF Every
<1>6. InTime(s, live, n, left) <=>
        (Wires(f) \cap live \subseteq Steady(n)) /\ \A j \in 1 .. Len(b) : \A g \in Wires(b[j]) \cap live : Under(j, g)
  BY <1>2, <1>3, <1>4, <1>5
<1> QED BY <1>6 DEF Under

LEMMA UnderOn ==
  ASSUME NEW s, NEW f, NEW b, IsOn(s, f, b), NEW q
  PROVE  /\ UnderSync(s, q) <=> Strict(b) /\ (Open(b) => f.kind = "sync" \/ PlainStore(f, q))
         /\ Strict(s) <=> Strict(b) /\ (Open(b) => f.kind = "sync")
         /\ Open(s) <=> Wires(f) # {}
<1>1. /\ Len(b) \in Nat /\ DOMAIN s = 1 .. (Len(b) + 1) /\ s[1] = f /\ DOMAIN b = 1 .. Len(b)
      /\ \A i \in 1 .. Len(b) : s[i + 1] = b[i] 
      /\ \A i \in 2 .. (Len(b) + 1) : s[i] = b[i - 1]
  BY DEF IsOn
<1>2. Open(s) <=> Wires(f) # {}
  BY <1>1 DEF Open
<1>3. Open(b) => 2 \in DOMAIN s /\ s[2] = b[1] /\ 2 - 1 = 1
  BY <1>1 DEF Open
<1>4. ASSUME NEW j \in DOMAIN b, j > 1
      PROVE  j + 1 \in DOMAIN s /\ s[j + 1] = b[j] /\ s[(j + 1) - 1] = b[j - 1] /\ j + 1 > 1 /\ j + 1 # 2
  BY <1>1, <1>4
<1>5. ASSUME NEW j \in DOMAIN s, j > 2
      PROVE  j - 1 \in DOMAIN b /\ s[j] = b[j - 1] /\ s[j - 1] = b[(j - 1) - 1] /\ j - 1 > 1 /\ j # 2
  BY <1>1, <1>5
<1>6. \A j \in DOMAIN s : j > 1 => j = 2 \/ j > 2
  BY <1>1
<1>7. 2 \in DOMAIN s => 1 \in DOMAIN b /\ s[2] = b[1] /\ 2 - 1 = 1
  BY <1>1
<1>8. UnderSync(s, q) => Strict(b) /\ (Open(b) => f.kind = "sync" \/ PlainStore(f, q))
  <2> SUFFICES ASSUME UnderSync(s, q) PROVE Strict(b) /\ (Open(b) => f.kind = "sync" \/ PlainStore(f, q))
    OBVIOUS
  <2>1. Strict(b)
    BY <1>4 DEF UnderSync, Strict
  <2>2. Open(b) => f.kind = "sync" \/ PlainStore(f, q)
    BY <1>3, <1>1 DEF UnderSync, Open
  <2> QED BY <2>1, <2>2
<1>9. Strict(b) /\ (Open(b) => f.kind = "sync" \/ PlainStore(f, q)) => UnderSync(s, q)
  <2> SUFFICES ASSUME Strict(b), Open(b) => f.kind = "sync" \/ PlainStore(f, q), NEW j \in DOMAIN s, j > 1, Wires(s[j]) # {}
               PROVE  s[j - 1].kind = "sync" \/ (j = 2 /\ PlainStore(s[1], q))
    BY DEF UnderSync
  <2>1. CASE j = 2
    BY <2>1, <1>7, <1>1 DEF Open
  <2>2. CASE j > 2
    BY <2>2, <1>5 DEF Strict
  <2> QED BY <2>1, <2>2, <1>6
<1>10. Strict(s) => Strict(b) /\ (Open(b) => f.kind = "sync")
  <2> SUFFICES ASSUME Strict(s) PROVE Strict(b) /\ (Open(b) => f.kind = "sync")
    OBVIOUS
  <2>1. Strict(b)
    BY <1>4 DEF Strict
  <2>2. Open(b) => f.kind = "sync"
    BY <1>3, <1>1 DEF Strict, Open
  <2> QED BY <2>1, <2>2
<1>11. Strict(b) /\ (Open(b) => f.kind = "sync") => Strict(s)
  <2> SUFFICES ASSUME Strict(b), Open(b) => f.kind = "sync", NEW j \in DOMAIN s, j > 1, Wires(s[j]) # {}
               PROVE  s[j - 1].kind = "sync"
    BY DEF Strict
  <2>1. CASE j = 2
    BY <2>1, <1>7, <1>1 DEF Open
  <2>2. CASE j > 2
    BY <2>2, <1>5 DEF Strict
  <2> QED BY <2>1, <2>2, <1>6
<1> QED BY <1>2, <1>8, <1>9, <1>10, <1>11

LEMMA BusyOn ==
  ASSUME NEW s, NEW f, NEW b, IsOn(s, f, b), NEW kind
  PROVE  Busy(kind, s) <=> f.kind = kind \/ Busy(kind, b)
<1>1. /\ Len(b) \in Nat /\ DOMAIN s = 1 .. (Len(b) + 1) /\ s[1] = f /\ DOMAIN b = 1 .. Len(b)
      /\ \A i \in 1 .. Len(b) : s[i + 1] = b[i] 
      /\ \A i \in 2 .. (Len(b) + 1) : s[i] = b[i - 1]
  BY DEF IsOn
<1>2. \A i \in DOMAIN b : i + 1 \in DOMAIN s
  BY <1>1
<1>3. \A i \in DOMAIN s : i = 1 \/ (i \in 2 .. (Len(b) + 1) /\ i - 1 \in DOMAIN b)
  BY <1>1
<1>4. 1 \in DOMAIN s
  BY <1>1
<1> QED BY <1>1, <1>2, <1>3, <1>4 DEF Busy

\* One dispatcher, and what it lets go of, by the frame on top.
LEMMA SyncOn ==
  ASSUME NEW s, NEW f, NEW b, IsOn(s, f, b), NEW q, NEW d
  PROVE  /\ f.kind # "sync" => (Syncing(s, q, d) <=> Syncing(b, q, d))
         /\ f.kind = "sync" =>
              (Syncing(s, q, d) <=>
                 /\ ~Busy("sync", b) /\ \A k \in DOMAIN f.todo : f.todo[k] = "left" => k = 1
                 /\ Len(d) = Cardinality(LeavesIn(q)) + (IF Lets(f) THEN 1 ELSE 0))
<1>1. /\ Len(b) \in Nat /\ DOMAIN s = 1 .. (Len(b) + 1) /\ s[1] = f /\ DOMAIN b = 1 .. Len(b)
      /\ \A i \in 1 .. Len(b) : s[i + 1] = b[i]
      /\ \A i \in 2 .. (Len(b) + 1) : s[i] = b[i - 1]
  BY DEF IsOn
<1>2. \A i \in DOMAIN b : i + 1 \in DOMAIN s /\ i + 1 # 1 /\ s[i + 1] = b[i] /\ i \in Nat
  BY <1>1
<1>3. \A i \in DOMAIN s : i = 1 \/ (i - 1 \in DOMAIN b /\ s[i] = b[i - 1] /\ i \in Nat)
  BY <1>1
<1>4. 1 \in DOMAIN s
  BY <1>1
<1>5. (\E i \in DOMAIN s : Lets(s[i])) <=> Lets(f) \/ \E i \in DOMAIN b : Lets(b[i])
  BY <1>1, <1>2, <1>3, <1>4
<1>6. Busy("sync", s) <=> f.kind = "sync" \/ Busy("sync", b)
  BY BusyOn
<1> DEFINE One(t) == \A i, j \in DOMAIN t : t[i].kind = "sync" /\ t[j].kind = "sync" => i = j
           First(t) == \A i \in DOMAIN t : t[i].kind = "sync" => \A k \in DOMAIN t[i].todo : t[i].todo[k] = "left" => k = 1
           Top1 == \A k \in DOMAIN f.todo : f.todo[k] = "left" => k = 1
<1>7. First(s) <=> (f.kind = "sync" => Top1) /\ First(b)
  <2>1. First(s) => (f.kind = "sync" => Top1) /\ First(b)
    BY <1>1, <1>2, <1>4
  <2>2. (f.kind = "sync" => Top1) /\ First(b) => First(s)
    BY <1>1, <1>3
  <2> QED BY <2>1, <2>2
<1>8. One(s) <=> One(b) /\ (f.kind = "sync" => ~Busy("sync", b))
  <2>1. One(s) => One(b)
    <3> SUFFICES ASSUME One(s), NEW i \in DOMAIN b, NEW j \in DOMAIN b, b[i].kind = "sync", b[j].kind = "sync" PROVE i = j
      OBVIOUS
    <3>1. i + 1 = j + 1
      BY <1>2
    <3> QED BY <3>1, <1>2
  <2>2. One(s) /\ f.kind = "sync" => ~Busy("sync", b)
    BY <1>1, <1>2, <1>4 DEF Busy
  <2>3. One(b) /\ (f.kind = "sync" => ~Busy("sync", b)) => One(s)
    <3> SUFFICES ASSUME One(b), f.kind = "sync" => ~Busy("sync", b),
                        NEW i \in DOMAIN s, NEW j \in DOMAIN s, s[i].kind = "sync", s[j].kind = "sync" PROVE i = j
      OBVIOUS
    <3>1. CASE i = 1 \/ j = 1
      BY <3>1, <1>1, <1>3 DEF Busy
    <3>2. CASE i # 1 /\ j # 1
      <4>1. i - 1 = j - 1
        BY <3>2, <1>3
      <4> QED BY <4>1, <3>2, <1>3
    <3> QED BY <3>1, <3>2
  <2> QED BY <2>1, <2>2, <2>3
<1>9. ~Busy("sync", b) => One(b) /\ First(b) /\ ~\E i \in DOMAIN b : Lets(b[i])
  BY DEF Busy, Lets
<1>10. \A t : OneSync(t, q) <=> One(t) /\ First(t) /\ (q # <<>> => Busy("sync", t))
  BY DEF OneSync
<1> HIDE DEF One, First, Top1
<1>11. f.kind # "sync" => (Syncing(s, q, d) <=> Syncing(b, q, d))
  <2> SUFFICES ASSUME f.kind # "sync" PROVE Syncing(s, q, d) <=> Syncing(b, q, d)
    OBVIOUS
  <2>1. ~Lets(f)
    BY DEF Lets
  <2>2. Counted(s, q, d) <=> Counted(b, q, d)
    BY <2>1, <1>5 DEF Counted
  <2>3. OneSync(s, q) <=> OneSync(b, q)
    BY <1>6, <1>7, <1>8, <1>10
  <2> QED BY <2>2, <2>3 DEF Syncing
<1>12. ASSUME f.kind = "sync"
       PROVE  Syncing(s, q, d) <=> ~Busy("sync", b) /\ Top1 /\ Len(d) = Cardinality(LeavesIn(q)) + (IF Lets(f) THEN 1 ELSE 0)
  <2>1. OneSync(s, q) <=> ~Busy("sync", b) /\ Top1
    BY <1>12, <1>6, <1>7, <1>8, <1>9, <1>10
  <2>2. ~Busy("sync", b) => (Counted(s, q, d) <=> Len(d) = Cardinality(LeavesIn(q)) + (IF Lets(f) THEN 1 ELSE 0))
    BY <1>5, <1>9 DEF Counted
  <2> QED BY <2>1, <2>2 DEF Syncing
<1> QED BY <1>11, <1>12 DEF Top1

LEMMA StoreOn ==
  ASSUME NEW s, NEW f, NEW b, IsOn(s, f, b), NEW q
  PROVE  /\ f.kind = "store" => Storing(s, q)
         /\ f.kind # "store" => (Storing(s, q) <=> Storing(b, q))
BY BusyOn DEF Storing

-----------------------------------------------------------------------------
(* The leaves queued.                                                      *)

LEMMA LeavesFinite ==
  ASSUME NEW S, NEW q \in Seq(S) PROVE IsFiniteSet(LeavesIn(q)) /\ Cardinality(LeavesIn(q)) \in Nat
<1>1. Len(q) \in Nat /\ DOMAIN q = 1 .. Len(q)
  BY LenProperties
<1>2. IsFiniteSet(DOMAIN q)
  BY <1>1, FS_Interval
<1>3. LeavesIn(q) \subseteq DOMAIN q
  BY DEF LeavesIn
<1>4. IsFiniteSet(LeavesIn(q))
  BY <1>2, <1>3, FS_Subset
<1> QED BY <1>4, FS_CardinalityType

LEMMA LeavesNone == LeavesIn(<<>>) = {} /\ Cardinality(LeavesIn(<<>>)) = 0
BY FS_EmptySet DEF LeavesIn

LEMMA LeavesQueued ==
  ASSUME NEW S, NEW q \in Seq(S), NEW x \in S
  PROVE  Cardinality(LeavesIn(Append(q, x))) = Cardinality(LeavesIn(q)) + (IF x.type = "leave" THEN 1 ELSE 0)
<1> DEFINE t == Append(q, x)
<1>1. /\ Len(q) \in Nat /\ DOMAIN q = 1 .. Len(q) /\ DOMAIN t = 1 .. (Len(q) + 1)
      /\ \A i \in 1 .. Len(q) : t[i] = q[i]
      /\ t[Len(q) + 1] = x
  BY Appending
<1> HIDE DEF t
<1>2. \A k \in DOMAIN t : k \in DOMAIN q \/ k = Len(q) + 1
  BY <1>1
<1>3. LeavesIn(t) = IF x.type = "leave" THEN LeavesIn(q) \cup {Len(q) + 1} ELSE LeavesIn(q)
  BY <1>1, <1>2 DEF LeavesIn
<1>4. Len(q) + 1 \notin LeavesIn(q)
  BY <1>1 DEF LeavesIn
<1>5. Cardinality(LeavesIn(q) \cup {Len(q) + 1}) = Cardinality(LeavesIn(q)) + 1
  BY <1>4, LeavesFinite, FS_AddElement
<1>6. Cardinality(LeavesIn(q)) \in Nat
  BY LeavesFinite
<1> QED BY <1>3, <1>5, <1>6 DEF t

LEMMA LeavesTaken ==
  ASSUME NEW S, NEW q \in Seq(S), q # <<>>
  PROVE  Cardinality(LeavesIn(q)) = Cardinality(LeavesIn(Tail(q))) + (IF Head(q).type = "leave" THEN 1 ELSE 0)
<1> DEFINE t == Tail(q)
           up == [k \in LeavesIn(t) |-> k + 1]
<1>1. /\ Head(q) = q[1] /\ 1 \in DOMAIN q /\ Len(q) \in Nat \ {0} /\ DOMAIN q = 1 .. Len(q)
      /\ DOMAIN t = 1 .. (Len(q) - 1) /\ \A i \in 1 .. (Len(q) - 1) : t[i] = q[i + 1]
      /\ t \in Seq(S)
  BY Popping
<1> HIDE DEF t
<1>2. IsFiniteSet(LeavesIn(t)) /\ IsFiniteSet(LeavesIn(q)) /\ Cardinality(LeavesIn(t)) \in Nat
  BY <1>1, LeavesFinite
<1>3. \A k \in LeavesIn(t) : k + 1 \in LeavesIn(q) \ {1} /\ k \in Nat
  BY <1>1 DEF LeavesIn
<1>4. \A k \in LeavesIn(q) \ {1} : k - 1 \in LeavesIn(t) /\ k \in Nat
  BY <1>1 DEF LeavesIn
<1>5. up \in Bijection(LeavesIn(t), LeavesIn(q) \ {1})
  <2>1. up \in [LeavesIn(t) -> LeavesIn(q) \ {1}]
    BY <1>3
  <2>2. \A a, b \in LeavesIn(t) : up[a] = up[b] => a = b
    BY <1>3
  <2>3. \A k \in LeavesIn(q) \ {1} : k - 1 \in LeavesIn(t) /\ up[k - 1] = k
    BY <1>4
  <2> HIDE DEF up
  <2>4. up \in Injection(LeavesIn(t), LeavesIn(q) \ {1})
    BY <2>1, <2>2 DEF Injection, IsInjective
  <2>5. \A k \in LeavesIn(q) \ {1} : \E a \in LeavesIn(t) : up[a] = k
    BY <2>3
  <2>6. up \in Surjection(LeavesIn(t), LeavesIn(q) \ {1})
    BY <2>1, <2>5 DEF Surjection
  <2> QED BY <2>4, <2>6 DEF Bijection
<1>6. Cardinality(LeavesIn(q) \ {1}) = Cardinality(LeavesIn(t))
  BY <1>2, <1>5, FS_Bijection DEF ExistsBijection
<1>7. 1 \in LeavesIn(q) <=> Head(q).type = "leave"
  BY <1>1 DEF LeavesIn
<1>8. CASE 1 \in LeavesIn(q)
  <2>1. Cardinality(LeavesIn(q) \ {1}) = Cardinality(LeavesIn(q)) - 1 /\ Cardinality(LeavesIn(q)) \in Nat
    BY <1>2, <1>8, FS_RemoveElement, FS_CardinalityType
  <2> QED BY <2>1, <1>6, <1>7, <1>8 DEF t
<1>9. CASE 1 \notin LeavesIn(q)
  <2>1. LeavesIn(q) \ {1} = LeavesIn(q)
    BY <1>9
  <2>2. Cardinality(LeavesIn(q)) = Cardinality(LeavesIn(t))
    BY <2>1, <1>6, Zenon
  <2>3. Cardinality(LeavesIn(q)) = Cardinality(LeavesIn(t)) + 0
    BY <2>2, <1>2
  <2> QED BY <2>3, <1>7, <1>9 DEF t
<1> QED BY <1>8, <1>9

-----------------------------------------------------------------------------
(* Frames pushed, and the effect of one taken.                             *)

LEMMA NewFrames ==
  ASSUME NEW n \in Models, NEW kind \in {"app", "sync", "store"}
  PROVE  LET f == Frame(kind, <<>>, Absent) IN
         /\ f \in Frames(n) /\ f.kind = kind /\ f.todo = <<>> /\ Wires(f) = {} /\ Left2Do(f, "dispose") = {} /\ Left2Do(f, "leave") = {}
<1> DEFINE f == Frame(kind, <<>>, Absent)
<1>1. Absent \in EntryType
  BY BaseEntries
<1>2. f = [kind |-> kind, todo |-> <<>>, before |-> Absent]
  BY DEF Frame
<1>3. <<>> \in Seq(SyncDoings) /\ <<>> \in Seq(StoreEffects(n))
  BY EmptySeq
<1>4. f \in Frames(n)
  <2> DEFINE none == <<>>
  <2>1. f = [kind |-> kind, todo |-> none, before |-> Absent] /\ none \in {<<>>}
        /\ none \in Seq(SyncDoings) /\ none \in Seq(StoreEffects(n))
    BY <1>2, <1>3
  <2> HIDE DEF none, f
  <2> QED BY <1>1, <2>1 DEF Frames
<1>5. f.kind = kind /\ f.todo = <<>>
  BY <1>2
<1> HIDE DEF f
<1>6. \A do : Left2Do(f, do) = {}
  BY <1>5 DEF Left2Do
<1>7. Wires(f) = {} /\ Left2Do(f, "dispose") = {} /\ Left2Do(f, "leave") = {}
  BY <1>6 DEF Wires
<1> QED BY <1>4, <1>5, <1>7 DEF f

LEMMA FrameFacts ==
  ASSUME NEW n \in Models, NEW f \in Frames(n)
  PROVE  /\ f = [kind |-> f.kind, todo |-> f.todo, before |-> f.before]
         /\ f.kind \in {"step", "sync", "store", "app"} /\ f.before \in EntryType
         /\ f.kind = "step" => f.todo \in Todo(n)
         /\ f.kind = "sync" => f.todo \in Seq(SyncDoings)
         /\ f.kind = "store" => f.todo \in Seq(StoreEffects(n))
BY DEF Frames

LEMMA WithTodo ==
  ASSUME NEW n \in Models, NEW f \in Frames(n), NEW todo,
         f.kind = "step" => todo \in Todo(n), f.kind = "sync" => todo \in Seq(SyncDoings),
         f.kind = "store" => todo \in Seq(StoreEffects(n)), f.kind # "app"
  PROVE  /\ [f EXCEPT !.todo = todo] \in Frames(n) /\ [f EXCEPT !.todo = todo].kind = f.kind
         /\ [f EXCEPT !.todo = todo].todo = todo
<1>1. [f EXCEPT !.todo = todo] = [kind |-> f.kind, todo |-> todo, before |-> f.before]
  BY FrameFacts
<1>2. f.kind \in {"step", "sync", "store"} /\ f.before \in EntryType
  BY FrameFacts
<1> QED BY <1>1, <1>2 DEF Frames

LEMMA TodoFacts ==
  ASSUME NEW n \in Models, NEW todo \in Todo(n), todo # <<>>
  PROVE  /\ Tail(todo) \in Todo(n) /\ Head(todo) \in Effects(n) /\ todo \in Seq(Effects(n))
         /\ todo \in Seq(Others(n)) => Tail(todo) \in Seq(Others(n)) /\ Head(todo) \in Others(n)
         /\ todo \in Seq(Wiring(n)) => Tail(todo) \in Seq(Wiring(n)) /\ Head(todo) \in Wiring(n)
         /\ todo \in Seq(Resuming(n)) => Tail(todo) \in Seq(Resuming(n)) /\ Head(todo) \in Resuming(n)
<1>1. Wiring(n) \subseteq Effects(n) /\ Others(n) \subseteq Effects(n) /\ Resuming(n) \subseteq Effects(n)
  BY DEF Wiring, Others, Resuming
<1>2. todo \in Seq(Effects(n))
  BY <1>1, SeqLarger DEF Todo
<1>3. \A S : todo \in Seq(S) => Head(todo) \in S /\ Tail(todo) \in Seq(S)
  BY Popping
<1> QED BY <1>2, <1>3 DEF Todo

\* The todo of a step that does what no wiring step does wires nothing.
LEMMA NoWires ==
  ASSUME NEW n \in Models, NEW todo \in Todo(n)
  PROVE  todo \in Seq(Others(n)) \cup Seq(Resuming(n)) => On(todo, "wire") = {}
<1>1. (\A x \in Others(n) : x.do # "wire") /\ (\A x \in Resuming(n) : x.do # "wire")
  BY DEF Others, Resuming
<1> QED BY <1>1, OnOf

LEMMA NoEnds ==
  ASSUME NEW n \in Models, NEW todo \in Todo(n)
  PROVE  todo \in Seq(Wiring(n)) \cup Seq(Resuming(n)) => On(todo, "dispose") = {} /\ On(todo, "leave") = {}
<1>1. /\ \A x \in Wiring(n) : x.do # "dispose" /\ x.do # "leave"
      /\ \A x \in Resuming(n) : x.do # "dispose" /\ x.do # "leave"
  BY DEF Wiring, Resuming
<1>2. todo \in Seq(Wiring(n)) => On(todo, "dispose") = {} /\ On(todo, "leave") = {}
  BY <1>1, OnOf
<1>3. todo \in Seq(Resuming(n)) => On(todo, "dispose") = {} /\ On(todo, "leave") = {}
  BY <1>1, OnOf
<1> QED BY <1>2, <1>3

\* A frame replaced by one of its kind that wires no more, and still ends what it was to end, but for what is not live or
\* has its departure.
StillEnds(f, h, live, left, left2) ==
  \A g \in live : /\ g \in Left2Do(f, "dispose") => g \in Left2Do(h, "dispose")
                  /\ g \in Left2Do(f, "leave") => g \in Left2Do(h, "leave") \cup left2
                  /\ g \in left => g \in left2

LEMMA InTimeSwap ==
  ASSUME NEW s, NEW f, NEW b, IsOn(s, f, b), NEW t, NEW h, IsOn(t, h, b), h.kind = f.kind,
         NEW live, NEW live2, live2 \subseteq live, NEW left, NEW left2, NEW n, InTime(s, live, n, left),
         Wires(h) \subseteq Wires(f), StillEnds(f, h, live2, left, left2)
  PROVE  InTime(t, live2, n, left2)
<1>1. Wires(f) \cap live \subseteq Steady(n)
  BY InTimeOn
<1>2. \A j \in 1 .. Len(b) : \A g \in Wires(b[j]) \cap live :
        \/ g \in Steady(n) \cup Left2Do(f, "dispose") \cup Above(b, j, "dispose")
        \/ /\ g \in LeavingOf(n) \cap (Left2Do(f, "leave") \cup Above(b, j, "leave") \cup left)
           /\ IF j = 1 THEN f.kind = "sync" ELSE b[j - 1].kind = "sync"
  BY InTimeOn
<1>3. Wires(h) \cap live2 \subseteq Steady(n)
  BY <1>1
<1>4. \A j \in 1 .. Len(b) : \A g \in Wires(b[j]) \cap live2 :
        \/ g \in Steady(n) \cup Left2Do(h, "dispose") \cup Above(b, j, "dispose")
        \/ /\ g \in LeavingOf(n) \cap (Left2Do(h, "leave") \cup Above(b, j, "leave") \cup left2)
           /\ IF j = 1 THEN h.kind = "sync" ELSE b[j - 1].kind = "sync"
  BY <1>2 DEF StillEnds
<1> QED BY <1>3, <1>4, InTimeOn

LEMMA InTimePush ==
  ASSUME NEW s, NEW f, NEW b, IsOn(s, f, b), NEW live, NEW n, NEW left, InTime(b, live, n, left), Wires(f) \cap live \subseteq Steady(n)
  PROVE  InTime(s, live, n, left)
<1>1. DOMAIN b = 1 .. Len(b) /\ Len(b) \in Nat
  BY DEF IsOn
<1>2. \A j \in 1 .. Len(b) : \A g \in Wires(b[j]) \cap live :
        \/ g \in Steady(n) \cup Above(b, j, "dispose")
        \/ /\ g \in LeavingOf(n) \cap (Above(b, j, "leave") \cup left)
           /\ j > 1 /\ b[j - 1].kind = "sync"
  BY <1>1 DEF InTime
<1>3. \A j \in 1 .. Len(b) : \A g \in Wires(b[j]) \cap live :
        \/ g \in Steady(n) \cup Left2Do(f, "dispose") \cup Above(b, j, "dispose")
        \/ /\ g \in LeavingOf(n) \cap (Left2Do(f, "leave") \cup Above(b, j, "leave") \cup left)
           /\ IF j = 1 THEN f.kind = "sync" ELSE b[j - 1].kind = "sync"
  BY <1>1, <1>2
<1> QED BY <1>3, InTimeOn

LEMMA InTimePop ==
  ASSUME NEW s, NEW f, NEW b, IsOn(s, f, b), NEW live, NEW n, NEW left, InTime(s, live, n, left),
         Left2Do(f, "dispose") \cap live = {}, Left2Do(f, "leave") = {}, f.kind = "sync" => left = {}
  PROVE  InTime(b, live, n, left)
<1>1. DOMAIN b = 1 .. Len(b) /\ Len(b) \in Nat
  BY DEF IsOn
<1>2. \A j \in 1 .. Len(b) : \A g \in Wires(b[j]) \cap live :
        \/ g \in Steady(n) \cup Left2Do(f, "dispose") \cup Above(b, j, "dispose")
        \/ /\ g \in LeavingOf(n) \cap (Left2Do(f, "leave") \cup Above(b, j, "leave") \cup left)
           /\ IF j = 1 THEN f.kind = "sync" ELSE b[j - 1].kind = "sync"
  BY InTimeOn
<1>3. Above(b, 1, "leave") = {}
  <2>1. 1 .. (1 - 1) = {}
    OBVIOUS
  <2> QED BY <2>1 DEF Above
<1> SUFFICES ASSUME NEW j \in DOMAIN b, NEW g \in Wires(b[j]) \cap live
             PROVE  \/ g \in Steady(n) \cup Above(b, j, "dispose")
                    \/ /\ g \in LeavingOf(n) \cap (Above(b, j, "leave") \cup left)
                       /\ j > 1 /\ b[j - 1].kind = "sync"
  BY DEF InTime
<1>4. CASE j = 1
  BY <1>1, <1>2, <1>3, <1>4
<1>5. CASE j # 1
  <2>1. j > 1
    BY <1>1, <1>5
  <2> QED BY <1>1, <1>2, <1>5, <2>1
<1> QED BY <1>4, <1>5

-----------------------------------------------------------------------------
(* What the stack becomes.                                                 *)

\* A message is queued: the dispatcher is on the stack, or is put on top.
LEMMA SendSync ==
  ASSUME NEW n \in Models, NEW b, NEW live, NEW left, NEW q \in Seq(SyncMessage), NEW d, NEW sq,
         Stacked(b, live, n, left, q, d, sq), Strict(b), NEW msg \in SyncMessage, Len(d) \in Nat,
         NEW d2, Len(d2) = Len(d) + (IF msg.type = "leave" THEN 1 ELSE 0)
  PROVE  Stacked(IF Busy("sync", b) THEN b ELSE <<Frame("sync", <<>>, Absent)>> \o b, live, n, left, Append(q, msg), d2, sq)
<1>1. Cardinality(LeavesIn(Append(q, msg))) = Cardinality(LeavesIn(q)) + (IF msg.type = "leave" THEN 1 ELSE 0)
  BY LeavesQueued
<1>2. Append(q, msg) # <<>>
  BY Appending
<1>3. Cardinality(LeavesIn(q)) \in Nat
  BY LeavesFinite
<1> DEFINE q2 == Append(q, msg)
<1>4. Cardinality(LeavesIn(q2)) = Cardinality(LeavesIn(q)) + (IF msg.type = "leave" THEN 1 ELSE 0) /\ q2 # <<>>
  BY <1>1, <1>2
<1> HIDE DEF q2
<1>5. CASE Busy("sync", b)
  <2>1. OneSync(b, q2)
    BY <1>5 DEF OneSync, Stacked, Syncing
  <2>2. Counted(b, q2, d2)
    BY <1>3, <1>4 DEF Counted, Stacked, Syncing
  <2>3. Stacked(b, live, n, left, q2, d2, sq)
    BY <2>1, <2>2 DEF Stacked, Syncing
  <2> QED BY <2>3, <1>5 DEF q2
<1>6. CASE ~Busy("sync", b)
  <2> DEFINE f == Frame("sync", <<>>, Absent)
             s == <<f>> \o b
  <2>1. f \in Frames(n) /\ f.kind = "sync" /\ f.todo = <<>> /\ Wires(f) = {}
    BY NewFrames
  <2> HIDE DEF f
  <2>2. s \in Seq(Frames(n)) /\ IsOn(s, f, b)
    BY <2>1, PushOn DEF Stacked
  <2> HIDE DEF s
  <2>3. InTime(s, live, n, left)
    BY <2>1, <2>2, InTimePush DEF Stacked
  <2>4. UnderSync(s, sq)
    BY <2>1, <2>2, UnderOn
  <2>5. Storing(s, sq)
    BY <2>1, <2>2, StoreOn DEF Stacked
  <2>6. \A i \in DOMAIN b : ~Lets(b[i])
    BY <1>6 DEF Busy, Lets
  <2>7. Len(d) = Cardinality(LeavesIn(q)) + 0
    BY <2>6 DEF Stacked, Syncing, Counted
  <2>8. q = <<>>
    BY <1>6 DEF Stacked, Syncing, OneSync
  <2>9. Len(d2) = Cardinality(LeavesIn(q2)) + 0
    BY <2>7, <1>3, <1>4
  <2>10. ~Lets(f) /\ \A k \in DOMAIN f.todo : f.todo[k] = "left" => k = 1
    BY <2>1 DEF Lets
  <2>11. Syncing(s, q2, d2)
    BY <1>6, <2>1, <2>2, <2>9, <2>10, SyncOn
  <2>12. Stacked(s, live, n, left, q2, d2, sq)
    BY <2>2, <2>3, <2>4, <2>5, <2>11 DEF Stacked
  <2> QED BY <2>12, <1>6 DEF s, q2, f
<1> QED BY <1>5, <1>6

LEMMA SendStore ==
  ASSUME NEW n \in Models, NEW b, NEW live, NEW left, NEW q, NEW d, NEW sq \in Seq(StoreInputs(n)),
         Stacked(b, live, n, left, q, d, sq), Strict(b), NEW input \in StoreInputs(n), Open(b) => input.type \in Plain
  PROVE  Stacked(IF Busy("store", b) THEN b ELSE <<Frame("store", <<>>, Absent)>> \o b, live, n, left, q, d, Append(sq, input))
<1> DEFINE sq2 == Append(sq, input)
<1>1. sq2 # <<>> /\ DOMAIN sq = 1 .. Len(sq) /\ Len(sq) \in Nat /\ DOMAIN sq2 = 1 .. (Len(sq) + 1) /\ sq2[Len(sq) + 1] = input
  BY Appending
<1> HIDE DEF sq2
<1>2. Len(b) \in Nat /\ DOMAIN b = 1 .. Len(b)
  BY LenProperties DEF Stacked
<1>3. CASE Busy("store", b)
  <2>1. UnderSync(b, sq2)
    BY DEF Strict, UnderSync
  <2>2. Storing(b, sq2)
    BY <1>3 DEF Storing
  <2>3. Stacked(b, live, n, left, q, d, sq2)
    BY <2>1, <2>2 DEF Stacked
  <2> QED BY <2>3, <1>3 DEF sq2
<1>4. CASE ~Busy("store", b)
  <2> DEFINE f == Frame("store", <<>>, Absent)
             s == <<f>> \o b
  <2>1. f \in Frames(n) /\ f.kind = "store" /\ f.todo = <<>> /\ Wires(f) = {}
    BY NewFrames
  <2> HIDE DEF f
  <2>2. s \in Seq(Frames(n)) /\ IsOn(s, f, b)
    BY <2>1, PushOn DEF Stacked
  <2> HIDE DEF s
  <2>3. InTime(s, live, n, left)
    BY <2>1, <2>2, InTimePush DEF Stacked
  <2>4. sq = <<>>
    BY <1>4 DEF Stacked, Storing
  <2>5. Len(sq) = 0
    BY <2>4
  <2>6. \A k \in DOMAIN sq2 : sq2[k] = input
    BY <1>1, <2>5
  <2>7. Open(b) => PlainStore(f, sq2)
    BY <2>1, <2>6 DEF PlainStore
  <2>8. UnderSync(s, sq2)
    BY <2>2, <2>7, UnderOn
  <2>9. Storing(s, sq2) /\ Syncing(s, q, d)
    BY <2>1, <2>2, StoreOn, SyncOn DEF Stacked
  <2>10. Stacked(s, live, n, left, q, d, sq2)
    BY <2>2, <2>3, <2>8, <2>9 DEF Stacked
  <2> QED BY <2>10, <1>4 DEF s, sq2, f
<1> QED BY <1>3, <1>4

LEMMA CallApp ==
  ASSUME NEW n \in Models, NEW b, NEW live, NEW left, NEW q, NEW d, NEW sq,
         Stacked(b, live, n, left, q, d, sq), Strict(b), ~Open(b)
  PROVE  Stacked(<<Frame("app", <<>>, Absent)>> \o b, live, n, left, q, d, sq)
<1> DEFINE f == Frame("app", <<>>, Absent)
           s == <<f>> \o b
<1>1. f \in Frames(n) /\ f.kind = "app" /\ f.todo = <<>> /\ Wires(f) = {}
  BY NewFrames
<1> HIDE DEF f
<1>2. s \in Seq(Frames(n)) /\ IsOn(s, f, b)
  BY <1>1, PushOn DEF Stacked
<1> HIDE DEF s
<1>3. InTime(s, live, n, left)
  BY <1>1, <1>2, InTimePush DEF Stacked
<1>4. UnderSync(s, sq)
  BY <1>2, UnderOn
<1>5. Storing(s, sq) /\ Syncing(s, q, d)
  BY <1>1, <1>2, StoreOn, SyncOn DEF Stacked
<1>6. Stacked(s, live, n, left, q, d, sq)
  BY <1>2, <1>3, <1>4, <1>5 DEF Stacked
<1> QED BY <1>6 DEF s, f

\* A step is committed over b, which waits for nothing but the Synchronizer: what was to be wired below still is in time.
LEMMA CommitOn ==
  ASSUME NEW n \in Models, NEW x, StepOf(n, x), NEW b, NEW live, NEW left, NEW q, NEW d, NEW sq,
         Stacked(b, live, n, left, q, d, sq), Strict(b), ~Open(b),
         NEW live2, live2 = (live \cup {y.gen : y \in x.builds}) \ {y.of : y \in x.builds},
         NEW left2, \A g \in left \cap LeavingOf(n) : g \in left2 \cup Disposed(x),
         NEW e \in EntryType
  PROVE  Stacked(<<Frame("step", x.effects, e)>> \o b, live2, x.m, left2, q, d, sq)
<1> DEFINE f == Frame("step", x.effects, e)
           s == <<f>> \o b
<1>1. x.m \in Models /\ x.effects \in Todo(x.m) /\ Later(n, x.m) /\ On(x.effects, "wire") \subseteq Steady(x.m) /\ Accounts(n, x)
      /\ Builds(n, x)
  BY DEF StepOf
<1>2. f.kind = "step" /\ f.todo = x.effects /\ f = [kind |-> "step", todo |-> x.effects, before |-> e]
  BY DEF Frame
<1>3. f \in Frames(x.m)
  <2> DEFINE t == x.effects
  <2>1. t \in Todo(x.m) /\ f = [kind |-> "step", todo |-> t, before |-> e]
    BY <1>1, <1>2
  <2> HIDE DEF t, f
  <2> QED BY <2>1 DEF Frames
<1> HIDE DEF f
<1>4. b \in Seq(Frames(n)) /\ b \in Seq(Frames(x.m))
  BY <1>1, LaterFrames DEF Stacked
<1>5. s \in Seq(Frames(x.m)) /\ IsOn(s, f, b)
  BY <1>3, <1>4, PushOn
<1> HIDE DEF s
<1>6. Left2Do(f, "dispose") = Disposed(x) /\ Left2Do(f, "leave") = LeftBy(x) /\ Wires(f) = On(x.effects, "wire")
  BY <1>2 DEF Left2Do, Disposed, LeftBy, Wires
<1>7. UnderSync(s, sq) /\ Storing(s, sq) /\ Syncing(s, q, d)
  BY <1>2, <1>5, UnderOn, StoreOn, SyncOn DEF Stacked
<1>8. InTime(s, live2, x.m, left2)
  <2>1. DOMAIN b = 1 .. Len(b) /\ Len(b) \in Nat /\ \A j \in DOMAIN b : b[j] \in Frames(n)
    BY <1>4, SeqFacts
  <2>2. n.nextGen \in Nat \ {0}
    BY ModelFacts
  <2>3. ASSUME NEW j \in DOMAIN b, NEW g \in Wires(b[j]) PROVE g # n.nextGen
    <3>1. b[j].kind = "step" /\ b[j].todo \in Todo(n) /\ g \in On(b[j].todo, "wire")
      BY <2>1, <2>3, FrameFacts DEF Wires, Left2Do
    <3>2. b[j].todo \in Seq(Effects(n))
      <4>1. Wiring(n) \subseteq Effects(n) /\ Others(n) \subseteq Effects(n) /\ Resuming(n) \subseteq Effects(n)
        BY DEF Wiring, Others, Resuming
      <4> QED BY <3>1, <4>1, SeqLarger DEF Todo
    <3>3. \A k \in DOMAIN b[j].todo : b[j].todo[k] \in Effects(n)
      BY <3>2, SeqFacts
    <3>4. \A y \in Effects(n) : y.gen \in 0 .. (n.nextGen - 1)
      BY DEF Effects
    <3> QED BY <3>1, <3>3, <3>4, <2>2 DEF On
  <2>4. {y.gen : y \in x.builds} \subseteq {n.nextGen}
    BY <1>1 DEF Builds, Build
  <2>5. ASSUME NEW j \in 1 .. Len(b), NEW g \in Wires(b[j]) \cap live2
        PROVE  \/ g \in Steady(x.m) \cup Left2Do(f, "dispose") \cup Above(b, j, "dispose")
               \/ /\ g \in LeavingOf(x.m) \cap (Left2Do(f, "leave") \cup Above(b, j, "leave") \cup left2)
                  /\ IF j = 1 THEN f.kind = "sync" ELSE b[j - 1].kind = "sync"
    <3>1. g \in live /\ g \notin {y.of : y \in x.builds}
      BY <2>1, <2>3, <2>4, <2>5
    <3>2. j > 1 /\ j # 1 /\ b[j - 1].kind = "sync"
      <4>1. j # 1
        BY <2>1, <2>5 DEF Open
      <4>2. j > 1
        BY <4>1, <2>1
      <4> QED BY <4>1, <4>2, <2>1, <2>5 DEF Strict
    <3>3. \/ g \in Steady(n) \cup Above(b, j, "dispose")
          \/ g \in LeavingOf(n) \cap (Above(b, j, "leave") \cup left)
      BY <3>1, <2>1, <2>5 DEF Stacked, InTime
    <3>4. CASE g \in Steady(n)
      <4>1. g \in Steady(x.m) \cup Disposed(x) \/ g \in LeavingOf(x.m) \cap LeftBy(x)
        BY <3>1, <3>4, <1>1 DEF Accounts
      <4> QED BY <4>1, <3>2, <1>6
    <3>5. CASE g \in LeavingOf(n) \cap (Above(b, j, "leave") \cup left)
      <4>1. g \in LeavingOf(x.m) \cup Disposed(x)
        BY <3>5, <1>1 DEF Accounts
      <4>2. g \in Above(b, j, "leave") \cup left2 \cup Disposed(x)
        BY <3>5
      <4> QED BY <4>1, <4>2, <3>2, <1>6
    <3> QED BY <3>3, <3>4, <3>5
  <2>6. Wires(f) \cap live2 \subseteq Steady(x.m)
    BY <1>1, <1>6
  <2> QED BY <1>5, <2>5, <2>6, InTimeOn
<1>9. Stacked(s, live2, x.m, left2, q, d, sq)
  BY <1>5, <1>7, <1>8 DEF Stacked
<1> QED BY <1>9 DEF s, f

\* What is disposed of is not live, what is left has its departure or is not.
MayTake(x, live, left) ==
  /\ x.do = "dispose" => x.gen \notin live
  /\ x.do = "leave" => x.gen \in left \/ x.gen \notin live

\* The stack s with the next effect of its top taken.
Taken(s) == <<[Head(s) EXCEPT !.todo = Tail(@)]>> \o Tail(s)

\* The next effect of the step on top is taken.
Takes(s, x, r, live, left, live2, left2) ==
  /\ s # <<>> /\ Head(s).kind = "step" /\ Head(s).todo # <<>>
  /\ r = Taken(s) /\ x = Head(Head(s).todo)
  /\ live2 \subseteq live /\ left \subseteq left2 /\ MayTake(x, live2, left2)

LEMMA TakeStep ==
  ASSUME NEW n \in Models, NEW s, NEW live, NEW left, NEW q, NEW d, NEW sq, Stacked(s, live, n, left, q, d, sq),
         NEW r, NEW x, NEW live2, NEW left2, Takes(s, x, r, live, left, live2, left2)
  PROVE  /\ Stacked(r, live2, n, left2, q, d, sq) /\ Strict(r) /\ (Open(r) => x \in Wiring(n)) /\ x \in Effects(n)
         /\ x.do = "wire" => (x.gen \in live => x.gen \in Steady(n)) /\ x \in Wiring(n)
<1> DEFINE f == Head(s)
           b == Tail(s)
           h == [f EXCEPT !.todo = Tail(f.todo)]
<1> USE DEF Takes
<1>1. s \in Seq(Frames(n)) /\ IsOn(s, f, b) /\ f \in Frames(n) /\ b \in Seq(Frames(n))
  BY PopOn DEF Stacked
<1>2. f.kind = "step" /\ f.todo # <<>> /\ x = Head(f.todo) /\ r = <<h>> \o b
      /\ live2 \subseteq live /\ left \subseteq left2 /\ MayTake(x, live2, left2)
  BY DEF Taken
<1> HIDE DEF f, b, Takes
<1>3. f.todo \in Todo(n)
  BY <1>1, <1>2, FrameFacts
<1>4. Tail(f.todo) \in Todo(n) /\ x \in Effects(n) /\ f.todo \in Seq(Effects(n))
  BY <1>2, <1>3, TodoFacts
<1>5. h \in Frames(n) /\ h.kind = "step" /\ h.todo = Tail(f.todo)
  <2> DEFINE t == Tail(f.todo)
  <2>1. t \in Todo(n) /\ f.kind = "step" /\ f.kind # "sync" /\ f.kind # "store" /\ f.kind # "app"
    BY <1>2, <1>4
  <2> HIDE DEF t
  <2>2. /\ [f EXCEPT !.todo = t] \in Frames(n) /\ [f EXCEPT !.todo = t].kind = f.kind /\ [f EXCEPT !.todo = t].todo = t
    BY <1>1, <2>1, WithTodo
  <2> QED BY <2>1, <2>2 DEF t
<1> HIDE DEF h
<1>6. r \in Seq(Frames(n)) /\ IsOn(r, h, b)
  <2>1. <<h>> \o b \in Seq(Frames(n)) /\ IsOn(<<h>> \o b, h, b)
    BY <1>1, <1>5, PushOn
  <2> QED BY <2>1, <1>2, Zenon
<1>7. \A do : On(f.todo, do) = On(h.todo, do) \cup (IF x.do = do THEN {x.gen} ELSE {})
  BY <1>2, <1>4, <1>5, OnTaken
<1>8. \A do : Left2Do(f, do) = Left2Do(h, do) \cup (IF x.do = do THEN {x.gen} ELSE {})
  BY <1>2, <1>5, <1>7 DEF Left2Do
<1>9. Wires(f) = Wires(h) \cup (IF x.do = "wire" THEN {x.gen} ELSE {})
  BY <1>8 DEF Wires
<1>10. Wires(f) # {} => f.todo \in Seq(Wiring(n))
  BY <1>2, <1>3, NoWires DEF Wires, Left2Do, Todo
<1>11. f.todo \in Seq(Wiring(n)) => x \in Wiring(n)
  BY <1>2, <1>3, TodoFacts
<1>12. InTime(r, live2, n, left2)
  <2>1. InTime(s, live, n, left) /\ h.kind = f.kind
    BY <1>2, <1>5 DEF Stacked
  <2>2. StillEnds(f, h, live2, left, left2)
    BY <1>2, <1>8 DEF StillEnds, MayTake
  <2>3. Wires(h) \subseteq Wires(f)
    BY <1>9
  <2>4. live2 \subseteq live
    BY <1>2
  <2>5. IsOn(s, f, b) /\ IsOn(r, h, b)
    BY <1>1, <1>6
  <2> QED BY <2>1, <2>2, <2>3, <2>4, <2>5, InTimeSwap
<1>13. Strict(b) /\ ~Open(b)
  BY <1>1, <1>2, UnderOn DEF Stacked, PlainStore
<1>14. UnderSync(r, sq) /\ Strict(r) /\ (Open(r) <=> Wires(h) # {})
  BY <1>6, <1>13, UnderOn
<1>15. Syncing(r, q, d) /\ Storing(r, sq)
  BY <1>1, <1>2, <1>5, <1>6, SyncOn, StoreOn DEF Stacked
<1>16. Stacked(r, live2, n, left2, q, d, sq)
  BY <1>6, <1>12, <1>14, <1>15 DEF Stacked
<1>17. Open(r) => x \in Wiring(n)
  BY <1>9, <1>10, <1>11, <1>14
<1>18. Wires(f) \cap live \subseteq Steady(n)
  BY <1>1, InTimeOn DEF Stacked
<1>19. x.do = "wire" => (x.gen \in live => x.gen \in Steady(n)) /\ x \in Wiring(n)
  BY <1>9, <1>10, <1>11, <1>18
<1> QED BY <1>4, <1>14, <1>16, <1>17, <1>19

\* The frame of a dispatcher on top is replaced.
LEMMA SwapStore ==
  ASSUME NEW n \in Models, NEW s, NEW live, NEW left, NEW q, NEW d, NEW sq, Stacked(s, live, n, left, q, d, sq), s # <<>>,
         Head(s).kind = "store", NEW h \in Frames(n), h.kind = "store", NEW sq2, PlainStore(Head(s), sq) => PlainStore(h, sq2),
         NEW r, r = <<h>> \o Tail(s)
  PROVE  /\ Stacked(r, live, n, left, q, d, sq2)
         /\ ~PlainStore(Head(s), sq) => Strict(r) /\ ~Open(r)
<1> DEFINE f == Head(s)
           b == Tail(s)
<1>1. s \in Seq(Frames(n)) /\ IsOn(s, f, b) /\ f \in Frames(n) /\ b \in Seq(Frames(n))
  BY PopOn DEF Stacked
<1>2. f.kind = "store" /\ (PlainStore(f, sq) => PlainStore(h, sq2)) /\ r = <<h>> \o b
  OBVIOUS
<1> HIDE DEF f, b
<1>3. r \in Seq(Frames(n)) /\ IsOn(r, h, b)
  <2>1. <<h>> \o b \in Seq(Frames(n)) /\ IsOn(<<h>> \o b, h, b)
    BY <1>1, PushOn
  <2> QED BY <2>1, <1>2, Zenon
<1>4. \A do : Left2Do(f, do) = {} /\ Left2Do(h, do) = {}
  BY <1>2 DEF Left2Do
<1>5. Wires(f) = {} /\ Wires(h) = {}
  BY <1>4 DEF Wires
<1>6. InTime(r, live, n, left)
  <2>1. InTime(s, live, n, left) /\ h.kind = f.kind /\ Wires(h) \subseteq Wires(f)
    BY <1>2, <1>5 DEF Stacked
  <2>2. StillEnds(f, h, live, left, left)
    BY <1>4 DEF StillEnds
  <2> QED BY <1>1, <1>3, <2>1, <2>2, InTimeSwap
<1>7. UnderSync(r, sq2)
  BY <1>1, <1>2, <1>3, UnderOn DEF Stacked
<1>8. ~PlainStore(f, sq) => Strict(r) /\ ~Open(r)
  BY <1>1, <1>2, <1>3, <1>5, UnderOn DEF Stacked
<1>9. Syncing(r, q, d) /\ Storing(r, sq2)
  BY <1>1, <1>2, <1>3, SyncOn, StoreOn DEF Stacked
<1>10. Stacked(r, live, n, left, q, d, sq2)
  BY <1>3, <1>6, <1>7, <1>9 DEF Stacked
<1> QED BY <1>8, <1>10 DEF f

LEMMA SwapSync ==
  ASSUME NEW n \in Models, NEW s, NEW live, NEW left, NEW q, NEW d, NEW sq, Stacked(s, live, n, left, q, d, sq), s # <<>>,
         Head(s).kind = "sync", NEW h \in Frames(n), h.kind = "sync", NEW left2, left \cap live \subseteq left2,
         \A k \in DOMAIN h.todo : h.todo[k] = "left" => k = 1,
         NEW q2, NEW d2, Len(d2) = Cardinality(LeavesIn(q2)) + (IF Lets(h) THEN 1 ELSE 0),
         NEW r, r = <<h>> \o Tail(s)
  PROVE  Stacked(r, live, n, left2, q2, d2, sq) /\ Strict(r) /\ ~Open(r)
<1> DEFINE f == Head(s)
           b == Tail(s)
<1>1. s \in Seq(Frames(n)) /\ IsOn(s, f, b) /\ f \in Frames(n) /\ b \in Seq(Frames(n))
  BY PopOn DEF Stacked
<1>2. f.kind = "sync" /\ r = <<h>> \o b
  OBVIOUS
<1> HIDE DEF f, b
<1>3. r \in Seq(Frames(n)) /\ IsOn(r, h, b)
  <2>1. <<h>> \o b \in Seq(Frames(n)) /\ IsOn(<<h>> \o b, h, b)
    BY <1>1, PushOn
  <2> QED BY <2>1, <1>2, Zenon
<1>4. \A do : Left2Do(f, do) = {} /\ Left2Do(h, do) = {}
  BY <1>2 DEF Left2Do
<1>5. Wires(f) = {} /\ Wires(h) = {}
  BY <1>4 DEF Wires
<1>6. InTime(r, live, n, left2)
  <2>1. InTime(s, live, n, left) /\ h.kind = f.kind /\ Wires(h) \subseteq Wires(f)
    BY <1>2, <1>5 DEF Stacked
  <2>2. StillEnds(f, h, live, left, left2)
    BY <1>4 DEF StillEnds
  <2> QED BY <1>1, <1>3, <2>1, <2>2, InTimeSwap
<1>7. Strict(b)
  BY <1>1, UnderOn DEF Stacked
<1>8. UnderSync(r, sq) /\ Strict(r) /\ ~Open(r)
  BY <1>3, <1>5, <1>7, UnderOn
<1>9. ~Busy("sync", b)
  BY <1>1, <1>2, SyncOn DEF Stacked
<1>10. Syncing(r, q2, d2)
  BY <1>3, <1>9, SyncOn
<1>11. Storing(r, sq)
  <2>1. Storing(b, sq)
    BY <1>1, <1>2, StoreOn DEF Stacked
  <2> QED BY <2>1, <1>3, StoreOn
<1>12. Stacked(r, live, n, left2, q2, d2, sq)
  BY <1>3, <1>6, <1>8, <1>10, <1>11 DEF Stacked
<1> QED BY <1>8, <1>12

\* The frame on top is done.
LEMMA PopTop ==
  ASSUME NEW n \in Models, NEW s, NEW live, NEW left, NEW q, NEW d, NEW sq, Stacked(s, live, n, left, q, d, sq), s # <<>>,
         Head(s).kind = "step" => \A do \in {"dispose", "leave"} : On(Head(s).todo, do) = {},
         Head(s).kind = "sync" => Head(s).todo = <<>> /\ q = <<>> /\ left = {},
         Head(s).kind = "store" => sq = <<>>
  PROVE  /\ Stacked(Tail(s), live, n, left, q, d, sq)
         /\ Head(s).kind \in {"step", "app"} => Strict(Tail(s)) /\ ~Open(Tail(s))
<1> DEFINE f == Head(s)
           b == Tail(s)
<1>1. s \in Seq(Frames(n)) /\ IsOn(s, f, b) /\ f \in Frames(n) /\ b \in Seq(Frames(n))
  BY PopOn DEF Stacked
<1>2. /\ f.kind = "step" => \A do \in {"dispose", "leave"} : On(f.todo, do) = {}
      /\ f.kind = "sync" => f.todo = <<>> /\ q = <<>> /\ left = {}
      /\ f.kind = "store" => sq = <<>>
  OBVIOUS
<1> HIDE DEF f, b
<1>3. Left2Do(f, "dispose") = {} /\ Left2Do(f, "leave") = {}
  BY <1>2 DEF Left2Do
<1>4. InTime(b, live, n, left)
  BY <1>1, <1>2, <1>3, InTimePop DEF Stacked
<1>5. Strict(b) /\ (f.kind \in {"step", "app"} => ~Open(b))
  BY <1>1, UnderOn DEF Stacked, PlainStore
<1>6. UnderSync(b, sq)
  BY <1>5 DEF Strict, UnderSync
<1>7. Syncing(b, q, d)
  <2>1. CASE f.kind = "sync"
    <3>1. ~Busy("sync", b) /\ Len(d) = Cardinality(LeavesIn(q)) + 0 /\ q = <<>>
      BY <1>1, <1>2, <2>1, SyncOn DEF Stacked, Lets
    <3>2. OneSync(b, q)
      BY <3>1 DEF OneSync, Busy
    <3>3. \A i \in DOMAIN b : ~Lets(b[i])
      BY <3>1 DEF Busy, Lets
    <3>4. Counted(b, q, d)
      BY <3>1, <3>3 DEF Counted
    <3> QED BY <3>2, <3>4 DEF Syncing
  <2>2. CASE f.kind # "sync"
    BY <1>1, <2>2, SyncOn DEF Stacked
  <2> QED BY <2>1, <2>2
<1>8. Storing(b, sq)
  BY <1>1, <1>2, StoreOn DEF Stacked, Storing
<1>9. Stacked(b, live, n, left, q, d, sq)
  BY <1>1, <1>4, <1>6, <1>7, <1>8 DEF Stacked
<1> QED BY <1>5, <1>9 DEF f, b

-----------------------------------------------------------------------------
(* The actions.  What another model leaves as it was.                      *)

LEMMA StatesLater ==
  ASSUME NEW n \in Models, NEW p \in Models, n.nextGen <= p.nextGen, NEW g, NEW gen, NEW mode, NEW q, NEW d
  PROVE  /\ SyncState(n, g, gen, mode, q, d) => SyncState(p, g, gen, mode, q, d)
         /\ StoreState(n, g, gen, q) => StoreState(p, g, gen, q)
<1>1. n.nextGen \in Nat /\ p.nextGen \in Nat
  BY ModelFacts
<1>2. 0 .. (n.nextGen - 1) \subseteq 0 .. (p.nextGen - 1)
  BY <1>1
<1>3. Departure(n) \subseteq Departure(p) /\ StoreInputs(n) \subseteq StoreInputs(p)
  BY <1>2 DEF Departure, StoreInputs
<1>4. Seq(Departure(n)) \subseteq Seq(Departure(p)) /\ Seq(StoreInputs(n)) \subseteq Seq(StoreInputs(p))
  BY <1>3, SeqLarger
<1>5. SyncState(n, g, gen, mode, q, d) => SyncState(p, g, gen, mode, q, d)
  BY <1>2, <1>4 DEF SyncState
<1>6. StoreState(n, g, gen, q) => StoreState(p, g, gen, q)
  BY <1>2, <1>4 DEF StoreState
<1> QED BY <1>5, <1>6

\* An instance changes, on the same replica.
LEMMA ObjectChanged ==
  ASSUME NEW i, NEW n, NEW gone, Objects(i, n, gone), NEW g \in DOMAIN i, NEW v \in Instance, v.replica = i[g].replica,
         v.closed => g \notin Steady(n) /\ ~v.wired
  PROVE  Objects([i EXCEPT ![g] = v], n, gone) /\ DOMAIN [i EXCEPT ![g] = v] = DOMAIN i
<1> DEFINE j == [i EXCEPT ![g] = v]
<1>1. DOMAIN j = DOMAIN i /\ \A h \in DOMAIN i : j[h] = IF h = g THEN v ELSE i[h]
  OBVIOUS
<1> HIDE DEF j
<1>2. \A h \in DOMAIN i : j[h].replica = i[h].replica /\ j[h] \in Instance
  BY <1>1 DEF Objects
<1>3. \A h \in DOMAIN i : j[h].closed => h \notin Steady(n) /\ ~j[h].wired
  BY <1>1 DEF Objects
<1>4. \A h \in DOMAIN i : j[h].replica < n.nextGen /\ j[h].replica \notin gone
  BY <1>2 DEF Objects
<1>5. \A h, k \in DOMAIN i : j[h].replica = j[k].replica => h = k
  BY <1>2 DEF Objects
<1>6. Objects(j, n, gone)
  BY <1>1, <1>2, <1>3, <1>4, <1>5 DEF Objects
<1> QED BY <1>1, <1>6 DEF j

\* The instances join, and leave, at a commit.
LEMMA ObjectsJoin ==
  ASSUME m \in Models, ObjectsSound, NEW s, StepOf(m, s)
  PROVE  /\ Objects(Joined(s), s.m, dead)
         /\ DOMAIN Joined(s) = (DOMAIN instances \cup {b.gen : b \in s.builds}) \ {b.of : b \in s.builds}
<1> DEFINE j == Joined(s)
<1>1. s.m \in Models /\ Later(m, s.m) /\ Builds(m, s) /\ m.nextGen \in Nat \ {0} /\ s.m.nextGen \in Nat \ {0}
  BY ModelFacts DEF StepOf
<1>2. m.nextGen <= s.m.nextGen
  BY <1>1 DEF Later
<1>3. /\ DOMAIN instances \subseteq 1 .. (m.nextGen - 1) /\ dead \subseteq 1 .. (m.nextGen - 1)
      /\ \A g \in DOMAIN instances : instances[g] \in Instance /\ instances[g].replica < m.nextGen /\ instances[g].replica \notin dead
      /\ \A g, h \in DOMAIN instances : instances[g].replica = instances[h].replica => g = h
      /\ Live(m) \subseteq DOMAIN instances
      /\ \A g \in DOMAIN instances : instances[g].closed => g \notin Steady(m) /\ ~instances[g].wired
  BY DEF ObjectsSound, Objects
<1>4. /\ DOMAIN j = (DOMAIN instances \cup {b.gen : b \in s.builds}) \ {b.of : b \in s.builds}
      /\ \A g \in DOMAIN j : j[g] = IF g \in DOMAIN instances THEN instances[g]
                                    ELSE Built(CHOOSE b \in s.builds : b.gen = g, s.m.entry)
  BY DEF Joined
<1> HIDE DEF j
<1>5. m.nextGen \notin DOMAIN instances /\ m.nextGen \notin dead
  BY <1>1, <1>3
<1>6. /\ DOMAIN instances \subseteq 1 .. (s.m.nextGen - 1) /\ dead \subseteq 1 .. (s.m.nextGen - 1)
      /\ \A g \in DOMAIN instances : instances[g].replica < s.m.nextGen
  <2>1. 1 .. (m.nextGen - 1) \subseteq 1 .. (s.m.nextGen - 1)
    BY <1>1, <1>2
  <2>2. \A g \in DOMAIN instances : instances[g].replica \in Nat
    BY <1>3 DEF Instance
  <2> QED BY <1>1, <1>2, <1>3, <2>1, <2>2
<1>7. ASSUME NEW g \in DOMAIN instances, instances[g].closed PROVE g \notin Steady(s.m) /\ ~instances[g].wired
  BY <1>1, <1>3, <1>5, <1>7 DEF Later
<1>8. CASE s.builds = {}
  <2>1. DOMAIN j = DOMAIN instances /\ \A g \in DOMAIN j : j[g] = instances[g]
    BY <1>4, <1>8
  <2>2. Live(s.m) \subseteq DOMAIN instances
    BY <1>1, <1>3, <1>8 DEF Builds
  <2>3. Objects(j, s.m, dead)
    BY <1>3, <1>6, <1>7, <2>1, <2>2 DEF Objects
  <2> QED BY <1>4, <2>3 DEF j
<1>9. CASE s.builds # {}
  <2>1. PICK tier \in Tier, of \in {0} \cup (Steady(m) \ Live(s.m)) :
          s.builds = {Build(m.nextGen, tier, of)} /\ s.m.nextGen = m.nextGen + 1
    BY <1>1, <1>9 DEF Builds
  <2> DEFINE b == Build(m.nextGen, tier, of)
             new == Built(b, s.m.entry)
  <2>2. b.gen = m.nextGen /\ b.tier = tier /\ b.of = of
    BY DEF Build
  <2>3. of # 0 => of \in DOMAIN instances
    BY <1>3, <2>1, ModelFacts
  <2>4. (CHOOSE x \in s.builds : x.gen = m.nextGen) = b
    BY <2>1, <2>2
  <2> HIDE DEF b
  <2>5. HydrationOf(s.m.entry) \in {"pending", "loaded", "failed"}
    BY <1>1, ModelFacts, Hydration
  <2>6. /\ new.replica = (IF of # 0 THEN instances[of].replica ELSE m.nextGen) /\ new.closed = FALSE
        /\ new \in Instance
    <3>1. new = [tier |-> tier, replica |-> IF of # 0 THEN instances[of].replica ELSE m.nextGen,
                 wired |-> FALSE, closed |-> FALSE, refused |-> FALSE, answer |-> HydrationOf(s.m.entry),
                 fresh |-> of # 0 /\ instances[of].fresh]
      BY <2>2 DEF Built
    <3>2. (IF of # 0 THEN instances[of].replica ELSE m.nextGen) \in Nat \ {0}
      BY <1>1, <1>3, <2>3 DEF Instance
    <3>3. (of # 0 /\ instances[of].fresh) \in BOOLEAN
      OBVIOUS
    <3> HIDE DEF new
    <3>4. new \in Instance
      BY <3>1, <3>2, <2>5 DEF Instance
    <3> QED BY <3>1, <3>4
  <2> HIDE DEF new
  <2>7. DOMAIN j = (DOMAIN instances \cup {m.nextGen}) \ {of}
    BY <1>4, <2>1, <2>2 DEF b
  <2>8. \A g \in DOMAIN j : j[g] = IF g \in DOMAIN instances THEN instances[g] ELSE new
    BY <1>4, <2>4, <2>7 DEF new
  <2>9. m.nextGen \in 1 .. (s.m.nextGen - 1)
    BY <1>1, <2>1
  <2>10. DOMAIN j \subseteq 1 .. (s.m.nextGen - 1)
    BY <1>6, <2>7, <2>9
  <2>11. new.replica < s.m.nextGen /\ new.replica \notin dead
    BY <1>1, <1>3, <1>5, <1>6, <2>1, <2>3, <2>6
  <2>12. ASSUME NEW g \in DOMAIN j, g \in DOMAIN instances PROVE instances[g].replica # new.replica
    <3>1. g # of
      BY <2>7
    <3>2. CASE of # 0
      BY <3>1, <3>2, <2>3, <2>6, <2>12, <1>3
    <3>3. CASE of = 0
      <4>1. instances[g].replica < m.nextGen /\ instances[g].replica \in Nat
        BY <2>12, <1>3 DEF Instance
      <4> QED BY <4>1, <3>3, <2>6, <1>1
    <3> QED BY <3>2, <3>3
  <2>13. \A g, h \in DOMAIN j : j[g].replica = j[h].replica => g = h
    <3>1. ASSUME NEW g \in DOMAIN j, NEW h \in DOMAIN j, j[g].replica = j[h].replica PROVE g = h
      <4>1. CASE g \in DOMAIN instances /\ h \in DOMAIN instances
        BY <4>1, <3>1, <2>8, <1>3
      <4>2. CASE g \in DOMAIN instances /\ h \notin DOMAIN instances
        BY <4>2, <3>1, <2>8, <2>12
      <4>3. CASE g \notin DOMAIN instances /\ h \in DOMAIN instances
        BY <4>3, <3>1, <2>8, <2>12
      <4>4. CASE g \notin DOMAIN instances /\ h \notin DOMAIN instances
        BY <4>4, <2>7
      <4> QED BY <4>1, <4>2, <4>3, <4>4
    <3> QED BY <3>1
  <2>14. Live(s.m) \subseteq DOMAIN j
    <3>1. of \notin Live(s.m)
      BY <2>1, <1>1, ModelFacts
    <3> QED BY <3>1, <2>7, <1>1, <1>3 DEF Later
  <2>15. \A g \in DOMAIN j : j[g].closed => g \notin Steady(s.m) /\ ~j[g].wired
    BY <2>8, <2>6, <1>7
  <2>16. \A g \in DOMAIN j : j[g] \in Instance /\ j[g].replica < s.m.nextGen /\ j[g].replica \notin dead
    BY <2>8, <2>6, <2>11, <1>3, <1>6
  <2>17. Objects(j, s.m, dead)
    BY <1>6, <2>10, <2>13, <2>14, <2>15, <2>16 DEF Objects
  <2> QED BY <1>4, <2>17 DEF j
<1> QED BY <1>8, <1>9

-----------------------------------------------------------------------------
(* Steps committed, from whatever stack waits for nothing but the          *)
(* Synchronizer.                                                           *)

LEMMA Commits ==
  ASSUME m \in Models, ObjectsSound, NEW s, StepOf(m, s), NEW base, Commit(s, base), dead' = dead,
         NEW left, NEW q, NEW d, NEW sq, Stacked(base, DOMAIN instances, m, left, q, d, sq), Strict(base), ~Open(base),
         NEW left2, \A g \in left \cap LeavingOf(m) : g \in left2 \cup Disposed(s), s.refused => left \subseteq left2
  PROVE  /\ m' \in Models /\ m.nextGen <= m'.nextGen /\ ObjectsSound'
         /\ Stacked(stack', DOMAIN instances', m', left2, q, d, sq)
<1>1. m' = s.m /\ instances' = Joined(s) /\ stack' = IF s.refused THEN base ELSE <<Frame("step", s.effects, m.entry)>> \o base
  BY DEF Commit
<1>2. s.m \in Models /\ Later(m, s.m) /\ (s.refused => s.m = m /\ s.builds = {})
  BY DEF StepOf
<1>3. /\ Objects(Joined(s), s.m, dead)
      /\ DOMAIN Joined(s) = (DOMAIN instances \cup {b.gen : b \in s.builds}) \ {b.of : b \in s.builds}
  BY ObjectsJoin
<1> DEFINE t == <<Frame("step", s.effects, m.entry)>> \o base
           live2 == DOMAIN Joined(s)
<1>4. ASSUME s.refused PROVE Stacked(base, live2, s.m, left2, q, d, sq)
  <2>1. live2 = DOMAIN instances /\ s.m = m
    BY <1>2, <1>3, <1>4
  <2>2. InTime(base, DOMAIN instances, m, left2)
    <3>1. left \subseteq left2
      BY <1>4
    <3> QED BY <3>1 DEF Stacked, InTime
  <2> QED BY <2>1, <2>2 DEF Stacked
<1>5. Stacked(t, live2, s.m, left2, q, d, sq)
  <2>1. m.entry \in EntryType
    BY ModelFacts
  <2> HIDE DEF live2
  <2>2. live2 = (DOMAIN instances \cup {b.gen : b \in s.builds}) \ {b.of : b \in s.builds}
    BY <1>3 DEF live2
  <2> QED BY <2>1, <2>2, CommitOn
<1> HIDE DEF t
<1>6. Stacked(stack', live2, s.m, left2, q, d, sq)
  BY <1>1, <1>4, <1>5 DEF t
<1>7. ObjectsSound'
  BY <1>1, <1>3 DEF ObjectsSound
<1> QED BY <1>1, <1>2, <1>6, <1>7 DEF Later

\* Nothing of the Runtime on the stack, or application code on top.
LEMMA Clear ==
  ASSUME m \in Models, StackSound, stack = <<>> \/ OnTop("app") PROVE Strict(stack) /\ ~Open(stack)
<1>1. CASE stack = <<>>
  <2>1. DOMAIN stack = {}
    BY <1>1
  <2> QED BY <2>1 DEF Strict, Open
<1>2. CASE stack # <<>> /\ OnTop("app")
  <2>1. IsOn(stack, Top, Tail(stack)) /\ Top.kind = "app"
    BY <1>2, PopOn DEF StackSound, Stacked, OnTop, Top
  <2>2. Wires(Top) = {} /\ ~PlainStore(Top, storeQ) /\ Top.kind # "sync"
    BY <2>1 DEF Wires, Left2Do, PlainStore
  <2>3. UnderSync(stack, storeQ)
    BY DEF StackSound, Stacked
  <2> QED BY <2>1, <2>2, <2>3, UnderOn
<1> QED BY <1>1, <1>2 DEF OnTop

LEMMA EmptyStack ==
  ASSUME StackSound, SyncTyped, stack = <<>> PROVE syncQ = <<>> /\ storeQ = <<>> /\ departures = <<>>
<1>1. \A kind : ~Busy(kind, stack)
  BY DEF Busy
<1>2. syncQ = <<>> /\ storeQ = <<>>
  BY <1>1 DEF StackSound, Stacked, Syncing, OneSync, Storing
<1>3. ~\E i \in DOMAIN stack : Lets(stack[i])
  OBVIOUS
<1>4. Len(departures) = 0 + 0
  BY <1>2, <1>3, LeavesNone DEF StackSound, Stacked, Syncing, Counted
<1> QED BY <1>2, <1>4, EmptySeq DEF SyncTyped, SyncState

\* A door, or a completion, taken where nothing waits on top.
LEMMA Steps ==
  ASSUME LifecycleInv, stack = <<>> \/ OnTop("app"), NEW s, StepOf(m, s), Commit(s, stack), dead' = dead,
         UNCHANGED <<graph, record, recordMode, departures, syncQ, store, releasing, storeQ>>
  PROVE  LifecycleInv'
<1>1. Strict(stack) /\ ~Open(stack)
  BY Clear DEF LifecycleInv
<1>2. /\ m' \in Models /\ m.nextGen <= m'.nextGen /\ ObjectsSound'
      /\ Stacked(stack', DOMAIN instances', m', LeftWith(departures), syncQ, departures, storeQ)
  BY <1>1, Commits DEF LifecycleInv, StackSound
<1>3. SyncTyped' /\ StoreTyped'
  BY <1>2, StatesLater DEF LifecycleInv, SyncTyped, StoreTyped
<1>4. StackSound'
  BY <1>2 DEF StackSound
<1> QED BY <1>2, <1>3, <1>4 DEF LifecycleInv

LEMMA DoorsKeep ==
  ASSUME LifecycleInv,
         DoGet \/ DoReplicate \/ DoDestroy \/ DoSuspend \/ DoResume \/ DoUnload \/ SetHooks
  PROVE  LifecycleInv'
<1>1. m \in Models
  BY DEF LifecycleInv
<1>2. ASSUME NEW s, StepOf(m, s), Ask(s) PROVE LifecycleInv'
  <2>1. /\ stack = <<>> \/ OnTop("app")
        /\ Commit(s, stack) /\ dead' = dead
        /\ UNCHANGED <<graph, record, recordMode, departures, syncQ, store, releasing, storeQ>>
    BY <1>2 DEF Ask, sync, storage, queues
  <2> QED BY <1>2, <2>1, Steps
<1>3. CASE DoGet
  <2>1. PICK kind \in {"create", "open"}, fits \in BOOLEAN : Ask(Get(m, kind, fits))
    BY <1>3 DEF DoGet
  <2> QED BY <1>1, <1>2, <2>1, GetStep
<1>4. CASE DoReplicate
  BY <1>1, <1>2, <1>4, ReplicateStep DEF DoReplicate
<1>5. CASE DoDestroy
  BY <1>1, <1>2, <1>5, DestroyStep DEF DoDestroy
<1>6. CASE DoSuspend
  BY <1>1, <1>2, <1>6, SuspendStep DEF DoSuspend
<1>7. CASE DoResume
  BY <1>1, <1>2, <1>7, SuspendStep DEF DoResume
<1>8. CASE DoUnload
  BY <1>1, <1>2, <1>8, UnloadStep DEF DoUnload
<1>9. CASE SetHooks
  <2>1. /\ stack = <<>> /\ Commit(Hooked(m), stack) /\ dead' = dead
        /\ UNCHANGED <<graph, record, recordMode, departures, syncQ, store, releasing, storeQ>>
    BY <1>9 DEF SetHooks, sync, storage, queues
  <2> QED BY <1>1, <2>1, HookedStep, Steps
<1> QED BY <1>3, <1>4, <1>5, <1>6, <1>7, <1>8, <1>9

LEMMA ResetKeeps == ASSUME LifecycleInv, Reset PROVE LifecycleInv'
<1>1. /\ stack = <<>> /\ Commit(CloseAll(m), stack) /\ dead' = dead
      /\ graph' = NoEntry /\ record' = 0 /\ recordMode' = "none" /\ departures' = <<>>
      /\ UNCHANGED <<syncQ, store, releasing, storeQ>>
  BY DEF Reset, queues
<1>2. m \in Models /\ SyncTyped /\ StoreTyped /\ ObjectsSound /\ StackSound
  BY DEF LifecycleInv
<1>3. departures = <<>> /\ Strict(stack) /\ ~Open(stack)
  BY <1>1, <1>2, EmptyStack, Clear
<1>4. StepOf(m, CloseAll(m))
  BY <1>2, CloseAllStep
<1>5. /\ m' \in Models /\ m.nextGen <= m'.nextGen /\ ObjectsSound'
      /\ Stacked(stack', DOMAIN instances', m', LeftWith(departures), syncQ, departures, storeQ)
  BY <1>1, <1>2, <1>3, <1>4, Commits DEF StackSound
<1>6. StackSound'
  BY <1>1, <1>3, <1>5 DEF StackSound
<1>7. StoreTyped'
  BY <1>1, <1>2, <1>5, StatesLater DEF StoreTyped
<1>8. SyncTyped'
  <2>1. departures' \in Seq(Departure(m'))
    BY <1>1, EmptySeq
  <2>2. graph' \in [mode : Tier \cup {"absent", "deferred", "unloaded"}, leaving : BOOLEAN, suspended : BOOLEAN, reloading : BOOLEAN]
    BY <1>1 DEF NoEntry, InGraph
  <2>3. record' \in 0 .. (m'.nextGen - 1) /\ record' = 0
    BY <1>1, <1>5, ModelFacts
  <2>4. syncQ' \in Seq(SyncMessage)
    BY <1>1, <1>2 DEF SyncTyped, SyncState
  <2> QED BY <2>1, <2>2, <2>3, <2>4 DEF SyncTyped, SyncState
<1> QED BY <1>5, <1>6, <1>7, <1>8 DEF LifecycleInv

-----------------------------------------------------------------------------
(* The effects of a step.                                                  *)

\* An action that changes no more of the objects than the instance g.
LEMMA Kept ==
  ASSUME LifecycleInv
  PROVE  /\ UNCHANGED <<m, instances, dead>> => m' \in Models /\ ObjectsSound'
         /\ UNCHANGED <<m, graph, record, recordMode, syncQ, departures>> => SyncTyped'
         /\ UNCHANGED <<m, store, releasing, storeQ>> => StoreTyped'
BY DEF LifecycleInv, ObjectsSound, SyncTyped, StoreTyped

\* The stack when the next effect of the step on top is taken.
LEMMA TakesEffect ==
  ASSUME LifecycleInv, OnTop("step"), Top.todo # <<>>, NEW live, live \subseteq DOMAIN instances,
         NEW left, LeftWith(departures) \subseteq left,
         E.do = "dispose" => E.gen \notin live, E.do = "leave" => E.gen \in left \/ E.gen \notin live
  PROVE  /\ Stacked(Rest, live, m, left, syncQ, departures, storeQ) /\ Strict(Rest)
         /\ Open(Rest) => E \in Wiring(m)
         /\ E \in Effects(m) /\ m \in Models
         /\ E.do = "wire" => (E.gen \in DOMAIN instances => E.gen \in Steady(m))
<1>1. m \in Models /\ Stacked(stack, DOMAIN instances, m, LeftWith(departures), syncQ, departures, storeQ)
  BY DEF LifecycleInv, StackSound
<1>2. stack # <<>> /\ Head(stack).kind = "step" /\ Head(stack).todo # <<>> /\ E = Head(Head(stack).todo)
  BY DEF OnTop, Top, E
<1>3. Rest = Taken(stack)
  BY DEF Rest, Taken, Top
<1> DEFINE x == E
           r == Rest
<1>4. Takes(stack, x, r, DOMAIN instances, LeftWith(departures), live, left)
  BY <1>2, <1>3 DEF Takes, MayTake
<1> HIDE DEF x, r
<1>5. /\ Stacked(r, live, m, left, syncQ, departures, storeQ) /\ Strict(r) /\ (Open(r) => x \in Wiring(m)) /\ x \in Effects(m)
      /\ x.do = "wire" => (x.gen \in DOMAIN instances => x.gen \in Steady(m)) /\ x \in Wiring(m)
  BY <1>1, <1>4, TakeStep
<1> QED BY <1>1, <1>5 DEF x, r

LEMMA EffectTyped ==
  ASSUME NEW n \in Models, NEW x \in Effects(n)
  PROVE  /\ x.gen \in 0 .. (n.nextGen - 1) /\ x.of \in 0 .. (n.nextGen - 1) /\ x.on \in BOOLEAN /\ x.do \in Dos
         /\ x.do \in {"dispose", "close", "wire", "leave"} => x.gen # 0
         /\ x.do = "dispose" => x.gen \notin Live(n)
         /\ x.do = "close" => x.gen \notin Steady(n) /\ x.arg \in {"pending", "loaded", "failed"}
         /\ x.do = "store" => x.arg \in {"hydrated", "register", "destroy", "keep", "state-advanced", "release"}
         /\ x \in Wiring(n) => x.do \in {"interpreted", "adopt", "register", "leaving", "wire", "store"}
                               /\ (x.do = "store" => x.arg \in {"hydrated", "register", "keep"})
<1>1. x \in [do : Dos, gen : 0 .. (n.nextGen - 1), arg : Args, on : BOOLEAN, of : 0 .. (n.nextGen - 1)]
  BY DEF Effects
<1> QED BY <1>1 DEF Effects, Wiring

\* The effects that do no more to the stack than to be taken.
LEMMA QuietEffects ==
  ASSUME LifecycleInv, SkipStale \/ ExecLocal \/ ExecLoad PROVE LifecycleInv'
<1>1. /\ OnTop("step") /\ Top.todo # <<>> /\ stack' = Rest
      /\ E.do = "dispose" => E.gen \notin DOMAIN instances
      /\ E.do = "leave" => E.gen \notin DOMAIN instances
      /\ UNCHANGED <<m, instances, dead, graph, record, recordMode, departures, syncQ, store, releasing, storeQ>>
  BY DEF SkipStale, ExecLocal, ExecLoad, Doing, E, Present, runtime, sync, storage, queues
<1>2. Stacked(Rest, DOMAIN instances, m, LeftWith(departures), syncQ, departures, storeQ)
  BY <1>1, TakesEffect
<1>3. StackSound'
  BY <1>1, <1>2 DEF StackSound
<1> QED BY <1>1, <1>3, Kept DEF LifecycleInv

LEMMA WireKeeps ==
  ASSUME LifecycleInv, ExecWire PROVE LifecycleInv'
<1>1. /\ OnTop("step") /\ Top.todo # <<>> /\ E.do = "wire" /\ stack' = Rest /\ E.gen \in DOMAIN instances
      /\ instances' = [instances EXCEPT ![E.gen].wired = TRUE]
      /\ UNCHANGED <<m, dead, graph, record, recordMode, departures, syncQ, store, releasing, storeQ>>
  BY DEF ExecWire, Doing, E, Present, sync, storage, queues
<1>2. Stacked(Rest, DOMAIN instances, m, LeftWith(departures), syncQ, departures, storeQ) /\ E.gen \in Steady(m)
  BY <1>1, TakesEffect
<1> DEFINE g == E.gen
           v == [instances[g] EXCEPT !.wired = TRUE]
<1>3. Objects(instances, m, dead) /\ g \in DOMAIN instances /\ g \in Steady(m)
  BY <1>1, <1>2 DEF LifecycleInv, ObjectsSound
<1> HIDE DEF g
<1>4. instances[g] \in Instance /\ ~instances[g].closed
  BY <1>3 DEF Objects
<1>5. v \in Instance /\ v.replica = instances[g].replica /\ v.closed = instances[g].closed
  BY <1>4 DEF Instance
<1>6. instances' = [instances EXCEPT ![g] = v]
  BY <1>1 DEF g
<1> HIDE DEF v
<1>7. Objects(instances', m, dead) /\ DOMAIN instances' = DOMAIN instances
  BY <1>3, <1>4, <1>5, <1>6, ObjectChanged
<1>8. ObjectsSound' /\ m' \in Models
  BY <1>1, <1>7 DEF ObjectsSound, LifecycleInv
<1>9. StackSound'
  BY <1>1, <1>2, <1>7 DEF StackSound
<1> QED BY <1>1, <1>8, <1>9, Kept DEF LifecycleInv

LEMMA DisposeKeeps ==
  ASSUME LifecycleInv, ExecDispose PROVE LifecycleInv'
<1> DEFINE g == E.gen
           i == [h \in DOMAIN instances \ {g} |-> instances[h]]
<1>1. /\ OnTop("step") /\ Top.todo # <<>> /\ E.do = "dispose" /\ stack' = Rest /\ g \in DOMAIN instances
      /\ dead' = dead \cup {instances[g].replica} /\ instances' = i
      /\ UNCHANGED <<m, graph, record, recordMode, departures, syncQ, store, releasing, storeQ>>
  BY DEF ExecDispose, Doing, E, Present, sync, storage, queues
<1> DEFINE live == DOMAIN instances \ {g}
<1>2. Stacked(Rest, live, m, LeftWith(departures), syncQ, departures, storeQ) /\ E \in Effects(m) /\ m \in Models
  <2>1. live \subseteq DOMAIN instances /\ E.gen \notin live
    OBVIOUS
  <2> HIDE DEF live
  <2> QED BY <1>1, <2>1, TakesEffect
<1>3. g \notin Live(m)
  BY <1>1, <1>2, EffectTyped
<1> HIDE DEF g
<1>4. DOMAIN i = live /\ \A h \in live : i[h] = instances[h]
  OBVIOUS
<1> HIDE DEF i
<1>5. Objects(instances, m, dead)
  BY DEF LifecycleInv, ObjectsSound
<1>6. Objects(i, m, dead')
  <2>1. instances[g] \in Instance /\ instances[g].replica < m.nextGen /\ m.nextGen \in Nat
    BY <1>1, <1>2, <1>5, ModelFacts DEF Objects
  <2>2. instances[g].replica \in 1 .. (m.nextGen - 1)
    BY <2>1 DEF Instance
  <2>3. \A h \in live : instances[h].replica # instances[g].replica
    BY <1>1, <1>5 DEF Objects
  <2>4. dead' \subseteq 1 .. (m.nextGen - 1) /\ \A h \in live : i[h].replica \notin dead'
    BY <1>1, <1>4, <1>5, <2>2, <2>3 DEF Objects
  <2>5. Live(m) \subseteq live
    BY <1>3, <1>5 DEF Objects
  <2> QED BY <1>4, <1>5, <2>4, <2>5 DEF Objects
<1>7. ObjectsSound' /\ m' \in Models
  BY <1>1, <1>2, <1>6 DEF ObjectsSound
<1>8. StackSound'
  BY <1>1, <1>2, <1>4 DEF StackSound
<1> QED BY <1>1, <1>7, <1>8, Kept DEF LifecycleInv

LEMMA CloseKeeps ==
  ASSUME LifecycleInv, ExecClose PROVE LifecycleInv'
<1> DEFINE g == E.gen
           v == Closed(instances[g], E.arg)
           place == IF m.entry.phase = "leaving" THEN "leaving" ELSE "close"
<1>1. /\ OnTop("step") /\ Top.todo # <<>> /\ E.do = "close" /\ g \in DOMAIN instances
      /\ instances' = [instances EXCEPT ![g] = v]
      /\ stack' = CallBack(place, instances[g].tier, Rest)
      /\ UNCHANGED <<m, dead, graph, record, recordMode, departures, syncQ, store, releasing, storeQ>>
  BY DEF ExecClose, Doing, E, Present, sync, storage, queues
<1>2. /\ Stacked(Rest, DOMAIN instances, m, LeftWith(departures), syncQ, departures, storeQ) /\ Strict(Rest)
      /\ Open(Rest) => E \in Wiring(m)
      /\ E \in Effects(m) /\ m \in Models
  BY <1>1, TakesEffect
<1>3. g \notin Steady(m) /\ E \notin Wiring(m) /\ E.arg \in {"pending", "loaded", "failed"}
  BY <1>1, <1>2, EffectTyped
<1>4. Objects(instances, m, dead)
  BY DEF LifecycleInv, ObjectsSound
<1>5. v \in Instance /\ v.replica = instances[g].replica /\ ~v.wired
  <2>1. instances[g] \in Instance
    BY <1>1, <1>4 DEF Objects
  <2>2. ClosedAnswer(E.arg) \in {"pending", "loaded", "failed", "closed"}
    BY <1>3 DEF ClosedAnswer
  <2> HIDE DEF g
  <2> QED BY <2>1, <2>2 DEF Closed, Instance
<1> HIDE DEF g, v
<1>6. Objects(instances', m, dead) /\ DOMAIN instances' = DOMAIN instances
  BY <1>1, <1>3, <1>4, <1>5, ObjectChanged
<1>7. Stacked(stack', DOMAIN instances, m, LeftWith(departures), syncQ, departures, storeQ)
  BY <1>1, <1>2, <1>3, CallApp DEF CallBack
<1>8. ObjectsSound' /\ m' \in Models
  BY <1>1, <1>2, <1>6 DEF ObjectsSound
<1>9. StackSound'
  BY <1>1, <1>6, <1>7 DEF StackSound
<1> QED BY <1>1, <1>8, <1>9, Kept DEF LifecycleInv

-----------------------------------------------------------------------------
(* Inputs of the store program, and messages of the Synchronizer.          *)

LEMMA ToStoreOn ==
  ASSUME m \in Models, StoreTyped, NEW base, NEW live, NEW left, NEW q, NEW d, Stacked(base, live, m, left, q, d, storeQ), Strict(base),
         NEW input \in StoreInputs(m), Open(base) => input.type \in Plain, ToStoreProgram(input, base)
  PROVE  Stacked(stack', live, m, left, q, d, storeQ') /\ storeQ' \in Seq(StoreInputs(m))
<1>1. storeQ \in Seq(StoreInputs(m))
  BY DEF StoreTyped, StoreState
<1>2. CASE over \/ ~m.hasStore
  BY <1>1, <1>2 DEF ToStoreProgram
<1>3. CASE ~(over \/ ~m.hasStore)
  <2> DEFINE t == IF Busy("store", base) THEN base ELSE <<Frame("store", <<>>, Absent)>> \o base
             sq == Append(storeQ, input)
  <2>1. Stacked(t, live, m, left, q, d, sq)
    BY <1>1, SendStore
  <2>2. sq \in Seq(StoreInputs(m))
    BY <1>1, Appending
  <2>3. stack' = t /\ storeQ' = sq
    BY <1>3 DEF ToStoreProgram
  <2> HIDE DEF t, sq
  <2> QED BY <2>1, <2>2, <2>3
<1> QED BY <1>2, <1>3

LEMMA ToSyncOn ==
  ASSUME m \in Models, SyncTyped, NEW base, NEW live, NEW left, NEW sq, Stacked(base, live, m, left, syncQ, departures, sq), Strict(base),
         NEW msg \in SyncMessage, ToSync(msg, base),
         NEW d2, Len(d2) = Len(departures) + (IF msg.type = "leave" THEN 1 ELSE 0)
  PROVE  Stacked(stack', live, m, left, syncQ', d2, sq) /\ syncQ' \in Seq(SyncMessage)
<1>1. syncQ \in Seq(SyncMessage) /\ Len(departures) \in Nat
  BY LenProperties DEF SyncTyped, SyncState
<1> DEFINE t == IF Busy("sync", base) THEN base ELSE <<Frame("sync", <<>>, Absent)>> \o base
           q == Append(syncQ, msg)
<1>2. Stacked(t, live, m, left, q, d2, sq)
  BY <1>1, SendSync
<1>3. q \in Seq(SyncMessage)
  BY <1>1, Appending
<1>4. stack' = t /\ syncQ' = q
  BY DEF ToSync
<1> HIDE DEF t, q
<1> QED BY <1>2, <1>3, <1>4

LEMMA InputTyped ==
  ASSUME m \in Models
  PROVE  \A type \in {"hydrated", "register", "destroy", "keep", "state-advanced", "release", "write-succeeded", "write-failed"} :
           \A gen \in 0 .. (m.nextGen - 1) :
             StoreInput(type, gen) \in StoreInputs(m) /\ StoreInput(type, gen).type = type /\ 0 \in 0 .. (m.nextGen - 1)
<1>1. 0 \in 0 .. (m.nextGen - 1)
  BY ModelFacts
<1> QED BY <1>1 DEF StoreInput, StoreInputs

LEMMA ExecStoreKeeps ==
  ASSUME LifecycleInv, ExecStore PROVE LifecycleInv'
<1>1. /\ OnTop("step") /\ Top.todo # <<>> /\ E.do = "store" /\ ToStoreProgram(StoreInput(E.arg, E.of), Rest)
      /\ UNCHANGED <<m, instances, dead, graph, record, recordMode, departures, syncQ, store, releasing>>
  BY DEF ExecStore, Doing, E, runtime, sync, storage
<1>2. /\ Stacked(Rest, DOMAIN instances, m, LeftWith(departures), syncQ, departures, storeQ) /\ Strict(Rest)
      /\ Open(Rest) => E \in Wiring(m)
      /\ E \in Effects(m) /\ m \in Models
  BY <1>1, TakesEffect
<1>3. /\ E.of \in 0 .. (m.nextGen - 1)
      /\ E.arg \in {"hydrated", "register", "destroy", "keep", "state-advanced", "release"}
      /\ E \in Wiring(m) => E.arg \in {"hydrated", "register", "keep"}
  BY <1>1, <1>2, EffectTyped
<1> DEFINE input == StoreInput(E.arg, E.of)
<1>4. input \in StoreInputs(m) /\ (Open(Rest) => input.type \in Plain)
  <2>1. input \in StoreInputs(m) /\ input.type = E.arg
    BY <1>2, <1>3, InputTyped
  <2> QED BY <1>2, <1>3, <2>1 DEF Plain
<1> HIDE DEF input
<1>5. StoreTyped /\ ToStoreProgram(input, Rest)
  BY <1>1 DEF LifecycleInv, input
<1>6. Stacked(stack', DOMAIN instances, m, LeftWith(departures), syncQ, departures, storeQ') /\ storeQ' \in Seq(StoreInputs(m))
  BY <1>2, <1>4, <1>5, ToStoreOn
<1>7. StackSound' /\ StoreTyped'
  BY <1>1, <1>5, <1>6 DEF StackSound, StoreTyped, StoreState
<1> QED BY <1>1, <1>7, Kept DEF LifecycleInv

\* The drain of own writes asks for a write, over a stack that waits for nothing.
LEMMA DrainedOn ==
  ASSUME LifecycleInv, NEW base, Drained(base), Strict(base), ~Open(base),
         Stacked(base, DOMAIN instances, m, LeftWith(departures), syncQ, departures, storeQ),
         UNCHANGED <<m, instances, dead, graph, record, recordMode, departures, syncQ, store, releasing>>
  PROVE  LifecycleInv'
<1> DEFINE input == StoreInput("state-advanced", 0)
<1>1. m \in Models /\ StoreTyped
  BY DEF LifecycleInv
<1>2. input \in StoreInputs(m)
  <2>1. 0 \in 0 .. (m.nextGen - 1)
    BY <1>1, ModelFacts
  <2> QED BY <1>1, <2>1, InputTyped
<1>3. ToStoreProgram(input, base) \/ (stack' = base /\ storeQ' = storeQ)
  BY DEF Drained
<1> HIDE DEF input
<1>4. Stacked(stack', DOMAIN instances, m, LeftWith(departures), syncQ, departures, storeQ') /\ storeQ' \in Seq(StoreInputs(m))
  <2>1. CASE ToStoreProgram(input, base)
    BY <1>1, <1>2, <2>1, ToStoreOn
  <2>2. CASE stack' = base /\ storeQ' = storeQ
    BY <1>1, <2>2 DEF StoreTyped, StoreState
  <2> QED BY <1>3, <2>1, <2>2
<1>5. StackSound' /\ StoreTyped'
  BY <1>1, <1>4 DEF StackSound, StoreTyped, StoreState
<1> QED BY <1>5, Kept DEF LifecycleInv

LEMMA DrainsKeep ==
  ASSUME LifecycleInv, ExecDrain \/ DrainLocalChanges PROVE LifecycleInv'
<1>1. UNCHANGED <<m, instances, dead, graph, record, recordMode, departures, syncQ, store, releasing>>
  BY DEF ExecDrain, DrainLocalChanges, sync, storage
<1>2. CASE ExecDrain
  <2>1. OnTop("step") /\ Top.todo # <<>> /\ E.do = "drain" /\ Drained(Rest)
    BY <1>2 DEF ExecDrain, Doing, E
  <2>2. /\ Stacked(Rest, DOMAIN instances, m, LeftWith(departures), syncQ, departures, storeQ) /\ Strict(Rest)
        /\ Open(Rest) => E \in Wiring(m)
        /\ E \in Effects(m) /\ m \in Models
    BY <2>1, TakesEffect
  <2>3. ~Open(Rest)
    BY <2>1, <2>2, EffectTyped
  <2> QED BY <1>1, <2>1, <2>2, <2>3, DrainedOn
<1>3. CASE DrainLocalChanges
  <2>1. stack = <<>> /\ Drained(stack)
    BY <1>3 DEF DrainLocalChanges
  <2>2. Strict(stack) /\ ~Open(stack) /\ StackSound
    BY <2>1, Clear DEF LifecycleInv
  <2> QED BY <1>1, <2>1, <2>2, DrainedOn DEF StackSound
<1> QED BY <1>2, <1>3

LEMMA AppKeeps ==
  ASSUME LifecycleInv, AppReturns PROVE LifecycleInv'
<1>1. /\ OnTop("app") /\ stack' = Tail(stack)
      /\ UNCHANGED <<m, instances, dead, graph, record, recordMode, departures, syncQ, store, releasing, storeQ>>
  BY DEF AppReturns, runtime, sync, storage, queues
<1>2. stack # <<>> /\ Head(stack).kind = "app"
  BY <1>1 DEF OnTop, Top
<1>3. Stacked(stack, DOMAIN instances, m, LeftWith(departures), syncQ, departures, storeQ) /\ m \in Models
  BY DEF LifecycleInv, StackSound
<1>4. Stacked(Tail(stack), DOMAIN instances, m, LeftWith(departures), syncQ, departures, storeQ)
  BY <1>2, <1>3, PopTop
<1>5. StackSound'
  BY <1>1, <1>4 DEF StackSound
<1> QED BY <1>1, <1>5, Kept DEF LifecycleInv

LEMMA WriteKeeps ==
  ASSUME LifecycleInv, DoWrite PROVE LifecycleInv'
<1> DEFINE g == m.entry.gen
           v == [instances[g] EXCEPT !.fresh = TRUE]
<1>1. /\ m.entry.phase \in {"loading", "ready"}
      /\ instances' = [instances EXCEPT ![g] = v]
      /\ UNCHANGED <<m, dead, stack, graph, record, recordMode, departures, syncQ, store, releasing, storeQ>>
  BY DEF DoWrite, sync, storage, queues
<1>2. m \in Models /\ Objects(instances, m, dead)
  BY DEF LifecycleInv, ObjectsSound
<1>3. g \in DOMAIN instances
  BY <1>1, <1>2, ModelFacts DEF Objects, IsHeld, HeldPhases
<1> HIDE DEF g
<1>4. instances[g] \in Instance /\ (instances[g].closed => g \notin Steady(m) /\ ~instances[g].wired)
  BY <1>2, <1>3 DEF Objects
<1>5. v \in Instance /\ v.replica = instances[g].replica /\ v.closed = instances[g].closed /\ v.wired = instances[g].wired
  BY <1>4 DEF Instance
<1> HIDE DEF v
<1>6. Objects(instances', m, dead) /\ DOMAIN instances' = DOMAIN instances
  BY <1>1, <1>2, <1>3, <1>4, <1>5, ObjectChanged
<1>7. ObjectsSound' /\ StackSound' /\ m' \in Models
  BY <1>1, <1>2, <1>6 DEF LifecycleInv, ObjectsSound, StackSound
<1> QED BY <1>1, <1>7, Kept DEF LifecycleInv

-----------------------------------------------------------------------------
(* Messages of the Synchronizer.                                           *)

LEMMA MessageTyped ==
  /\ \A mode \in Tier, suspended, event \in BOOLEAN :
       LET msg == [type |-> "ensure", mode |-> mode, suspended |-> suspended, event |-> event]
       IN msg \in SyncMessage /\ msg.type = "ensure"
  /\ \A as \in {"unload", "destroy", "suspend"}, known \in BOOLEAN :
       LET msg == [type |-> "leave", as |-> as, known |-> known] IN msg \in SyncMessage /\ msg.type = "leave"
  /\ \A on \in BOOLEAN : LET msg == [type |-> "leaving", on |-> on] IN msg \in SyncMessage /\ msg.type = "leaving"
  /\ \A type \in {"defer", "tick", "present", "interest"} : LET msg == [type |-> type] IN msg \in SyncMessage /\ msg.type = type
BY DEF SyncMessage

\* A message other than a leave, with the record of now or another.
LEMMA SendKeeps ==
  ASSUME LifecycleInv, NEW base, Stacked(base, DOMAIN instances, m, LeftWith(departures), syncQ, departures, storeQ), Strict(base),
         NEW msg \in SyncMessage, msg.type # "leave", ToSync(msg, base),
         record' \in 0 .. (m.nextGen - 1), record' # 0 => recordMode' \in Tier,
         UNCHANGED <<m, instances, dead, graph, departures, store, releasing, storeQ>>
  PROVE  LifecycleInv'
<1>1. m \in Models /\ SyncTyped /\ Len(departures) \in Nat
  BY LenProperties DEF LifecycleInv, SyncTyped, SyncState
<1>2. Len(departures) = Len(departures) + (IF msg.type = "leave" THEN 1 ELSE 0)
  BY <1>1
<1>3. Stacked(stack', DOMAIN instances, m, LeftWith(departures), syncQ', departures, storeQ) /\ syncQ' \in Seq(SyncMessage)
  BY <1>1, <1>2, ToSyncOn
<1>4. StackSound' /\ SyncTyped'
  BY <1>1, <1>3 DEF StackSound, SyncTyped, SyncState
<1> QED BY <1>4, Kept DEF LifecycleInv

LEMMA RegisterKeeps ==
  ASSUME LifecycleInv, ExecRegister PROVE LifecycleInv'
<1> DEFINE mode == instances[E.gen].tier
           before == IF record # 0 THEN recordMode ELSE graph.mode
           msg == [type |-> "ensure", mode |-> mode, suspended |-> E.on, event |-> before # mode]
<1>1. /\ OnTop("step") /\ Top.todo # <<>> /\ E.do = "register" /\ E.gen \in DOMAIN instances
      /\ record' = E.gen /\ recordMode' = mode /\ ToSync(msg, Rest)
      /\ UNCHANGED <<m, instances, dead, graph, departures, store, releasing, storeQ>>
  BY DEF ExecRegister, Doing, E, Present, runtime, storage
<1>2. /\ Stacked(Rest, DOMAIN instances, m, LeftWith(departures), syncQ, departures, storeQ) /\ Strict(Rest)
      /\ E \in Effects(m) /\ m \in Models
  BY <1>1, TakesEffect
<1>3. E.on \in BOOLEAN /\ E.gen \in 0 .. (m.nextGen - 1)
  BY <1>2, EffectTyped
<1>4. mode \in Tier
  BY <1>1 DEF LifecycleInv, ObjectsSound, Objects, Instance
<1>5. msg \in SyncMessage /\ msg.type = "ensure"
  <2> DEFINE event == before # mode
  <2>1. event \in BOOLEAN
    OBVIOUS
  <2> HIDE DEF event, mode
  <2> QED BY <1>3, <1>4, <2>1, MessageTyped
<1> HIDE DEF msg, mode
<1> QED BY <1>1, <1>2, <1>3, <1>4, <1>5, SendKeeps

LEMMA LeavingKeeps ==
  ASSUME LifecycleInv, ExecLeaving PROVE LifecycleInv'
<1> DEFINE msg == [type |-> "leaving", on |-> E.on]
<1>1. /\ OnTop("step") /\ Top.todo # <<>> /\ E.do = "leaving" /\ ToSync(msg, Rest)
      /\ UNCHANGED <<m, instances, dead, graph, departures, record, recordMode, store, releasing, storeQ>>
  BY DEF ExecLeaving, Doing, E, runtime, storage, sync
<1>2. /\ Stacked(Rest, DOMAIN instances, m, LeftWith(departures), syncQ, departures, storeQ) /\ Strict(Rest)
      /\ E \in Effects(m) /\ m \in Models
  BY <1>1, TakesEffect
<1>3. E.on \in BOOLEAN
  BY <1>2, EffectTyped
<1>4. msg \in SyncMessage /\ msg.type = "leaving"
  BY <1>3, MessageTyped
<1>5. record \in 0 .. (m.nextGen - 1) /\ (record # 0 => recordMode \in Tier)
  BY DEF LifecycleInv, SyncTyped, SyncState
<1> HIDE DEF msg
<1> QED BY <1>1, <1>2, <1>4, <1>5, SendKeeps

LEMMA PeerKeeps ==
  ASSUME LifecycleInv, PeerAsks PROVE LifecycleInv'
<1>1. PICK type \in {"present", "interest"} : ToSync([type |-> type], stack)
  BY DEF PeerAsks
<1> DEFINE msg == [type |-> type]
<1>2. /\ stack = <<>>
      /\ UNCHANGED <<m, instances, dead, graph, departures, record, recordMode, store, releasing, storeQ>>
  BY DEF PeerAsks, runtime, storage, sync
<1>3. Strict(stack) /\ ~Open(stack) /\ StackSound
  BY <1>2, Clear DEF LifecycleInv
<1>4. msg \in SyncMessage /\ msg.type # "leave" /\ ToSync(msg, stack)
  BY <1>1, MessageTyped
<1>5. record \in 0 .. (m.nextGen - 1) /\ (record # 0 => recordMode \in Tier)
  BY DEF LifecycleInv, SyncTyped, SyncState
<1> HIDE DEF msg
<1> QED BY <1>2, <1>3, <1>4, <1>5, SendKeeps DEF StackSound

\* A departure waits for its message.
LEMMA LeaveOn ==
  ASSUME LifecycleInv, NEW as \in {"unload", "destroy", "suspend"}, NEW gen \in 0 .. (m.nextGen - 1), NEW base, Strict(base),
         Stacked(base, DOMAIN instances, m, LeftWith(departures) \cup {gen}, syncQ, departures, storeQ), Leave(as, gen, base),
         UNCHANGED <<m, instances, dead, graph, record, recordMode, store, releasing, storeQ>>
  PROVE  LifecycleInv'
<1> DEFINE msg == [type |-> "leave", as |-> as, known |-> record # 0]
           dep == [record |-> record, as |-> as, left |-> gen]
           d2 == Append(departures, dep)
<1>1. departures' = d2 /\ ToSync(msg, base)
  BY DEF Leave
<1>2. m \in Models /\ SyncTyped /\ departures \in Seq(Departure(m)) /\ record \in 0 .. (m.nextGen - 1) /\ m.nextGen \in Nat
  BY ModelFacts DEF LifecycleInv, SyncTyped, SyncState
<1>3. msg \in SyncMessage /\ msg.type = "leave"
  <2> DEFINE known == record # 0
  <2>1. known \in BOOLEAN
    OBVIOUS
  <2> HIDE DEF known
  <2> QED BY <2>1, MessageTyped
<1>4. dep \in Departure(m) /\ dep.left = gen
  <2> DEFINE given == record
  <2>1. given \in Nat /\ dep = [record |-> given, as |-> as, left |-> gen]
    BY <1>2
  <2> HIDE DEF given, dep
  <2> QED BY <2>1 DEF Departure
<1> HIDE DEF msg, dep
<1>5. /\ d2 \in Seq(Departure(m)) /\ Len(d2) = Len(departures) + 1 /\ Len(departures) \in Nat /\ DOMAIN departures = 1 .. Len(departures)
      /\ DOMAIN d2 = 1 .. (Len(departures) + 1)
      /\ \A i \in 1 .. Len(departures) : d2[i] = departures[i]
      /\ d2[Len(departures) + 1] = dep
  BY <1>2, <1>4, Appending
<1> HIDE DEF d2
<1>6. LeftWith(d2) = LeftWith(departures) \cup {gen}
  <2>1. \A k \in DOMAIN d2 : k \in DOMAIN departures \/ k = Len(departures) + 1
    BY <1>5
  <2>2. LeftWith(d2) \subseteq LeftWith(departures) \cup {gen}
    BY <1>4, <1>5, <2>1 DEF LeftWith
  <2>3. LeftWith(departures) \subseteq LeftWith(d2)
    <3>1. \A k \in DOMAIN departures : k \in DOMAIN d2
      BY <1>5
    <3> QED BY <1>5, <3>1 DEF LeftWith
  <2>4. Len(departures) + 1 \in DOMAIN d2
    BY <1>5
  <2>5. gen \in LeftWith(d2)
    BY <1>4, <1>5, <2>4 DEF LeftWith
  <2> QED BY <2>2, <2>3, <2>5
<1>7. Len(d2) = Len(departures) + (IF msg.type = "leave" THEN 1 ELSE 0)
  BY <1>3, <1>5
<1>8. Stacked(base, DOMAIN instances, m, LeftWith(d2), syncQ, departures, storeQ)
  BY <1>6
<1>9. Stacked(stack', DOMAIN instances, m, LeftWith(d2), syncQ', d2, storeQ) /\ syncQ' \in Seq(SyncMessage)
  BY <1>1, <1>2, <1>3, <1>7, <1>8, ToSyncOn
<1>10. StackSound' /\ SyncTyped'
  BY <1>1, <1>2, <1>5, <1>9 DEF StackSound, SyncTyped, SyncState
<1> QED BY <1>10, Kept DEF LifecycleInv

LEMMA LeaveKeeps ==
  ASSUME LifecycleInv, ExecLeave PROVE LifecycleInv'
<1> DEFINE g == E.gen
           left == LeftWith(departures) \cup {g}
<1>1. /\ OnTop("step") /\ Top.todo # <<>> /\ E.do = "leave"
      /\ UNCHANGED <<dead, graph, record, recordMode, store, releasing, storeQ>>
  BY DEF ExecLeave, Doing, E, storage
<1>2. /\ Stacked(Rest, DOMAIN instances, m, left, syncQ, departures, storeQ) /\ Strict(Rest)
      /\ Open(Rest) => E \in Wiring(m)
      /\ E \in Effects(m) /\ m \in Models
  <2>1. LeftWith(departures) \subseteq left /\ E.gen \in left
    OBVIOUS
  <2> HIDE DEF left
  <2> QED BY <1>1, <2>1, TakesEffect
<1>3. g \in 0 .. (m.nextGen - 1) /\ E \notin Wiring(m)
  BY <1>1, <1>2, EffectTyped
<1> HIDE DEF g
<1>4. CASE m.hooked
  <2>1. Leave("unload", g, Rest) /\ UNCHANGED <<m, instances>>
    BY <1>4 DEF ExecLeave, g
  <2> QED BY <1>1, <1>2, <1>3, <2>1, LeaveOn
<1>5. CASE ~m.hooked
  <2> DEFINE s == Left(m, g)
  <2>1. Commit(s, Rest) /\ UNCHANGED <<departures, syncQ>>
    BY <1>5 DEF ExecLeave, g
  <2>2. StepOf(m, s) /\ ~s.refused /\ (g \in LeavingOf(m) => g \in Disposed(s))
    BY <1>2, LeftStep
  <2> HIDE DEF s
  <2>3. \A h \in left \cap LeavingOf(m) : h \in LeftWith(departures) \cup Disposed(s)
    BY <2>2
  <2> HIDE DEF left
  <2>4. ~Open(Rest) /\ ObjectsSound
    BY <1>2, <1>3 DEF LifecycleInv
  <2>5. /\ m' \in Models /\ m.nextGen <= m'.nextGen /\ ObjectsSound'
        /\ Stacked(stack', DOMAIN instances', m', LeftWith(departures), syncQ, departures, storeQ)
    BY <1>1, <1>2, <2>1, <2>2, <2>3, <2>4, Commits
  <2>6. SyncTyped' /\ StoreTyped'
    BY <1>1, <1>2, <2>1, <2>5, StatesLater DEF LifecycleInv, SyncTyped, StoreTyped
  <2>7. StackSound'
    BY <1>1, <2>1, <2>5 DEF StackSound
  <2> QED BY <2>5, <2>6, <2>7 DEF LifecycleInv
<1> QED BY <1>4, <1>5

LEMMA NotifyLeaveKeeps ==
  ASSUME LifecycleInv, ExecNotifyLeave PROVE LifecycleInv'
<1>1. /\ OnTop("step") /\ Top.todo # <<>> /\ E.do = "notify"
      /\ UNCHANGED <<m, instances, dead, graph, record, recordMode, store, releasing, storeQ>>
  BY DEF ExecNotifyLeave, Doing, E, runtime, storage
<1>2. CASE m.hooked
  <2> DEFINE as == IF E.arg = "destroyed" THEN "destroy" ELSE "suspend"
             left == LeftWith(departures) \cup {0}
  <2>1. Leave(as, 0, Rest) /\ as \in {"unload", "destroy", "suspend"}
    BY <1>2 DEF ExecNotifyLeave
  <2>2. LeftWith(departures) \subseteq left
    OBVIOUS
  <2>3. 0 \in 0 .. (m.nextGen - 1)
    BY ModelFacts DEF LifecycleInv
  <2> HIDE DEF as, left
  <2>4. Stacked(Rest, DOMAIN instances, m, left, syncQ, departures, storeQ) /\ Strict(Rest)
    BY <1>1, <2>2, TakesEffect
  <2> QED BY <1>1, <2>1, <2>3, <2>4, LeaveOn DEF left
<1>3. CASE ~m.hooked
  <2>1. stack' = Rest /\ UNCHANGED <<departures, syncQ>>
    BY <1>3 DEF ExecNotifyLeave
  <2>2. Stacked(Rest, DOMAIN instances, m, LeftWith(departures), syncQ, departures, storeQ)
    BY <1>1, TakesEffect
  <2>3. StackSound'
    BY <1>1, <2>1, <2>2 DEF StackSound
  <2> QED BY <1>1, <2>1, <2>3, Kept DEF LifecycleInv
<1> QED BY <1>2, <1>3

LEMMA NotifyResumeKeeps ==
  ASSUME LifecycleInv, ExecNotifyResume PROVE LifecycleInv'
<1>1. /\ OnTop("step") /\ Top.todo # <<>> /\ E.do = "notify" /\ E.arg = "resumed"
      /\ UNCHANGED <<m, instances, dead, graph, record, recordMode, departures, store, releasing, storeQ>>
  BY DEF ExecNotifyResume, Doing, E, runtime, sync, storage
<1>2. Stacked(Rest, DOMAIN instances, m, LeftWith(departures), syncQ, departures, storeQ) /\ Strict(Rest)
  BY <1>1, TakesEffect
<1>3. record \in 0 .. (m.nextGen - 1) /\ (record # 0 => recordMode \in Tier) /\ m \in Models
  BY DEF LifecycleInv, SyncTyped, SyncState
<1>4. CASE m.hooked /\ record # 0
  <2> DEFINE msg == [type |-> "ensure", mode |-> recordMode, suspended |-> FALSE, event |-> TRUE]
  <2>1. ToSync(msg, Rest)
    BY <1>4 DEF ExecNotifyResume
  <2>2. msg \in SyncMessage /\ msg.type = "ensure"
    BY <1>3, <1>4, MessageTyped
  <2> HIDE DEF msg
  <2> QED BY <1>1, <1>2, <1>3, <2>1, <2>2, SendKeeps
<1>5. CASE m.hooked /\ record = 0
  <2>1. stack' = Tail(stack) /\ syncQ' = syncQ
    BY <1>5 DEF ExecNotifyResume
  <2>2. Stacked(stack, DOMAIN instances, m, LeftWith(departures), syncQ, departures, storeQ)
    BY DEF LifecycleInv, StackSound
  <2>3. stack # <<>> /\ Head(stack).kind = "step" /\ Head(stack).todo # <<>> /\ Head(Head(stack).todo).do = "notify"
        /\ Head(Head(stack).todo).arg = "resumed"
    BY <1>1 DEF OnTop, Top, E
  <2> DEFINE todo == Head(stack).todo
  <2>4. todo \in Todo(m)
    <3>1. Head(stack) \in Frames(m)
      BY <2>2, <2>3, PopOn DEF Stacked
    <3> QED BY <1>3, <2>3, <3>1, FrameFacts
  <2>5. todo # <<>> /\ Head(todo).do = "notify" /\ Head(todo).arg = "resumed"
    BY <2>3
  <2> HIDE DEF todo
  <2>6. todo \in Seq(Resuming(m))
    <3>1. todo \notin Seq(Others(m))
      BY <1>3, <2>4, <2>5, TodoFacts DEF Others
    <3>2. todo \notin Seq(Wiring(m))
      BY <1>3, <2>4, <2>5, TodoFacts DEF Wiring
    <3> QED BY <2>4, <3>1, <3>2 DEF Todo
  <2>7. \A do \in {"dispose", "leave"} : On(todo, do) = {}
    BY <1>3, <2>4, <2>6, NoEnds
  <2>8. \A do \in {"dispose", "leave"} : On(Head(stack).todo, do) = {}
    BY <2>7 DEF todo
  <2>9. Stacked(Tail(stack), DOMAIN instances, m, LeftWith(departures), syncQ, departures, storeQ)
    BY <1>3, <2>2, <2>3, <2>8, PopTop
  <2>10. StackSound'
    BY <1>1, <2>1, <2>9 DEF StackSound
  <2> QED BY <1>1, <2>1, <2>10, Kept DEF LifecycleInv
<1>6. CASE ~m.hooked
  <2>1. stack' = Rest /\ syncQ' = syncQ
    BY <1>6 DEF ExecNotifyResume
  <2>2. StackSound'
    BY <1>1, <1>2, <2>1 DEF StackSound
  <2> QED BY <1>1, <2>1, <2>2, Kept DEF LifecycleInv
<1> QED BY <1>4, <1>5, <1>6 DEF ExecNotifyResume

-----------------------------------------------------------------------------
(* The end of a step.                                                      *)

LEMMA EndStepKeeps ==
  ASSUME LifecycleInv, EndStep PROVE LifecycleInv'
<1> DEFINE g == m.entry.gen
           told == /\ IsHeld(m.entry) /\ g \in DOMAIN instances
                   /\ Observed(Top.before, g, instances[g]) # Observed(m.entry, g, instances[g])
           b == Tail(stack)
<1>1. /\ OnTop("step") /\ Top.todo = <<>>
      /\ UNCHANGED <<m, dead, graph, record, recordMode, departures, syncQ, store, releasing, storeQ>>
  BY DEF EndStep, sync, storage, queues
<1>2. Stacked(stack, DOMAIN instances, m, LeftWith(departures), syncQ, departures, storeQ) /\ m \in Models
  BY DEF LifecycleInv, StackSound
<1>3. /\ Stacked(b, DOMAIN instances, m, LeftWith(departures), syncQ, departures, storeQ)
      /\ Strict(b) /\ ~Open(b)
  <2>1. stack # <<>> /\ Head(stack).kind = "step" /\ Head(stack).todo = <<>>
    BY <1>1 DEF OnTop, Top
  <2>2. \A do \in {"dispose", "leave"} : On(Head(stack).todo, do) = {}
    BY <2>1, OnNone
  <2> QED BY <1>2, <2>1, <2>2, PopTop
<1>4. CASE ~told
  <2>1. stack' = b /\ instances' = instances
    BY <1>4 DEF EndStep
  <2>2. StackSound'
    BY <1>1, <1>3, <2>1 DEF StackSound
  <2> QED BY <1>1, <2>1, <2>2, Kept DEF LifecycleInv
<1>5. CASE told
  <2> DEFINE i == instances[g]
             ans == IF i.closed THEN i.answer ELSE HydrationOf(m.entry)
             ref == IF i.closed THEN i.refused ELSE Observed(m.entry, g, i)[2]
             v == [i EXCEPT !.answer = ans, !.refused = ref]
  <2>1. /\ instances' = [instances EXCEPT ![g] = v]
        /\ stack' = CallBack("notify", i.tier, b)
    BY <1>5 DEF EndStep
  <2>2. Objects(instances, m, dead) /\ g \in DOMAIN instances
    BY <1>5 DEF LifecycleInv, ObjectsSound
  <2>3. i \in Instance /\ (i.closed => g \notin Steady(m) /\ ~i.wired)
    BY <2>2 DEF Objects
  <2>4. HydrationOf(m.entry) \in {"pending", "loaded", "failed"} /\ Observed(m.entry, g, i)[2] \in BOOLEAN
    BY <1>2, ModelFacts, Hydration DEF Observed
  <2>5. v \in Instance /\ v.replica = i.replica /\ v.closed = i.closed /\ v.wired = i.wired
    <3>1. ans \in {"pending", "loaded", "failed", "closed"} /\ ref \in BOOLEAN /\ i \in Instance
      BY <2>3, <2>4 DEF Instance
    <3> HIDE DEF ans, ref, i
    <3> QED BY <3>1 DEF Instance
  <2>6. v.closed => g \notin Steady(m) /\ ~v.wired
    BY <2>3, <2>5
  <2> HIDE DEF v, g
  <2>7. Objects(instances', m, dead) /\ DOMAIN instances' = DOMAIN instances
    BY <2>1, <2>2, <2>5, <2>6, ObjectChanged
  <2>8. ObjectsSound' /\ m' \in Models
    BY <1>1, <1>2, <2>7 DEF ObjectsSound
  <2> HIDE DEF b, i
  <2>9. Stacked(stack', DOMAIN instances, m, LeftWith(departures), syncQ, departures, storeQ)
    BY <1>2, <1>3, <2>1, CallApp DEF CallBack
  <2>10. StackSound'
    BY <1>1, <2>7, <2>9 DEF StackSound
  <2> QED BY <1>1, <2>8, <2>10, Kept DEF LifecycleInv
<1> QED BY <1>4, <1>5

-----------------------------------------------------------------------------
(* The Synchronizer's outer dispatcher.                                    *)

Graphs == [mode : Tier \cup {"absent", "deferred", "unloaded"}, leaving : BOOLEAN, suspended : BOOLEAN, reloading : BOOLEAN]

\* What a message does to the document's entry, and what it asks for.
LEMMA RouteTyped ==
  ASSUME graph \in Graphs, NEW msg \in SyncMessage, msg.type # "tick"
  PROVE  /\ Route(msg).g \in Graphs
         /\ msg.type = "leave" => Route(msg).does = <<"left">>
         /\ msg.type # "leave" => Route(msg).does \in {<<>>, <<"reload">>, <<"ensure-doc">>}
<1>1. \A mode \in Tier \cup {"absent", "deferred", "unloaded"} : InGraph(mode) \in Graphs /\ NoEntry \in Graphs
  BY DEF InGraph, NoEntry, Graphs
<1>2. CASE msg.type = "ensure"
  <2>1. msg.mode \in Tier
    BY <1>2 DEF SyncMessage
  <2>2. Ensured(graph, msg.mode, msg.suspended) \in Graphs
    BY <1>1, <2>1 DEF Ensured
  <2>3. Route(msg).g = Ensured(graph, msg.mode, msg.suspended) /\ Route(msg).does = <<>>
    BY <1>2 DEF Route
  <2> QED BY <1>2, <2>2, <2>3
<1>3. CASE msg.type = "defer"
  <2>1. Route(msg).g = DeferredIn(graph) /\ Route(msg).does = <<>>
    BY <1>3 DEF Route
  <2>2. DeferredIn(graph) \in Graphs
    BY <1>1 DEF DeferredIn
  <2> QED BY <1>3, <2>1, <2>2
<1>4. CASE msg.type = "leaving"
  <2>1. msg.on \in BOOLEAN
    BY <1>4 DEF SyncMessage
  <2>2. Route(msg).g = MarkedLeaving(graph, msg.on) /\ Route(msg).does = <<>>
    BY <1>4 DEF Route
  <2>3. MarkedLeaving(graph, msg.on) \in Graphs
    BY <2>1 DEF MarkedLeaving, Graphs
  <2> QED BY <1>4, <2>2, <2>3
<1>5. CASE msg.type = "leave"
  <2>1. Route(msg).g = LeftGraph(graph, msg.as, msg.known) /\ Route(msg).does = <<"left">>
    BY <1>5 DEF Route
  <2>2. LeftGraph(graph, msg.as, msg.known) \in Graphs
    <3> DEFINE was == graph.mode = "absent" \/ graph.suspended
               u == InGraph("unloaded")
    <3>1. was \in BOOLEAN /\ u \in Graphs
      BY <1>1
    <3>2. LeftGraph(graph, msg.as, msg.known) \in {[u EXCEPT !.suspended = was], NoEntry}
      BY DEF LeftGraph
    <3> HIDE DEF was, u
    <3>3. [u EXCEPT !.suspended = was] \in Graphs
      BY <3>1 DEF Graphs
    <3> QED BY <1>1, <3>2, <3>3
  <2> QED BY <1>5, <2>1, <2>2
<1>6. CASE msg.type = "interest" \/ (msg.type = "present" /\ graph.mode # "absent")
  <2> DEFINE asked == graph.reloading \/ Reloads(graph)
  <2>1. Route(msg).g = [graph EXCEPT !.reloading = asked] /\ Route(msg).does = When(Reloads(graph), <<"reload">>)
    BY <1>6 DEF Route
  <2>2. asked \in BOOLEAN
    OBVIOUS
  <2> HIDE DEF asked
  <2>3. [graph EXCEPT !.reloading = asked] \in Graphs
    BY <2>2 DEF Graphs
  <2>4. When(Reloads(graph), <<"reload">>) \in {<<>>, <<"reload">>}
    BY DEF When
  <2> QED BY <1>6, <2>1, <2>3, <2>4
<1>7. CASE msg.type = "present" /\ graph.mode = "absent"
  <2>1. Route(msg).g = graph /\ Route(msg).does = <<"ensure-doc">>
    BY <1>7 DEF Route
  <2> QED BY <1>7, <2>1
<1>8. msg.type \in {"ensure", "leave", "leaving", "defer", "tick", "present", "interest"}
  BY DEF SyncMessage
<1> QED BY <1>2, <1>3, <1>4, <1>5, <1>6, <1>7, <1>8

\* The dispatcher's frame on top, with another todo.
LEMMA SyncFrameOn ==
  ASSUME LifecycleInv, OnTop("sync"), NEW todo \in Seq(SyncDoings), \A k \in DOMAIN todo : todo[k] = "left" => k = 1,
         NEW left2, LeftWith(departures) \cap DOMAIN instances \subseteq left2,
         NEW q2, NEW d2, Len(d2) = Cardinality(LeavesIn(q2)) + (IF todo # <<>> /\ todo[1] = "left" THEN 1 ELSE 0),
         NEW r, r = <<[Top EXCEPT !.todo = todo]>> \o Tail(stack)
  PROVE  Stacked(r, DOMAIN instances, m, left2, q2, d2, storeQ) /\ Strict(r) /\ ~Open(r)
<1> DEFINE h == [Top EXCEPT !.todo = todo]
<1>1. Stacked(stack, DOMAIN instances, m, LeftWith(departures), syncQ, departures, storeQ) /\ m \in Models
  BY DEF LifecycleInv, StackSound
<1>2. stack # <<>> /\ Head(stack).kind = "sync" /\ Top = Head(stack)
  BY DEF OnTop, Top
<1>3. Head(stack) \in Frames(m)
  BY <1>1, <1>2, PopOn DEF Stacked
<1>4. h \in Frames(m) /\ h.kind = "sync" /\ h.todo = todo
  <2>1. Top \in Frames(m) /\ Top.kind = "sync" /\ Top.kind # "step" /\ Top.kind # "store" /\ Top.kind # "app"
    BY <1>2, <1>3
  <2>2. h \in Frames(m) /\ h.kind = Top.kind /\ h.todo = todo
    BY <1>1, <2>1, WithTodo, Zenon
  <2> QED BY <2>1, <2>2
<1>5. r = <<h>> \o Tail(stack)
  OBVIOUS
<1> HIDE DEF h
<1>6. Len(d2) = Cardinality(LeavesIn(q2)) + (IF Lets(h) THEN 1 ELSE 0)
  BY <1>4 DEF Lets
<1>7. \A k \in DOMAIN h.todo : h.todo[k] = "left" => k = 1
  BY <1>4
<1> QED BY <1>1, <1>2, <1>4, <1>5, <1>6, <1>7, SwapSync

LEMMA DoingTyped ==
  /\ <<>> \in Seq(SyncDoings)
  /\ \A what \in SyncDoings : <<what, "queue-tick">> \in Seq(SyncDoings)
  /\ <<"queue-tick">> \in Seq(SyncDoings)
<1>1. <<>> \in Seq(SyncDoings)
  BY EmptySeq
<1>2. "queue-tick" \in SyncDoings
  BY DEF SyncDoings
<1>3. \A what \in SyncDoings : <<what, "queue-tick">> \in Seq(SyncDoings)
  BY <1>2
<1>4. <<"queue-tick">> \in Seq(SyncDoings)
  BY <1>2
<1> QED BY <1>1, <1>3, <1>4

LEMMA RoutedKeeps ==
  ASSUME LifecycleInv, Routed PROVE LifecycleInv'
<1> DEFINE msg == Head(syncQ)
           todo == Route(msg).does \o <<"queue-tick">>
<1>1. /\ OnTop("sync") /\ Top.todo = <<>> /\ syncQ # <<>> /\ msg.type # "tick"
      /\ graph' = Route(msg).g /\ syncQ' = Tail(syncQ)
      /\ stack' = <<[Top EXCEPT !.todo = todo]>> \o Tail(stack)
      /\ UNCHANGED <<m, instances, dead, record, recordMode, departures, store, releasing, storeQ>>
  BY DEF Routed, SyncFrame, runtime, storage
<1>2. graph \in Graphs /\ syncQ \in Seq(SyncMessage) /\ m \in Models /\ StackSound /\ SyncTyped
  BY DEF LifecycleInv, SyncTyped, SyncState, Graphs
<1>3. msg \in SyncMessage /\ Tail(syncQ) \in Seq(SyncMessage)
  BY <1>1, <1>2, Popping
<1> HIDE DEF msg
<1>4. /\ Route(msg).g \in Graphs
      /\ msg.type = "leave" => Route(msg).does = <<"left">>
      /\ msg.type # "leave" => Route(msg).does \in {<<>>, <<"reload">>, <<"ensure-doc">>}
  BY <1>1, <1>2, <1>3, RouteTyped
<1>5. /\ todo \in Seq(SyncDoings) /\ todo # <<>> /\ (todo[1] = "left" <=> msg.type = "leave")
      /\ \A k \in DOMAIN todo : todo[k] = "left" => k = 1
  <2>1. CASE Route(msg).does = <<>>
    <3>1. todo = <<"queue-tick">> /\ msg.type # "leave"
      BY <1>4, <2>1
    <3> HIDE DEF todo
    <3> QED BY <3>1, DoingTyped
  <2>2. ASSUME NEW what \in SyncDoings, Route(msg).does = <<what>>, what # "queue-tick", what = "left" <=> msg.type = "leave"
        PROVE  /\ todo \in Seq(SyncDoings) /\ todo # <<>> /\ (todo[1] = "left" <=> msg.type = "leave")
               /\ \A k \in DOMAIN todo : todo[k] = "left" => k = 1
    <3> DEFINE b == <<"queue-tick">>
    <3>1. todo = <<what>> \o b
      BY <2>2
    <3>2. b \in Seq(SyncDoings) /\ Len(b) = 1 /\ b[1] = "queue-tick"
      BY DoingTyped
    <3> HIDE DEF b, todo
    <3>3. /\ todo \in Seq(SyncDoings) /\ todo # <<>> /\ todo[1] = what /\ DOMAIN todo = 1 .. 2
          /\ \A i \in 2 .. 2 : todo[i] = b[i - 1]
      BY <2>2, <3>1, <3>2, Pushing
    <3> QED BY <2>2, <3>2, <3>3
  <2>3. \A what \in {"left", "reload", "ensure-doc"} : what \in SyncDoings /\ what # "queue-tick"
    BY DEF SyncDoings
  <2> HIDE DEF todo
  <2>4. CASE msg.type = "leave"
    BY <1>4, <2>2, <2>3, <2>4
  <2>5. CASE msg.type # "leave"
    BY <1>4, <2>1, <2>2, <2>3, <2>5
  <2> QED BY <2>4, <2>5
<1> HIDE DEF todo
<1>6. Len(departures) = Cardinality(LeavesIn(Tail(syncQ))) + (IF todo # <<>> /\ todo[1] = "left" THEN 1 ELSE 0)
  <2>1. Cardinality(LeavesIn(syncQ)) = Cardinality(LeavesIn(Tail(syncQ))) + (IF msg.type = "leave" THEN 1 ELSE 0)
    BY <1>1, <1>2, LeavesTaken DEF msg
  <2>2. Len(departures) = Cardinality(LeavesIn(syncQ)) + 0
    <3>1. stack # <<>> /\ Head(stack).kind = "sync" /\ ~Lets(Head(stack))
      BY <1>1 DEF OnTop, Top, Lets
    <3>2. IsOn(stack, Head(stack), Tail(stack))
      BY <1>2, <3>1, PopOn DEF StackSound, Stacked
    <3> QED BY <1>2, <3>1, <3>2, SyncOn DEF StackSound, Stacked
  <2>3. Cardinality(LeavesIn(Tail(syncQ))) \in Nat
    BY <1>3, LeavesFinite
  <2> QED BY <1>5, <2>1, <2>2, <2>3
<1>7. Stacked(stack', DOMAIN instances, m, LeftWith(departures), Tail(syncQ), departures, storeQ)
  BY <1>1, <1>5, <1>6, SyncFrameOn
<1>8. StackSound' /\ SyncTyped'
  BY <1>1, <1>2, <1>3, <1>4, <1>7 DEF StackSound, SyncTyped, SyncState, Graphs
<1> QED BY <1>1, <1>8, Kept DEF LifecycleInv

\* A doing other than a departure is taken from the dispatcher's todo.
LEMMA TakesDoing ==
  ASSUME LifecycleInv, OnTop("sync"), Top.todo # <<>>
  PROVE  /\ Tail(Top.todo) \in Seq(SyncDoings)
         /\ Tail(Top.todo) # <<>> => Tail(Top.todo)[1] # "left"
         /\ \A k \in DOMAIN Tail(Top.todo) : Tail(Top.todo)[k] = "left" => k = 1
         /\ Len(departures) = Cardinality(LeavesIn(syncQ)) + (IF Head(Top.todo) = "left" THEN 1 ELSE 0)
         /\ Cardinality(LeavesIn(syncQ)) \in Nat
         /\ Rest = <<[Top EXCEPT !.todo = Tail(Top.todo)]>> \o Tail(stack)
<1> DEFINE todo == Top.todo
<1>1. Stacked(stack, DOMAIN instances, m, LeftWith(departures), syncQ, departures, storeQ) /\ m \in Models
      /\ syncQ \in Seq(SyncMessage)
  BY DEF LifecycleInv, StackSound, SyncTyped, SyncState
<1>2. stack # <<>> /\ Top = Head(stack) /\ Top.kind = "sync"
  BY DEF OnTop, Top
<1>3. Top \in Frames(m) /\ IsOn(stack, Top, Tail(stack))
  BY <1>1, <1>2, PopOn DEF Stacked
<1>4. todo \in Seq(SyncDoings)
  BY <1>1, <1>2, <1>3, FrameFacts
<1>5. (\A k \in DOMAIN todo : todo[k] = "left" => k = 1) /\ Len(departures) = Cardinality(LeavesIn(syncQ)) + (IF Lets(Top) THEN 1 ELSE 0)
  BY <1>1, <1>2, <1>3, SyncOn DEF Stacked
<1>6. Lets(Top) <=> todo[1] = "left"
  BY <1>2 DEF Lets
<1>7. Rest = <<[Top EXCEPT !.todo = Tail(Top.todo)]>> \o Tail(stack)
  BY DEF Rest
<1>8. todo # <<>>
  OBVIOUS
<1> HIDE DEF todo
<1>9. /\ Head(todo) = todo[1] /\ Tail(todo) \in Seq(SyncDoings) /\ Len(todo) \in Nat \ {0} /\ DOMAIN todo = 1 .. Len(todo)
      /\ Len(Tail(todo)) = Len(todo) - 1 /\ DOMAIN Tail(todo) = 1 .. (Len(todo) - 1)
      /\ \A i \in 1 .. (Len(todo) - 1) : Tail(todo)[i] = todo[i + 1]
  BY <1>4, <1>8, Popping
<1>10. \A k \in DOMAIN Tail(todo) : Tail(todo)[k] # "left"
  <2>1. ASSUME NEW k \in DOMAIN Tail(todo) PROVE Tail(todo)[k] # "left"
    <3>1. k + 1 \in DOMAIN todo /\ k + 1 # 1 /\ Tail(todo)[k] = todo[k + 1]
      BY <1>9
    <3> QED BY <1>5, <3>1
  <2> QED BY <2>1
<1>11. Tail(todo) # <<>> => 1 \in DOMAIN Tail(todo)
  BY <1>9, Popping
<1>12. Cardinality(LeavesIn(syncQ)) \in Nat
  BY <1>1, LeavesFinite
<1> QED BY <1>5, <1>6, <1>7, <1>9, <1>10, <1>11, <1>12 DEF todo

\* The stack after it.
LEMMA RestOfSync ==
  ASSUME LifecycleInv, OnTop("sync"), Top.todo # <<>>, NEW left2, LeftWith(departures) \cap DOMAIN instances \subseteq left2,
         NEW d2, Len(d2) = Cardinality(LeavesIn(syncQ))
  PROVE  Stacked(Rest, DOMAIN instances, m, left2, syncQ, d2, storeQ) /\ Strict(Rest) /\ ~Open(Rest)
<1> DEFINE todo == Tail(Top.todo)
<1>1. /\ todo \in Seq(SyncDoings) /\ (todo # <<>> => todo[1] # "left") /\ (\A k \in DOMAIN todo : todo[k] = "left" => k = 1)
      /\ Cardinality(LeavesIn(syncQ)) \in Nat /\ Rest = <<[Top EXCEPT !.todo = todo]>> \o Tail(stack)
  BY TakesDoing
<1> HIDE DEF todo
<1>2. Len(d2) = Cardinality(LeavesIn(syncQ)) + (IF todo # <<>> /\ todo[1] = "left" THEN 1 ELSE 0)
  BY <1>1
<1> DEFINE r == Rest
<1>3. r = <<[Top EXCEPT !.todo = todo]>> \o Tail(stack)
  BY <1>1
<1> HIDE DEF r
<1>4. Stacked(r, DOMAIN instances, m, left2, syncQ, d2, storeQ) /\ Strict(r) /\ ~Open(r)
  BY <1>1, <1>2, <1>3, SyncFrameOn
<1> QED BY <1>4 DEF r

LEMMA QueueTickKeeps ==
  ASSUME LifecycleInv, QueueTick PROVE LifecycleInv'
<1>1. /\ OnTop("sync") /\ Top.todo # <<>> /\ Head(Top.todo) = "queue-tick" /\ stack' = Rest
      /\ syncQ' = syncQ \/ syncQ' = Append(syncQ, [type |-> "tick"])
      /\ UNCHANGED <<m, instances, dead, graph, record, recordMode, departures, store, releasing, storeQ>>
  BY DEF QueueTick, SyncDoes, runtime, sync, storage
<1>2. syncQ \in Seq(SyncMessage) /\ SyncTyped
  BY DEF LifecycleInv, SyncTyped, SyncState
<1>3. syncQ' \in Seq(SyncMessage) /\ Cardinality(LeavesIn(syncQ')) = Cardinality(LeavesIn(syncQ))
  <2> DEFINE tick == [type |-> "tick"]
  <2>1. tick \in SyncMessage /\ tick.type # "leave"
    BY MessageTyped
  <2> HIDE DEF tick
  <2>2. Append(syncQ, tick) \in Seq(SyncMessage)
    BY <1>2, <2>1, Appending
  <2>3. Cardinality(LeavesIn(Append(syncQ, tick))) = Cardinality(LeavesIn(syncQ))
    <3>1. Cardinality(LeavesIn(syncQ)) \in Nat
      BY <1>2, LeavesFinite
    <3> QED BY <1>2, <2>1, <3>1, LeavesQueued
  <2>4. syncQ' = syncQ \/ syncQ' = Append(syncQ, tick)
    BY <1>1 DEF tick
  <2> QED BY <1>2, <2>2, <2>3, <2>4
<1> DEFINE todo == Tail(Top.todo)
           r == Rest
<1>4. /\ todo \in Seq(SyncDoings) /\ (todo # <<>> => todo[1] # "left") /\ (\A k \in DOMAIN todo : todo[k] = "left" => k = 1)
      /\ Len(departures) = Cardinality(LeavesIn(syncQ)) + 0 /\ Cardinality(LeavesIn(syncQ)) \in Nat
      /\ r = <<[Top EXCEPT !.todo = todo]>> \o Tail(stack)
  BY <1>1, TakesDoing
<1> HIDE DEF todo, r
<1> DEFINE q2 == syncQ'
<1>5. Len(departures) = Cardinality(LeavesIn(q2)) + (IF todo # <<>> /\ todo[1] = "left" THEN 1 ELSE 0)
  BY <1>3, <1>4
<1> HIDE DEF q2
<1>6. Stacked(r, DOMAIN instances, m, LeftWith(departures), q2, departures, storeQ)
  BY <1>1, <1>4, <1>5, SyncFrameOn
<1>7. StackSound'
  BY <1>1, <1>6 DEF StackSound, q2, r
<1>8. SyncTyped'
  BY <1>1, <1>2, <1>3 DEF SyncTyped, SyncState
<1> QED BY <1>1, <1>7, <1>8, Kept DEF LifecycleInv

LEMMA TickKeeps ==
  ASSUME LifecycleInv, Tick PROVE LifecycleInv'
<1>1. /\ OnTop("sync") /\ Top.todo = <<>> /\ syncQ # <<>> /\ Head(syncQ).type = "tick" /\ syncQ' = Tail(syncQ)
      /\ stack' = stack \/ stack' = CallBack("events", "interpret", stack)
      /\ UNCHANGED <<m, instances, dead, graph, record, recordMode, departures, store, releasing, storeQ>>
  BY DEF Tick, SyncFrame, runtime, storage
<1>2. Stacked(stack, DOMAIN instances, m, LeftWith(departures), syncQ, departures, storeQ) /\ m \in Models
      /\ syncQ \in Seq(SyncMessage) /\ SyncTyped
  BY DEF LifecycleInv, StackSound, SyncTyped, SyncState
<1>3. stack # <<>> /\ Top = Head(stack) /\ Top.kind = "sync"
  BY <1>1 DEF OnTop, Top
<1>4. IsOn(stack, Top, Tail(stack))
  BY <1>2, <1>3, PopOn DEF Stacked
<1>5. Tail(syncQ) \in Seq(SyncMessage) /\ Cardinality(LeavesIn(Tail(syncQ))) = Cardinality(LeavesIn(syncQ))
  <2>1. Tail(syncQ) \in Seq(SyncMessage)
    BY <1>1, <1>2, Popping
  <2>2. Cardinality(LeavesIn(Tail(syncQ))) \in Nat
    BY <2>1, LeavesFinite
  <2> QED BY <1>1, <1>2, <2>1, <2>2, LeavesTaken
<1> DEFINE q2 == Tail(syncQ)
<1>6. Syncing(stack, q2, departures)
  <2>1. Syncing(stack, syncQ, departures) /\ Cardinality(LeavesIn(q2)) = Cardinality(LeavesIn(syncQ))
    BY <1>2, <1>5 DEF Stacked
  <2> HIDE DEF q2
  <2> QED BY <1>3, <1>4, <2>1, SyncOn
<1> HIDE DEF q2
<1>7. Stacked(stack, DOMAIN instances, m, LeftWith(departures), q2, departures, storeQ)
  BY <1>2, <1>6 DEF Stacked
<1>8. Strict(stack) /\ ~Open(stack)
  <2>1. Wires(Top) = {}
    BY <1>3 DEF Wires, Left2Do
  <2>2. Strict(Tail(stack))
    BY <1>2, <1>4, UnderOn DEF Stacked
  <2> QED BY <1>3, <1>4, <2>1, <2>2, UnderOn
<1>9. Stacked(stack', DOMAIN instances, m, LeftWith(departures), q2, departures, storeQ)
  BY <1>1, <1>2, <1>7, <1>8, CallApp DEF CallBack
<1>10. StackSound'
  BY <1>1, <1>9 DEF StackSound, q2
<1>11. SyncTyped'
  BY <1>1, <1>2, <1>5 DEF SyncTyped, SyncState
<1> QED BY <1>1, <1>10, <1>11, Kept DEF LifecycleInv

\* The document is left: its departure ends, and the instance it let go of.
LEMMA DocLeftKeeps ==
  ASSUME LifecycleInv, DocLeft PROVE LifecycleInv'
<1> DEFINE dep == Head(departures)
           d2 == Tail(departures)
           gen == dep.left
<1>1. /\ OnTop("sync") /\ Top.todo # <<>> /\ Head(Top.todo) = "left" /\ departures' = d2
      /\ record' = RecordLeft(dep) /\ recordMode' = (IF record' = 0 THEN "none" ELSE recordMode)
      /\ IF gen = 0 THEN stack' = Rest /\ UNCHANGED <<m, instances>> ELSE Commit(Left(m, gen), Rest)
      /\ UNCHANGED <<dead, graph, syncQ, store, releasing, storeQ>>
  BY DEF DocLeft, SyncDoes, storage, queues
<1>2. /\ m \in Models /\ ObjectsSound /\ StackSound /\ SyncTyped /\ StoreTyped
      /\ graph \in Graphs /\ record \in 0 .. (m.nextGen - 1) /\ (record # 0 => recordMode \in Tier)
      /\ departures \in Seq(Departure(m)) /\ syncQ \in Seq(SyncMessage)
  BY DEF LifecycleInv, SyncTyped, SyncState, Graphs
<1>3. Len(departures) = Cardinality(LeavesIn(syncQ)) + 1 /\ Cardinality(LeavesIn(syncQ)) \in Nat
  BY <1>1, TakesDoing
<1>4. departures # <<>>
  BY <1>3
<1>5. /\ dep = departures[1] /\ dep \in Departure(m) /\ d2 \in Seq(Departure(m)) /\ Len(departures) \in Nat \ {0}
      /\ DOMAIN departures = 1 .. Len(departures)
      /\ Len(d2) = Len(departures) - 1 /\ DOMAIN d2 = 1 .. (Len(departures) - 1)
      /\ \A i \in 1 .. (Len(departures) - 1) : d2[i] = departures[i + 1]
  BY <1>2, <1>4, Popping
<1> HIDE DEF dep, d2
<1>6. LeftWith(departures) = LeftWith(d2) \cup {gen}
  <2>1. ASSUME NEW k \in DOMAIN departures PROVE departures[k].left \in LeftWith(d2) \cup {gen}
    <3>1. CASE k = 1
      BY <3>1, <1>5
    <3>2. CASE k # 1
      <4>1. k - 1 \in DOMAIN d2 /\ d2[k - 1] = departures[k]
        BY <3>2, <1>5
      <4> QED BY <4>1 DEF LeftWith
    <3> QED BY <3>1, <3>2
  <2>2. ASSUME NEW k \in DOMAIN d2 PROVE d2[k].left \in LeftWith(departures)
    <3>1. k + 1 \in DOMAIN departures /\ d2[k] = departures[k + 1]
      BY <1>5
    <3> QED BY <3>1 DEF LeftWith
  <2>3. gen \in LeftWith(departures)
    <3>1. 1 \in DOMAIN departures
      BY <1>5
    <3> QED BY <3>1, <1>5 DEF LeftWith
  <2>4. LeftWith(departures) \subseteq LeftWith(d2) \cup {gen}
    BY <2>1 DEF LeftWith
  <2>5. LeftWith(d2) \subseteq LeftWith(departures)
    BY <2>2 DEF LeftWith
  <2> QED BY <2>3, <2>4, <2>5
<1>7. Len(d2) = Cardinality(LeavesIn(syncQ))
  BY <1>3, <1>5
<1>8. gen \in 0 .. (m.nextGen - 1)
  BY <1>5 DEF Departure
<1>9. RecordLeft(dep) \in {0, record}
  BY DEF RecordLeft
<1> HIDE DEF gen
<1>10. CASE gen = 0
  <2>1. 0 \notin DOMAIN instances
    BY <1>2 DEF ObjectsSound, Objects
  <2>2. LeftWith(departures) \cap DOMAIN instances \subseteq LeftWith(d2)
    BY <1>6, <1>10, <2>1
  <2>3. Stacked(Rest, DOMAIN instances, m, LeftWith(d2), syncQ, d2, storeQ)
    BY <1>1, <1>7, <2>2, RestOfSync
  <2>4. stack' = Rest /\ UNCHANGED <<m, instances>>
    BY <1>1, <1>10
  <2>5. StackSound'
    BY <1>1, <2>3, <2>4 DEF StackSound
  <2>6. SyncTyped'
    <3>1. record' \in 0 .. (m.nextGen - 1) /\ (record' # 0 => recordMode' \in Tier)
      <4>1. m.nextGen \in Nat \ {0}
        BY <1>2, ModelFacts
      <4> QED BY <1>1, <1>2, <1>9, <4>1
    <3> QED BY <1>1, <1>2, <1>5, <2>4, <3>1 DEF SyncTyped, SyncState, Graphs
  <2> QED BY <1>1, <2>4, <2>5, <2>6, Kept DEF LifecycleInv
<1>11. CASE gen # 0
  <2> DEFINE s == Left(m, gen)
             left == LeftWith(departures)
             left2 == LeftWith(d2)
             b == Rest
  <2>1. Commit(s, b)
    BY <1>1, <1>11
  <2>2. StepOf(m, s) /\ ~s.refused /\ (gen \in LeavingOf(m) => gen \in Disposed(s))
    BY <1>2, LeftStep
  <2> HIDE DEF s
  <2>3. \A g \in left \cap LeavingOf(m) : g \in left2 \cup Disposed(s)
    BY <1>6, <2>2
  <2>4. Stacked(b, DOMAIN instances, m, left, syncQ, d2, storeQ) /\ Strict(b) /\ ~Open(b)
    BY <1>1, <1>7, RestOfSync
  <2> HIDE DEF left, left2, b
  <2>5. /\ m' \in Models /\ m.nextGen <= m'.nextGen /\ ObjectsSound'
        /\ Stacked(stack', DOMAIN instances', m', left2, syncQ, d2, storeQ)
    BY <1>1, <1>2, <2>1, <2>2, <2>3, <2>4, Commits
  <2>6. SyncState(m', graph, record, recordMode, syncQ, departures) /\ StoreTyped'
    BY <1>1, <1>2, <2>5, StatesLater DEF SyncTyped, StoreTyped
  <2>7. SyncTyped'
    <3>1. record' \in 0 .. (m'.nextGen - 1) /\ (record' # 0 => recordMode' \in Tier)
      <4>1. m'.nextGen \in Nat \ {0}
        BY <2>5, ModelFacts
      <4> QED BY <1>1, <1>9, <2>6, <4>1 DEF SyncState
    <3>2. d2 \in Seq(Departure(m'))
      <4>1. departures \in Seq(Departure(m'))
        BY <2>6 DEF SyncState
      <4> QED BY <4>1, <1>4, Popping DEF d2
    <3> QED BY <1>1, <2>6, <3>1, <3>2 DEF SyncTyped, SyncState
  <2>8. StackSound'
    BY <1>1, <2>5 DEF StackSound, left2
  <2> QED BY <2>5, <2>6, <2>7, <2>8 DEF LifecycleInv
<1> QED BY <1>10, <1>11

\* Steps that a doing of the dispatcher takes.
LEMMA StepsOfSync ==
  ASSUME LifecycleInv, OnTop("sync"), Top.todo # <<>>, Head(Top.todo) # "left", NEW s, StepOf(m, s), Commit(s, Rest),
         dead' = dead, UNCHANGED <<graph, record, recordMode, departures, store, releasing, storeQ>>,
         syncQ' \in Seq(SyncMessage), Cardinality(LeavesIn(syncQ')) = Cardinality(LeavesIn(syncQ))
  PROVE  LifecycleInv'
<1> DEFINE b == Rest
           q2 == syncQ'
           todo == Tail(Top.todo)
           left == LeftWith(departures)
<1>1. m \in Models /\ ObjectsSound /\ SyncTyped /\ StoreTyped /\ Commit(s, b)
  BY DEF LifecycleInv
<1>2. /\ todo \in Seq(SyncDoings) /\ (todo # <<>> => todo[1] # "left") /\ (\A k \in DOMAIN todo : todo[k] = "left" => k = 1)
      /\ Len(departures) = Cardinality(LeavesIn(syncQ)) + 0 /\ Cardinality(LeavesIn(syncQ)) \in Nat
      /\ b = <<[Top EXCEPT !.todo = todo]>> \o Tail(stack)
  BY TakesDoing
<1> HIDE DEF b, todo
<1>3. Len(departures) = Cardinality(LeavesIn(q2)) + (IF todo # <<>> /\ todo[1] = "left" THEN 1 ELSE 0)
  BY <1>2
<1> HIDE DEF q2
<1>4. Stacked(b, DOMAIN instances, m, left, q2, departures, storeQ) /\ Strict(b) /\ ~Open(b)
  BY <1>2, <1>3, SyncFrameOn
<1> HIDE DEF left
<1>5. /\ m' \in Models /\ m.nextGen <= m'.nextGen /\ ObjectsSound'
      /\ Stacked(stack', DOMAIN instances', m', left, q2, departures, storeQ)
  BY <1>1, <1>4, Commits
<1>6. SyncState(m', graph, record, recordMode, syncQ, departures) /\ StoreTyped'
  BY <1>1, <1>5, StatesLater DEF SyncTyped, StoreTyped
<1>7. SyncTyped'
  BY <1>6 DEF SyncTyped, SyncState
<1>8. StackSound'
  BY <1>5 DEF StackSound, left, q2
<1> QED BY <1>5, <1>6, <1>7, <1>8 DEF LifecycleInv

LEMMA AskedKeeps ==
  ASSUME LifecycleInv, ReloadDoc \/ EnsureDoc PROVE LifecycleInv'
<1>1. /\ OnTop("sync") /\ Top.todo # <<>> /\ Head(Top.todo) # "left" /\ dead' = dead
      /\ UNCHANGED <<graph, record, recordMode, departures, store, releasing, storeQ>>
  BY DEF ReloadDoc, EnsureDoc, SyncDoes, sync, storage, queues
<1>2. m \in Models /\ syncQ \in Seq(SyncMessage)
  BY DEF LifecycleInv, SyncTyped, SyncState
<1>3. ASSUME NEW s, StepOf(m, s), Commit(s, Rest), syncQ' = syncQ PROVE LifecycleInv'
  <2>1. syncQ' \in Seq(SyncMessage) /\ Cardinality(LeavesIn(syncQ')) = Cardinality(LeavesIn(syncQ))
    BY <1>2, <1>3
  <2> QED BY <1>1, <1>3, <2>1, StepsOfSync
<1>4. CASE ReloadDoc
  <2>1. Commit(Reload(m), Rest) /\ syncQ' = syncQ
    BY <1>4 DEF ReloadDoc, queues
  <2> QED BY <1>2, <1>3, <2>1, ReloadStep
<1>5. CASE EnsureDoc
  <2>1. CASE Commit(Get(m, "create", TRUE), Rest) /\ UNCHANGED syncQ
    <3>1. StepOf(m, Get(m, "create", TRUE))
      BY <1>2, GetStep
    <3> QED BY <1>3, <2>1, <3>1
  <2>2. CASE Commit(Replicate(m), Rest) /\ UNCHANGED syncQ
    BY <1>2, <1>3, <2>2, ReplicateStep
  <2>3. CASE Commit(Defer(m), Rest) /\ syncQ' = Append(syncQ, [type |-> "defer"])
    <3> DEFINE msg == [type |-> "defer"]
               s == Defer(m)
    <3>1. msg \in SyncMessage /\ msg.type # "leave"
      BY MessageTyped
    <3>2. StepOf(m, s) /\ Commit(s, Rest) /\ syncQ' = Append(syncQ, msg)
      BY <1>2, <2>3, DeferStep
    <3> HIDE DEF msg, s
    <3>3. syncQ' \in Seq(SyncMessage)
      BY <1>2, <3>1, <3>2, Appending
    <3>4. Cardinality(LeavesIn(syncQ')) = Cardinality(LeavesIn(syncQ))
      <4>1. Cardinality(LeavesIn(syncQ)) \in Nat
        BY <1>2, LeavesFinite
      <4> QED BY <1>2, <3>1, <3>2, <4>1, LeavesQueued
    <3> QED BY <1>1, <3>2, <3>3, <3>4, StepsOfSync
  <2>4. CASE stack' = Rest /\ UNCHANGED <<m, instances, syncQ>>
    <3>1. Len(departures) = Cardinality(LeavesIn(syncQ))
      BY <1>1, TakesDoing
    <3>2. Stacked(Rest, DOMAIN instances, m, LeftWith(departures), syncQ, departures, storeQ)
      BY <1>1, <3>1, RestOfSync
    <3>3. StackSound'
      BY <1>1, <2>4, <3>2 DEF StackSound
    <3> QED BY <1>1, <2>4, <3>3, Kept DEF LifecycleInv
  <2> QED BY <1>5, <2>1, <2>2, <2>3, <2>4 DEF EnsureDoc
<1> QED BY <1>4, <1>5

LEMMA EndsKeep ==
  ASSUME LifecycleInv, EndSync \/ EndStore PROVE LifecycleInv'
<1>1. /\ stack # <<>> /\ stack' = Tail(stack) /\ Top = Head(stack) /\ Top.todo = <<>>
      /\ (Top.kind = "sync" /\ syncQ = <<>>) \/ (Top.kind = "store" /\ storeQ = <<>>)
      /\ UNCHANGED <<m, instances, dead, graph, record, recordMode, departures, syncQ, store, releasing, storeQ>>
  BY DEF EndSync, EndStore, OnTop, Top, runtime, sync, storage, queues
<1>2. Stacked(stack, DOMAIN instances, m, LeftWith(departures), syncQ, departures, storeQ) /\ m \in Models
      /\ departures \in Seq(Departure(m))
  BY DEF LifecycleInv, StackSound, SyncTyped, SyncState
<1>3. Top.kind = "sync" => LeftWith(departures) = {}
  <2> SUFFICES ASSUME Top.kind = "sync" PROVE LeftWith(departures) = {}
    OBVIOUS
  <2>1. IsOn(stack, Top, Tail(stack)) /\ ~Lets(Top) /\ syncQ = <<>>
    BY <1>1, <1>2, PopOn DEF Stacked, Lets
  <2>2. Len(departures) = 0
    BY <1>2, <2>1, SyncOn, LeavesNone DEF Stacked
  <2>3. DOMAIN departures = {}
    BY <1>2, <2>2, SeqFacts
  <2> QED BY <2>3 DEF LeftWith
<1>4. Stacked(Tail(stack), DOMAIN instances, m, LeftWith(departures), syncQ, departures, storeQ)
  BY <1>1, <1>2, <1>3, PopTop
<1>5. StackSound'
  BY <1>1, <1>4 DEF StackSound
<1> QED BY <1>1, <1>5, Kept DEF LifecycleInv

-----------------------------------------------------------------------------
(* The store program.                                                      *)

WriteKinds == {"none", "register", "since", "compact"}
StoreSteps == [phase : StorePhase, write : WriteKinds, persisted : {Nothing, "held"}, retry : BOOLEAN]

LEMMA IgnoredTyped == ASSUME NEW p \in StorePhase PROVE Ignored(p) \in StoreSteps /\ Ignored(p).phase = p /\ Ignored(p).persisted = Nothing
<1> DEFINE none == Nothing
<1>1. none \in {Nothing, "held"} /\ Ignored(p) = [phase |-> p, write |-> "none", persisted |-> none, retry |-> FALSE]
  BY DEF Ignored, Step
<1> HIDE DEF none
<1>2. Ignored(p) \in StoreSteps
  BY <1>1 DEF StoreSteps, WriteKinds
<1> QED BY <1>1, <1>2 DEF none

LEMMA StartTyped ==
  ASSUME NEW p \in StorePhase, NEW owed
  PROVE  LET s == Start(p, owed) IN s \in StoreSteps /\ s.phase.status = "writing" /\ s.persisted = Nothing
<1> DEFINE none == Nothing
           w == [p EXCEPT !.status = "writing", !.owed = "none"]
           kind == WriteKind(p, owed)
           s == Start(p, owed)
<1>1. none \in {Nothing, "held"} /\ s = [phase |-> w, write |-> kind, persisted |-> none, retry |-> FALSE]
  BY DEF Start, Step
<1>2. w \in StorePhase /\ w.status = "writing"
  BY DEF StorePhase
<1>3. kind \in WriteKinds
  BY DEF WriteKind, WriteKinds
<1> HIDE DEF none, w, kind, s
<1>4. s \in StoreSteps /\ s.phase = w /\ s.persisted = none
  BY <1>1, <1>2, <1>3 DEF StoreSteps
<1> QED BY <1>2, <1>4 DEF none, s

LEMMA RequestTyped ==
  ASSUME NEW p \in StorePhase, NEW owed
  PROVE  LET s == Request(p, owed) IN s \in StoreSteps /\ s.phase.status = "writing" /\ s.persisted = Nothing
<1>1. CASE p.status = "writing"
  <2> DEFINE o == JoinOwed(p.owed, owed)
             x == [p EXCEPT !.owed = o]
  <2>1. x \in StorePhase /\ x.status = "writing"
    <3>1. o \in {"none", "advance", "compact"}
      BY DEF JoinOwed
    <3> HIDE DEF o
    <3> QED BY <1>1, <3>1 DEF StorePhase
  <2>2. Request(p, owed) = Ignored(x)
    BY <1>1 DEF Request
  <2> HIDE DEF x
  <2> QED BY <2>1, <2>2, IgnoredTyped
<1>2. CASE p.status # "writing"
  BY <1>2, StartTyped DEF Request
<1> QED BY <1>1, <1>2

LEMMA SettledTyped == \A v \in {Nothing, "held"}, f \in Nat : SettledAt(v, f) \in StorePhase /\ SettledAt(v, f).failures = f
<1> SUFFICES ASSUME NEW v \in {Nothing, "held"}, NEW f \in Nat PROVE SettledAt(v, f) \in StorePhase /\ SettledAt(v, f).failures = f
  OBVIOUS
<1> QED BY DEF SettledAt, StorePhase

LEMMA SettleTyped ==
  ASSUME NEW p \in StorePhase, NEW settled \in StorePhase
  PROVE  LET s == SettleWrite(p, settled) IN
         s \in StoreSteps /\ (s.phase.status = "writing" \/ s.phase = settled) /\ s.persisted = Nothing
<1>1. CASE p.owed = "none"
  BY <1>1, IgnoredTyped DEF SettleWrite
<1>2. CASE p.owed # "none"
  BY <1>2, StartTyped DEF SettleWrite
<1> QED BY <1>1, <1>2

\* What the program does with an input.  One that is plain persists and releases nothing.
LEMMA ProgramTyped ==
  ASSUME m \in Models, StoreTyped, NEW input \in StoreInputs(m)
  PROVE  LET s == ProgramStep(input)
             gen == ReleasingAfter(input)
         IN /\ s \in StoreSteps /\ gen \in 0 .. (m.nextGen - 1)
            /\ input.type \in Plain => s.persisted = Nothing /\ (gen # 0 => ~StoredEntirely(s.phase))
<1> DEFINE s == ProgramStep(input)
           gen == ReleasingAfter(input)
<1>1. store \in StorePhase /\ releasing \in 0 .. (m.nextGen - 1) /\ (releasing # 0 => ~StoredEntirely(store))
  BY DEF StoreTyped, StoreState
<1>2. /\ input.type \in {"hydrated", "register", "destroy", "keep", "state-advanced", "release", "write-succeeded", "write-failed"}
      /\ input.gen \in 0 .. (m.nextGen - 1)
  BY DEF StoreInputs
<1>3. gen \in 0 .. (m.nextGen - 1)
  <2>1. gen \in {input.gen, releasing} \/ gen = 0
    BY DEF ReleasingAfter
  <2>2. 0 \in 0 .. (m.nextGen - 1)
    BY ModelFacts
  <2> QED BY <1>1, <1>2, <2>1, <2>2
<1>4. \A phase : phase.status = "writing" => ~StoredEntirely(phase)
  BY DEF StoredEntirely
<1>5. Untracked \in StorePhase
  BY DEF Untracked, StorePhase
<1>6. CASE input.type = "register"
  <2> DEFINE p == IF store.status = "untracked" THEN SettledAt(Nothing, 0) ELSE store
  <2>1. p \in StorePhase
    BY <1>1, SettledTyped
  <2>2. s = Request(p, "advance")
    BY <1>6 DEF ProgramStep, OnRegister
  <2> HIDE DEF s, p
  <2>3. s \in StoreSteps /\ s.phase.status = "writing" /\ s.persisted = Nothing
    BY <2>1, <2>2, RequestTyped
  <2> QED BY <1>3, <1>4, <2>3 DEF s
<1>7. CASE input.type = "hydrated"
  <2> DEFINE p == SettledAt("held", 0)
  <2>1. p \in StorePhase
    BY <1>1, SettledTyped
  <2>2. s = Request(p, "advance")
    BY <1>7 DEF ProgramStep, OnHydrated
  <2> HIDE DEF s, p
  <2>3. s \in StoreSteps /\ s.phase.status = "writing" /\ s.persisted = Nothing
    BY <2>1, <2>2, RequestTyped
  <2> QED BY <1>3, <1>4, <2>3 DEF s
<1>8. CASE input.type = "state-advanced"
  <2>1. s = Ignored(store) \/ s = Request(store, "advance")
    BY <1>8 DEF ProgramStep, OnStateAdvanced
  <2>2. s \in StoreSteps
    BY <1>1, <2>1, RequestTyped, IgnoredTyped
  <2> QED BY <1>3, <1>8, <2>2 DEF Plain
<1>9. CASE input.type = "destroy"
  <2>1. s = Ignored(Untracked)
    BY <1>9 DEF ProgramStep, OnDestroy
  <2>2. s \in StoreSteps
    BY <1>5, <2>1, IgnoredTyped
  <2> QED BY <1>3, <1>9, <2>2 DEF Plain
<1>10. CASE input.type \in {"release", "keep"}
  <2>1. s = Ignored(store)
    BY <1>10 DEF ProgramStep
  <2>2. s \in StoreSteps /\ s.persisted = Nothing
    BY <1>1, <2>1, IgnoredTyped
  <2>3. input.type = "keep" => gen = 0
    BY DEF ReleasingAfter
  <2> QED BY <1>3, <1>10, <2>2, <2>3 DEF Plain
<1>11. CASE input.type = "write-succeeded"
  <2>1. s \in StoreSteps
    <3>1. CASE store.status # "writing"
      <4>1. s = Ignored(store)
        BY <1>11, <3>1 DEF ProgramStep, OnWriteSucceeded
      <4> QED BY <1>1, <4>1, IgnoredTyped
    <3>2. CASE store.status = "writing"
      <4> DEFINE w == SettleWrite(store, SettledAt("held", 0))
      <4>1. s = [w EXCEPT !.persisted = "held"]
        BY <1>11, <3>2 DEF ProgramStep, OnWriteSucceeded
      <4>2. w \in StoreSteps
        BY <1>1, SettledTyped, SettleTyped
      <4> HIDE DEF w, s
      <4> QED BY <4>1, <4>2 DEF StoreSteps
    <3> QED BY <3>1, <3>2
  <2> QED BY <1>3, <1>11, <2>1 DEF Plain
<1>12. CASE input.type = "write-failed"
  <2>1. gen = releasing
    BY <1>12 DEF ReleasingAfter
  <2>2. CASE store.status # "writing"
    <3>1. s = Ignored(store)
      BY <1>12, <2>2 DEF ProgramStep, OnWriteFailed
    <3> HIDE DEF s
    <3>2. s \in StoreSteps /\ s.persisted = Nothing /\ s.phase = store
      BY <1>1, <3>1, IgnoredTyped
    <3> QED BY <1>1, <1>3, <2>1, <3>2 DEF s
  <2>3. CASE store.status = "writing"
    <3> DEFINE f == store.failures + 1
               settled == SettledAt(store.version, f)
               w == SettleWrite(store, settled)
               again == store.owed = "none"
    <3>1. s = [w EXCEPT !.retry = again] /\ again \in BOOLEAN
      BY <1>12, <2>3 DEF ProgramStep, OnWriteFailed
    <3>2. settled \in StorePhase /\ settled.failures # 0
      <4>1. f \in Nat /\ f # 0 /\ store.version \in {Nothing, "held"}
        BY <1>1 DEF StorePhase
      <4> HIDE DEF f
      <4> QED BY <4>1, SettledTyped
    <3> HIDE DEF settled
    <3>3. w \in StoreSteps /\ (w.phase.status = "writing" \/ w.phase = settled) /\ w.persisted = Nothing
      BY <1>1, <3>2, SettleTyped
    <3>4. ~StoredEntirely(w.phase)
      BY <1>4, <3>2, <3>3 DEF StoredEntirely
    <3> HIDE DEF w, s, again
    <3>5. s \in StoreSteps /\ s.phase = w.phase /\ s.persisted = w.persisted
      BY <3>1, <3>3 DEF StoreSteps
    <3> QED BY <1>3, <3>3, <3>4, <3>5 DEF s
  <2> QED BY <2>2, <2>3
<1> QED BY <1>2, <1>6, <1>7, <1>8, <1>9, <1>10, <1>11, <1>12

\* The frame of the store program's dispatcher on top, with another todo.
LEMMA StoreFrameOn ==
  ASSUME LifecycleInv, OnTop("store"), NEW todo \in Seq(StoreEffects(m)), NEW sq2,
         PlainStore(Top, storeQ) => (\A k \in DOMAIN todo : todo[k].do \in {"persist", "retry"}) /\ \A k \in DOMAIN sq2 : sq2[k].type \in Plain,
         NEW r, r = <<[Top EXCEPT !.todo = todo]>> \o Tail(stack)
  PROVE  /\ Stacked(r, DOMAIN instances, m, LeftWith(departures), syncQ, departures, sq2)
         /\ ~PlainStore(Top, storeQ) => Strict(r) /\ ~Open(r)
<1> DEFINE h == [Top EXCEPT !.todo = todo]
<1>1. Stacked(stack, DOMAIN instances, m, LeftWith(departures), syncQ, departures, storeQ) /\ m \in Models
  BY DEF LifecycleInv, StackSound
<1>2. stack # <<>> /\ Head(stack).kind = "store" /\ Top = Head(stack)
  BY DEF OnTop, Top
<1>3. Head(stack) \in Frames(m)
  BY <1>1, <1>2, PopOn DEF Stacked
<1>4. h \in Frames(m) /\ h.kind = "store" /\ h.todo = todo
  <2>1. Top \in Frames(m) /\ Top.kind = "store" /\ Top.kind # "step" /\ Top.kind # "sync" /\ Top.kind # "app"
    BY <1>2, <1>3
  <2>2. h \in Frames(m) /\ h.kind = Top.kind /\ h.todo = todo
    BY <1>1, <2>1, WithTodo, Zenon
  <2> QED BY <2>1, <2>2
<1>5. r = <<h>> \o Tail(stack)
  OBVIOUS
<1> HIDE DEF h
<1>6. PlainStore(Head(stack), storeQ) => PlainStore(h, sq2)
  BY <1>2, <1>4 DEF PlainStore
<1> QED BY <1>1, <1>2, <1>4, <1>5, <1>6, SwapStore

\* The next effect of the store program is taken; it may be asked for one more input.
LEMMA TakesStoreEffect ==
  ASSUME LifecycleInv, OnTop("store"), Top.todo # <<>>, NEW sq2,
         (\A k \in DOMAIN storeQ : storeQ[k].type \in Plain) => \A k \in DOMAIN sq2 : sq2[k].type \in Plain
  PROVE  /\ Stacked(Rest, DOMAIN instances, m, LeftWith(departures), syncQ, departures, sq2)
         /\ E.do \notin {"persist", "retry"} => Strict(Rest) /\ ~Open(Rest)
         /\ E \in StoreEffects(m)
<1> DEFINE t == Top.todo
           todo == Tail(t)
           r == Rest
<1>1. Stacked(stack, DOMAIN instances, m, LeftWith(departures), syncQ, departures, storeQ) /\ m \in Models
  BY DEF LifecycleInv, StackSound
<1>2. stack # <<>> /\ Top = Head(stack) /\ Top.kind = "store"
  BY DEF OnTop, Top
<1>3. Top \in Frames(m)
  BY <1>1, <1>2, PopOn DEF Stacked
<1>4. t \in Seq(StoreEffects(m)) /\ t # <<>>
  BY <1>1, <1>2, <1>3, FrameFacts
<1>5. r = <<[Top EXCEPT !.todo = todo]>> \o Tail(stack) /\ E = Head(t)
  BY DEF Rest, E
<1>6. PlainStore(Top, storeQ) => (\A k \in DOMAIN t : t[k].do \in {"persist", "retry"}) /\ \A k \in DOMAIN storeQ : storeQ[k].type \in Plain
  BY DEF PlainStore
<1> HIDE DEF t
<1>7. /\ Head(t) = t[1] /\ 1 \in DOMAIN t /\ t[1] \in StoreEffects(m) /\ todo \in Seq(StoreEffects(m)) /\ Len(t) \in Nat \ {0}
      /\ DOMAIN t = 1 .. Len(t) /\ DOMAIN todo = 1 .. (Len(t) - 1) /\ \A i \in 1 .. (Len(t) - 1) : todo[i] = t[i + 1]
  BY <1>4, Popping
<1> HIDE DEF todo, r
<1>8. PlainStore(Top, storeQ) => (\A k \in DOMAIN todo : todo[k].do \in {"persist", "retry"}) /\ \A k \in DOMAIN sq2 : sq2[k].type \in Plain
  <2>1. ASSUME \A k \in DOMAIN t : t[k].do \in {"persist", "retry"}, NEW k \in DOMAIN todo PROVE todo[k].do \in {"persist", "retry"}
    <3>1. k + 1 \in DOMAIN t /\ todo[k] = t[k + 1]
      BY <1>7
    <3> QED BY <2>1, <3>1
  <2> QED BY <1>6, <2>1
<1>9. E.do \notin {"persist", "retry"} => ~PlainStore(Top, storeQ)
  BY <1>5, <1>6, <1>7
<1>10. /\ Stacked(r, DOMAIN instances, m, LeftWith(departures), syncQ, departures, sq2)
       /\ ~PlainStore(Top, storeQ) => Strict(r) /\ ~Open(r)
  BY <1>5, <1>7, <1>8, StoreFrameOn
<1>11. E \in StoreEffects(m)
  BY <1>5, <1>7
<1> QED BY <1>9, <1>10, <1>11 DEF r

\* Effects of the store program.
LEMMA StoreEffectIn ==
  ASSUME m \in Models
  PROVE  /\ \A do \in {"persisted", "retry", "delete"} : Named(do, 0) \in StoreEffects(m) /\ Named(do, 0).do = do
         /\ \A gen \in 0 .. (m.nextGen - 1) : Named("released", gen) \in StoreEffects(m)
         /\ \A arg \in {"register", "since", "compact"} :
              Effect("persist", 0, arg, FALSE, 0) \in StoreEffects(m) /\ Effect("persist", 0, arg, FALSE, 0).do = "persist"
<1>1. 0 \in 0 .. (m.nextGen - 1)
  BY ModelFacts
<1>2. ASSUME NEW do \in {"persisted", "persist", "retry", "delete", "released"}, NEW gen \in 0 .. (m.nextGen - 1),
             NEW arg \in {"", "register", "since", "compact"}
      PROVE  Effect(do, gen, arg, FALSE, 0) \in StoreEffects(m) /\ Effect(do, gen, arg, FALSE, 0).do = do
  BY DEF Effect, StoreEffects
<1>3. \A do \in {"persisted", "retry", "delete"} : Named(do, 0) \in StoreEffects(m) /\ Named(do, 0).do = do
  BY <1>1, <1>2 DEF Named
<1>4. \A gen \in 0 .. (m.nextGen - 1) : Named("released", gen) \in StoreEffects(m)
  BY <1>2 DEF Named
<1>5. \A arg \in {"register", "since", "compact"} :
        Effect("persist", 0, arg, FALSE, 0) \in StoreEffects(m) /\ Effect("persist", 0, arg, FALSE, 0).do = "persist"
  BY <1>1, <1>2
<1> QED BY <1>3, <1>4, <1>5

LEMMA TransitionKeeps ==
  ASSUME LifecycleInv, StoreTransition PROVE LifecycleInv'
<1> DEFINE input == Head(storeQ)
           s == ProgramStep(input)
           gen == ReleasingAfter(input)
           frees == gen # 0 /\ StoredEntirely(s.phase)
           a == When(s.persisted # Nothing, <<Named("persisted", 0)>>)
           b == When(s.write # "none", <<Effect("persist", 0, s.write, FALSE, 0)>>)
           c == When(s.retry, <<Named("retry", 0)>>)
           e == When(input.type = "destroy", <<Named("delete", 0)>>)
           f == When(frees, <<Named("released", gen)>>)
           ab == a \o b
           abc == ab \o c
           abce == abc \o e
           todo == abce \o f
           q2 == Tail(storeQ)
<1>1. /\ OnTop("store") /\ Top.todo = <<>> /\ storeQ # <<>>
      /\ store' = (IF frees THEN Untracked ELSE s.phase) /\ releasing' = (IF frees THEN 0 ELSE gen)
      /\ stack' = <<[Top EXCEPT !.todo = todo]>> \o Tail(stack)
      /\ storeQ' = q2
      /\ UNCHANGED <<m, instances, dead, graph, record, recordMode, departures, syncQ>>
  BY DEF StoreTransition, runtime, sync
<1>2. m \in Models /\ StoreTyped /\ storeQ \in Seq(StoreInputs(m))
  BY DEF LifecycleInv, StoreTyped, StoreState
<1>3. /\ input \in StoreInputs(m) /\ q2 \in Seq(StoreInputs(m)) /\ input = storeQ[1] /\ 1 \in DOMAIN storeQ
      /\ \A k \in DOMAIN q2 : k + 1 \in DOMAIN storeQ /\ q2[k] = storeQ[k + 1]
  <2>1. /\ Len(storeQ) \in Nat \ {0} /\ DOMAIN storeQ = 1 .. Len(storeQ)
        /\ DOMAIN q2 = 1 .. (Len(storeQ) - 1) /\ \A i \in 1 .. (Len(storeQ) - 1) : q2[i] = storeQ[i + 1]
    BY <1>1, <1>2, Popping
  <2>2. input \in StoreInputs(m) /\ q2 \in Seq(StoreInputs(m)) /\ input = storeQ[1] /\ 1 \in DOMAIN storeQ
    BY <1>1, <1>2, Popping
  <2> HIDE DEF q2
  <2>3. \A k \in DOMAIN q2 : k + 1 \in DOMAIN storeQ /\ q2[k] = storeQ[k + 1]
    BY <2>1
  <2> QED BY <2>2, <2>3
<1> HIDE DEF input, q2
<1>4. /\ s \in StoreSteps /\ gen \in 0 .. (m.nextGen - 1)
      /\ input.type \in Plain => s.persisted = Nothing /\ (gen # 0 => ~StoredEntirely(s.phase))
  BY <1>2, <1>3, ProgramTyped
<1>5. s.phase \in StorePhase /\ s.write \in WriteKinds /\ s.persisted \in {Nothing, "held"} /\ s.retry \in BOOLEAN
  BY <1>4 DEF StoreSteps
<1> HIDE DEF s, gen
<1>6. /\ a \in Seq(StoreEffects(m)) /\ b \in Seq(StoreEffects(m)) /\ c \in Seq(StoreEffects(m))
      /\ e \in Seq(StoreEffects(m)) /\ f \in Seq(StoreEffects(m))
  <2> DEFINE w == Effect("persist", 0, s.write, FALSE, 0)
  <2>1. s.write # "none" => w \in StoreEffects(m)
    BY <1>2, <1>5, StoreEffectIn DEF WriteKinds
  <2> HIDE DEF w
  <2>2. b = When(s.write # "none", <<w>>)
    BY DEF w
  <2> HIDE DEF b
  <2>3. b \in Seq(StoreEffects(m))
    BY <2>1, <2>2, WhenIn
  <2> HIDE DEF frees
  <2>4. a \in Seq(StoreEffects(m))
    BY <1>2, StoreEffectIn, WhenIn
  <2>5. c \in Seq(StoreEffects(m))
    BY <1>2, StoreEffectIn, WhenIn
  <2>6. e \in Seq(StoreEffects(m))
    BY <1>2, StoreEffectIn, WhenIn
  <2>7. f \in Seq(StoreEffects(m))
    BY <1>2, <1>4, StoreEffectIn, WhenIn
  <2> QED BY <2>3, <2>4, <2>5, <2>6, <2>7
<1>7. input.type \in Plain => a = <<>> /\ e = <<>> /\ f = <<>> /\ ~frees
  BY <1>4 DEF When, Plain
<1> DEFINE quiet == {x \in StoreEffects(m) : x.do \in {"persist", "retry"}}
<1>8. input.type \in Plain => a \in Seq(quiet) /\ b \in Seq(quiet) /\ c \in Seq(quiet) /\ e \in Seq(quiet) /\ f \in Seq(quiet)
  <2> DEFINE w == Effect("persist", 0, s.write, FALSE, 0)
  <2>1. s.write # "none" => w \in quiet
    BY <1>2, <1>5, StoreEffectIn DEF WriteKinds
  <2>2. Named("retry", 0) \in quiet
    BY <1>2, StoreEffectIn
  <2> HIDE DEF w, quiet
  <2>3. b = When(s.write # "none", <<w>>)
    BY DEF w
  <2> HIDE DEF b
  <2>4. b \in Seq(quiet)
    BY <2>1, <2>3, WhenIn
  <2>5. c \in Seq(quiet)
    BY <2>2, WhenIn
  <2> HIDE DEF a, c, e, f
  <2>6. <<>> \in Seq(quiet)
    BY EmptySeq
  <2> QED BY <1>7, <2>4, <2>5, <2>6
<1> HIDE DEF a, b, c, e, f, quiet
<1>9. ASSUME NEW S, a \in Seq(S), b \in Seq(S), c \in Seq(S), e \in Seq(S), f \in Seq(S) PROVE todo \in Seq(S)
  <2>1. ab \in Seq(S)
    BY <1>9, BothIn
  <2> HIDE DEF ab
  <2>2. abc \in Seq(S)
    BY <1>9, <2>1, BothIn
  <2> HIDE DEF abc
  <2>3. abce \in Seq(S)
    BY <1>9, <2>2, BothIn
  <2> HIDE DEF abce
  <2> QED BY <1>9, <2>3, BothIn
<1> HIDE DEF todo
<1>10. todo \in Seq(StoreEffects(m)) /\ (input.type \in Plain => todo \in Seq(quiet))
  BY <1>6, <1>8, <1>9
<1>11. PlainStore(Top, storeQ) => (\A k \in DOMAIN todo : todo[k].do \in {"persist", "retry"}) /\ \A k \in DOMAIN q2 : q2[k].type \in Plain
  <2> SUFFICES ASSUME \A k \in DOMAIN storeQ : storeQ[k].type \in Plain
               PROVE  (\A k \in DOMAIN todo : todo[k].do \in {"persist", "retry"}) /\ \A k \in DOMAIN q2 : q2[k].type \in Plain
    BY DEF PlainStore
  <2>1. input.type \in Plain
    BY <1>3
  <2>2. \A k \in DOMAIN todo : todo[k] \in quiet
    BY <1>10, <2>1, SeqFacts
  <2> QED BY <1>3, <2>2 DEF quiet
<1>12. Stacked(stack', DOMAIN instances, m, LeftWith(departures), syncQ, departures, q2)
  BY <1>1, <1>10, <1>11, StoreFrameOn
<1>13. StackSound'
  BY <1>1, <1>12 DEF StackSound
<1>14. StoreTyped'
  <2>1. Untracked \in StorePhase /\ 0 \in 0 .. (m.nextGen - 1)
    BY <1>2, ModelFacts DEF Untracked, StorePhase
  <2> QED BY <1>1, <1>3, <1>4, <1>5, <2>1 DEF StoreTyped, StoreState
<1> QED BY <1>1, <1>13, <1>14, Kept DEF LifecycleInv

\* The write reads the current instance; with none it fails at once.
LEMMA PersistKeeps ==
  ASSUME LifecycleInv, Persist PROVE LifecycleInv'
<1> DEFINE g == m.entry.gen
           v == [instances[g] EXCEPT !.fresh = FALSE]
           input == StoreInput("write-failed", 0)
<1>1. /\ OnTop("store") /\ Top.todo # <<>> /\ stack' = Rest
      /\ UNCHANGED <<m, dead, graph, record, recordMode, departures, syncQ, store, releasing>>
  BY DEF Persist, StoreDoes, sync
<1>2. /\ m \in Models /\ StoreTyped /\ ObjectsSound /\ storeQ \in Seq(StoreInputs(m))
  BY DEF LifecycleInv, StoreTyped, StoreState
<1>3. CASE Current \cap DOMAIN instances # {}
  <2>1. instances' = [instances EXCEPT ![g] = v] /\ storeQ' = storeQ /\ g \in DOMAIN instances
    BY <1>3 DEF Persist, Current
  <2>2. Stacked(Rest, DOMAIN instances, m, LeftWith(departures), syncQ, departures, storeQ)
    BY <1>1, TakesStoreEffect
  <2> HIDE DEF g
  <2>3. Objects(instances, m, dead) /\ instances[g] \in Instance
        /\ (instances[g].closed => g \notin Steady(m) /\ ~instances[g].wired)
    BY <1>2, <2>1 DEF ObjectsSound, Objects
  <2>4. v \in Instance /\ v.replica = instances[g].replica /\ v.closed = instances[g].closed /\ v.wired = instances[g].wired
    BY <2>3 DEF Instance
  <2> HIDE DEF v
  <2>5. Objects(instances', m, dead) /\ DOMAIN instances' = DOMAIN instances
    BY <2>1, <2>3, <2>4, ObjectChanged
  <2>6. ObjectsSound' /\ m' \in Models /\ StackSound'
    BY <1>1, <1>2, <2>1, <2>2, <2>5 DEF ObjectsSound, StackSound
  <2> QED BY <1>1, <2>1, <2>6, Kept DEF LifecycleInv
<1>4. CASE Current \cap DOMAIN instances = {}
  <2>1. instances' = instances /\ storeQ' = Append(storeQ, input)
    BY <1>4 DEF Persist
  <2>2. input \in StoreInputs(m) /\ input.type = "write-failed"
    <3>1. 0 \in 0 .. (m.nextGen - 1)
      BY <1>2, ModelFacts
    <3> QED BY <1>2, <3>1, InputTyped
  <2> DEFINE q2 == Append(storeQ, input)
  <2> HIDE DEF input
  <2>3. /\ q2 \in Seq(StoreInputs(m)) /\ DOMAIN storeQ = 1 .. Len(storeQ) /\ Len(storeQ) \in Nat /\ DOMAIN q2 = 1 .. (Len(storeQ) + 1)
        /\ (\A i \in 1 .. Len(storeQ) : q2[i] = storeQ[i]) /\ q2[Len(storeQ) + 1] = input
    BY <1>2, <2>2, Appending
  <2> HIDE DEF q2
  <2>4. ASSUME \A k \in DOMAIN storeQ : storeQ[k].type \in Plain, NEW k \in DOMAIN q2 PROVE q2[k].type \in Plain
    <3>1. k \in DOMAIN storeQ \/ k = Len(storeQ) + 1
      BY <2>3
    <3> QED BY <2>2, <2>3, <2>4, <3>1 DEF Plain
  <2>5. Stacked(Rest, DOMAIN instances, m, LeftWith(departures), syncQ, departures, q2)
    BY <1>1, <2>4, TakesStoreEffect
  <2>6. StackSound' /\ StoreTyped'
    BY <1>1, <1>2, <2>1, <2>3, <2>5 DEF StackSound, StoreTyped, StoreState, q2
  <2> QED BY <1>1, <2>1, <2>6, Kept DEF LifecycleInv
<1> QED BY <1>3, <1>4

LEMMA StoreEffectsKeep ==
  ASSUME LifecycleInv, Persisted \/ ArmRetry \/ Delete \/ Release PROVE LifecycleInv'
<1>1. /\ OnTop("store") /\ Top.todo # <<>>
      /\ UNCHANGED <<dead, graph, record, recordMode, departures, syncQ, store, releasing, storeQ>>
  BY DEF Persisted, ArmRetry, Delete, Release, StoreDoes, runtime, sync, storage, queues
<1>2. /\ Stacked(Rest, DOMAIN instances, m, LeftWith(departures), syncQ, departures, storeQ)
      /\ E.do \notin {"persist", "retry"} => Strict(Rest) /\ ~Open(Rest)
  BY <1>1, TakesStoreEffect
<1>3. m \in Models /\ ObjectsSound /\ SyncTyped /\ StoreTyped
  BY DEF LifecycleInv
<1>4. CASE ArmRetry \/ Delete
  <2>1. stack' = Rest /\ UNCHANGED <<m, instances>>
    BY <1>4 DEF ArmRetry, Delete, runtime
  <2>2. StackSound'
    BY <1>1, <1>2, <2>1 DEF StackSound
  <2> QED BY <1>1, <2>1, <2>2, Kept DEF LifecycleInv
<1>5. CASE Persisted
  <2>1. /\ E.do = "persisted" /\ UNCHANGED <<m, instances>>
        /\ stack' = CallBack("persisted", IF IsHeld(m.entry) THEN m.entry.tier ELSE "none", Rest)
    BY <1>5 DEF Persisted, StoreDoes, runtime
  <2>2. Stacked(stack', DOMAIN instances, m, LeftWith(departures), syncQ, departures, storeQ)
    BY <1>2, <1>3, <2>1, CallApp DEF CallBack
  <2>3. StackSound'
    BY <1>1, <2>1, <2>2 DEF StackSound
  <2> QED BY <1>1, <2>1, <2>3, Kept DEF LifecycleInv
<1>6. CASE Release
  <2> DEFINE s == Released(m, E.gen)
             left == LeftWith(departures)
             b == Rest
  <2>1. Commit(s, b) /\ E.do = "released"
    BY <1>6 DEF Release, StoreDoes
  <2>2. StepOf(m, s)
    BY <1>3, ReleasedStep
  <2> HIDE DEF s
  <2>3. Stacked(b, DOMAIN instances, m, left, syncQ, departures, storeQ) /\ Strict(b) /\ ~Open(b)
    BY <1>2, <2>1
  <2> HIDE DEF left, b
  <2>4. /\ m' \in Models /\ m.nextGen <= m'.nextGen /\ ObjectsSound'
        /\ Stacked(stack', DOMAIN instances', m', left, syncQ, departures, storeQ)
    BY <1>1, <1>3, <2>1, <2>2, <2>3, Commits
  <2>5. SyncTyped' /\ StoreTyped'
    BY <1>1, <1>3, <2>4, StatesLater DEF SyncTyped, StoreTyped
  <2>6. StackSound'
    BY <1>1, <2>4 DEF StackSound, left
  <2> QED BY <2>4, <2>5, <2>6 DEF LifecycleInv
<1> QED BY <1>4, <1>5, <1>6

-----------------------------------------------------------------------------
(* The store's answers.                                                    *)

LEMMA InputOnEmpty ==
  ASSUME LifecycleInv, stack = <<>>, NEW type \in {"state-advanced", "write-succeeded", "write-failed"},
         ToStoreProgram(StoreInput(type, 0), stack), m' = m, dead' = dead, Objects(instances', m, dead),
         DOMAIN instances' = DOMAIN instances,
         UNCHANGED <<graph, record, recordMode, departures, syncQ, store, releasing>>
  PROVE  LifecycleInv'
<1> DEFINE input == StoreInput(type, 0)
<1>1. m \in Models /\ StoreTyped /\ StackSound
  BY DEF LifecycleInv
<1>2. input \in StoreInputs(m)
  <2>1. 0 \in 0 .. (m.nextGen - 1)
    BY <1>1, ModelFacts
  <2> QED BY <1>1, <2>1, InputTyped
<1>3. Strict(stack) /\ ~Open(stack) /\ ToStoreProgram(input, stack)
  BY <1>1, Clear
<1> HIDE DEF input
<1>4. Stacked(stack', DOMAIN instances, m, LeftWith(departures), syncQ, departures, storeQ') /\ storeQ' \in Seq(StoreInputs(m))
  BY <1>1, <1>2, <1>3, ToStoreOn DEF StackSound
<1>5. StackSound' /\ StoreTyped' /\ ObjectsSound'
  BY <1>1, <1>4 DEF StackSound, StoreTyped, StoreState, ObjectsSound
<1> QED BY <1>1, <1>5, Kept DEF LifecycleInv

LEMMA AnswersKeep ==
  ASSUME LifecycleInv, Answers PROVE LifecycleInv'
<1>1. m \in Models /\ Objects(instances, m, dead)
  BY DEF LifecycleInv, ObjectsSound
<1>2. CASE ReadEnds
  <2>1. /\ stack = <<>> /\ dead' = dead
        /\ UNCHANGED <<graph, record, recordMode, departures, syncQ, store, releasing, storeQ>>
    BY <1>2 DEF ReadEnds, CallEnds, sync, queues
  <2> DEFINE gen == Head(calls).gen
             outcome == IF disk THEN "stored" ELSE "empty"
  <2>2. UNCHANGED <<m, instances, stack>> \/ Commit(Loaded(m, gen, outcome), stack)
    BY <1>2 DEF ReadEnds
  <2>3. CASE UNCHANGED <<m, instances, stack>>
    <3>1. StackSound'
      BY <2>1, <2>3 DEF LifecycleInv, StackSound
    <3> QED BY <2>1, <2>3, <3>1, Kept DEF LifecycleInv
  <2>4. CASE Commit(Loaded(m, gen, outcome), stack)
    <3>1. outcome \in {"stored", "empty"}
      OBVIOUS
    <3> HIDE DEF gen, outcome
    <3> QED BY <1>1, <2>1, <2>4, <3>1, LoadedStep, Steps
  <2> QED BY <2>2, <2>3, <2>4
<1>3. CASE ReadFails
  <2>1. /\ stack = <<>> /\ dead' = dead
        /\ UNCHANGED <<graph, record, recordMode, departures, syncQ, store, releasing, storeQ>>
        /\ Commit(LoadFailed(m, Head(calls).gen), stack)
    BY <1>3 DEF ReadFails, CallEnds, sync, queues
  <2>2. StepOf(m, LoadFailed(m, Head(calls).gen))
    <3> DEFINE gen == Head(calls).gen
    <3> HIDE DEF gen
    <3>1. StepOf(m, LoadFailed(m, gen))
      BY <1>1, LoadedStep
    <3> QED BY <3>1 DEF gen
  <2> QED BY <2>1, <2>2, Steps
<1>4. CASE WriteEnds \/ RetryFires
  <2>1. /\ stack = <<>> /\ UNCHANGED <<m, instances, dead, graph, record, recordMode, departures, syncQ, store, releasing>>
        /\ \E type \in {"state-advanced", "write-succeeded", "write-failed"} : ToStoreProgram(StoreInput(type, 0), stack)
    BY <1>4 DEF WriteEnds, RetryFires, CallEnds, runtime, sync
  <2> QED BY <1>1, <2>1, InputOnEmpty
<1>5. CASE WriteFails
  <2>1. /\ stack = <<>> /\ ToStoreProgram(StoreInput("write-failed", 0), stack)
        /\ UNCHANGED <<m, dead, graph, record, recordMode, departures, syncQ, store, releasing>>
    BY <1>5 DEF WriteFails, CallEnds, sync
  <2> DEFINE carried(g) == instances[g].fresh \/ (g = Head(calls).gen /\ Head(calls).carries)
  <2>2. instances' = [g \in DOMAIN instances |-> [instances[g] EXCEPT !.fresh = carried(g)]]
    BY <1>5 DEF WriteFails
  <2>3. \A g \in DOMAIN instances : carried(g) \in BOOLEAN
    OBVIOUS
  <2> HIDE DEF carried
  <2>4. DOMAIN instances' = DOMAIN instances
    BY <2>2
  <2>5. ASSUME NEW g \in DOMAIN instances
        PROVE  /\ instances'[g] \in Instance /\ instances'[g].replica = instances[g].replica
               /\ instances'[g].closed = instances[g].closed /\ instances'[g].wired = instances[g].wired
    <3> DEFINE i == instances[g]
               c == carried(g)
    <3>1. i \in Instance /\ c \in BOOLEAN /\ instances'[g] = [i EXCEPT !.fresh = c]
      BY <1>1, <2>2, <2>3, <2>5 DEF Objects
    <3> HIDE DEF i, c
    <3>2. /\ [i EXCEPT !.fresh = c] \in Instance /\ [i EXCEPT !.fresh = c].replica = i.replica
          /\ [i EXCEPT !.fresh = c].closed = i.closed /\ [i EXCEPT !.fresh = c].wired = i.wired
      BY <3>1 DEF Instance
    <3> QED BY <3>1, <3>2 DEF i
  <2>6. Objects(instances', m, dead)
    BY <1>1, <2>4, <2>5 DEF Objects
  <2> QED BY <2>1, <2>4, <2>6, InputOnEmpty
<1>6. CASE DeleteEnds
  <2>1. UNCHANGED <<m, instances, dead, stack, graph, record, recordMode, departures, syncQ, store, releasing, storeQ>>
    BY <1>6 DEF DeleteEnds, runtime, sync, queues
  <2>2. StackSound'
    BY <2>1 DEF LifecycleInv, StackSound
  <2> QED BY <2>1, <2>2, Kept DEF LifecycleInv
<1> QED BY <1>2, <1>3, <1>4, <1>5, <1>6 DEF Answers

-----------------------------------------------------------------------------
(* The invariant, and what it gives.                                       *)

LEMMA InitInv == Init => LifecycleInv
<1> SUFFICES ASSUME Init PROVE LifecycleInv
  OBVIOUS
<1>1. PICK s \in Stores, h \in BOOLEAN : m = [InitialLifecycle(s) EXCEPT !.hooked = h]
  BY DEF Init
<1>2. /\ instances = [g \in {} |-> 0] /\ stack = <<>> /\ dead = {}
      /\ graph = NoEntry /\ record = 0 /\ recordMode = "none" /\ departures = <<>> /\ syncQ = <<>>
      /\ store = Untracked /\ releasing = 0 /\ storeQ = <<>>
  BY DEF Init
<1>3. s \in BOOLEAN
  BY LifecycleBounds
<1>4. m \in Models /\ m.nextGen = 1 /\ Live(m) = {}
  <2> DEFINE e == Absent
  <2>1. m = [entry |-> e, departing |-> {}, nextGen |-> 1, hooked |-> h, hasStore |-> s]
    BY <1>1 DEF InitialLifecycle
  <2>2. e \in EntryType /\ e.phase = "absent" /\ e.gen = 0 /\ ~IsHeld(e)
    BY BaseEntries DEF Absent, Entry, IsHeld, HeldPhases
  <2> HIDE DEF e
  <2>3. m.entry = e /\ m.departing = {} /\ m.nextGen = 1
    BY <2>1
  <2>4. m \in [entry : EntryType, departing : SUBSET Nat, nextGen : Nat \ {0}, hooked : BOOLEAN, hasStore : BOOLEAN]
    BY <1>3, <2>1, <2>2
  <2>5. Held(m) = {} /\ Live(m) = {} /\ Steady(m) = {}
    BY <2>2, <2>3 DEF Held, Live, Steady
  <2> QED BY <2>2, <2>3, <2>4, <2>5 DEF Models, Drafts
<1>5. SyncTyped
  <2>1. graph \in Graphs
    BY <1>2 DEF NoEntry, InGraph, Graphs
  <2>2. syncQ \in Seq(SyncMessage) /\ departures \in Seq(Departure(m))
    BY <1>2, EmptySeq
  <2> QED BY <1>2, <1>4, <2>1, <2>2 DEF SyncTyped, SyncState, Graphs
<1>6. StoreTyped
  <2>1. store \in StorePhase
    BY <1>2 DEF Untracked, StorePhase
  <2>2. storeQ \in Seq(StoreInputs(m))
    BY <1>2, EmptySeq
  <2> QED BY <1>2, <1>4, <2>1, <2>2 DEF StoreTyped, StoreState
<1>7. ObjectsSound
  <2>1. DOMAIN instances = {}
    BY <1>2
  <2> QED BY <1>2, <1>4, <2>1 DEF ObjectsSound, Objects
<1>8. StackSound
  <2>1. DOMAIN stack = {} /\ stack \in Seq(Frames(m))
    BY <1>2, EmptySeq
  <2>2. InTime(stack, DOMAIN instances, m, LeftWith(departures)) /\ UnderSync(stack, storeQ)
    BY <2>1 DEF InTime, UnderSync
  <2>3. OneSync(stack, syncQ) /\ Storing(stack, storeQ)
    BY <1>2, <2>1 DEF OneSync, Storing
  <2>4. Len(departures) = 0 /\ Cardinality(LeavesIn(syncQ)) = 0
    BY <1>2, LeavesNone, EmptySeq
  <2>5. Counted(stack, syncQ, departures)
    BY <2>1, <2>4 DEF Counted
  <2> QED BY <2>1, <2>2, <2>3, <2>5 DEF StackSound, Stacked, Syncing
<1> QED BY <1>4, <1>5, <1>6, <1>7, <1>8 DEF LifecycleInv

LEMMA NextInv == LifecycleInv /\ [Next]_vars => LifecycleInv'
<1> SUFFICES ASSUME LifecycleInv, [Next]_vars PROVE LifecycleInv'
  OBVIOUS
<1>1. CASE Runs
  <2>1. CASE SkipStale \/ ExecLocal \/ ExecLoad
    BY <2>1, QuietEffects
  <2>2. CASE ExecDrain \/ DrainLocalChanges
    BY <2>2, DrainsKeep
  <2>3. CASE ExecStore \/ ExecRegister \/ ExecWire \/ ExecLeaving \/ ExecLeave
    BY <2>3, ExecStoreKeeps, RegisterKeeps, WireKeeps, LeavingKeeps, LeaveKeeps
  <2>4. CASE ExecClose \/ ExecDispose \/ ExecNotifyLeave \/ ExecNotifyResume \/ EndStep
    BY <2>4, CloseKeeps, DisposeKeeps, NotifyLeaveKeeps, NotifyResumeKeeps, EndStepKeeps
  <2>5. CASE Routed \/ QueueTick \/ Tick \/ DocLeft \/ ReloadDoc \/ EnsureDoc \/ EndSync \/ EndStore
    BY <2>5, RoutedKeeps, QueueTickKeeps, TickKeeps, DocLeftKeeps, AskedKeeps, EndsKeep
  <2>6. CASE StoreTransition \/ Persist \/ Persisted \/ ArmRetry \/ Delete \/ Release \/ AppReturns
    BY <2>6, TransitionKeeps, PersistKeeps, StoreEffectsKeep, AppKeeps
  <2> QED BY <1>1, <2>1, <2>2, <2>3, <2>4, <2>5, <2>6 DEF Runs
<1>2. CASE Answers
  BY <1>2, AnswersKeep
<1>3. CASE Asks
  <2>1. CASE DoGet \/ DoReplicate \/ DoDestroy \/ DoSuspend \/ DoResume \/ DoUnload \/ SetHooks
    BY <2>1, DoorsKeep
  <2>2. CASE DoWrite \/ Reset \/ PeerAsks
    BY <2>2, WriteKeeps, ResetKeeps, PeerKeeps
  <2> QED BY <1>3, <2>1, <2>2 DEF Asks
<1>4. CASE UNCHANGED vars
  <2>1. UNCHANGED <<m, instances, dead, stack, graph, record, recordMode, departures, syncQ, store, releasing, storeQ>>
    BY <1>4 DEF vars, runtime, sync, storage, queues
  <2>2. StackSound'
    BY <2>1 DEF LifecycleInv, StackSound
  <2> QED BY <2>1, <2>2, Kept DEF LifecycleInv
<1> QED BY <1>1, <1>2, <1>3, <1>4 DEF Next

LEMMA InvSound == LifecycleInv => InstancesSound
<1> SUFFICES ASSUME LifecycleInv PROVE InstancesSound
  OBVIOUS
<1>1. m \in Models /\ Objects(instances, m, dead)
  BY DEF LifecycleInv, ObjectsSound
<1>2. LifecycleTypeOK
  <2>1. m.entry.phase \in HeldPhases \cup {"absent", "deferred", "unloaded"}
    BY <1>1, ModelFacts DEF EntryType, Phases
  <2>2. m.entry.gen \in 0 .. (m.nextGen - 1) /\ m.departing \subseteq 1 .. (m.nextGen - 1)
    BY <1>1, ModelFacts
  <2>3. \A g \in DOMAIN instances : instances[g].answer \in {"pending", "loaded", "failed", "closed"}
    BY <1>1 DEF Objects, Instance
  <2>4. dead \subseteq 1 .. (m.nextGen - 1)
    BY <1>1 DEF Objects
  <2>5. record \in 0 .. (m.nextGen - 1) /\ graph.mode \in {"absent", "deferred", "interpret", "replicate", "unloaded"}
    BY DEF LifecycleInv, SyncTyped, SyncState, Tier
  <2>6. store.status \in {"untracked", "settled", "writing"} /\ releasing \in 0 .. (m.nextGen - 1)
    BY DEF LifecycleInv, StoreTyped, StoreState, StorePhase
  <2> QED BY <2>1, <2>2, <2>3, <2>4, <2>5, <2>6 DEF LifecycleTypeOK
<1>3. ReplicasAlive /\ ClosedIsUnwired
  BY <1>1 DEF Objects, ReplicasAlive, ClosedIsUnwired
<1> QED BY <1>2, <1>3 DEF InstancesSound

\* At every moment, between any two effects and however the steps of a document nest in one another, no live instance
\* is on a replica that was disposed of or that another uses, and no instance that was closed is wired again.
THEOREM InstancesSoundCorrect == Spec => []InstancesSound
BY InitInv, NextInv, InvSound, PTL DEF Spec
=============================================================================
