---------------------------- MODULE BeliefProofs ----------------------------
(***************************************************************************)
(* Proofs about Lifecycle and the store, for every value of its constants: *)
(* what the lifecycle and the store program believe stored, the store      *)
(* holds, however callbacks nest and whatever fails.                       *)
(*                                                                         *)
(* LifecycleProofs has what a frame of the call stack may still do to the  *)
(* objects.  Here: what it has still to tell the store program, what that  *)
(* has still to do, and the store calls that are queued.                   *)
(***************************************************************************)
EXTENDS LifecycleProofs

-----------------------------------------------------------------------------
(* What is on its way to the store program, and from it.                   *)

\* The inputs of the store program that a frame has still to send, and the effects of it that one has still to run.
Told(f)  == IF f.kind = "step" THEN {f.todo[k].arg : k \in {k \in DOMAIN f.todo : f.todo[k].do = "store"}} ELSE {}
Tasks(f) == IF f.kind = "store" THEN {<<f.todo[k].do, f.todo[k].arg>> : k \in DOMAIN f.todo} ELSE {}

ToldBy(s) == UNION {Told(s[j]) : j \in DOMAIN s}
Work(s)   == UNION {Tasks(s[j]) : j \in DOMAIN s}
Types(q)  == {q[k].type : k \in DOMAIN q}

\* The inputs by which the program comes to track the document, and those that matter to what it believes.
Tracks == {"hydrated", "register"}
Key    == Tracks \cup {"destroy", "write-succeeded"}

\* An input that tracks the document is the first thing a step does, but for claiming the identity, and the only one it
\* sends; a release is the last thing the store program does.
Prompt(f) ==
  /\ f.kind = "step" => \A k \in DOMAIN f.todo : f.todo[k].do = "store" =>
       /\ f.todo[k].gen = 0
       /\ f.todo[k].arg \in Tracks =>
            /\ k = 1 \/ (k = 2 /\ f.todo[1].do = "adopt")
            /\ \A i \in DOMAIN f.todo : i # k => f.todo[i].do # "store"
  /\ f.kind = "store" => \A k \in DOMAIN f.todo : f.todo[k].do = "released" => k = Len(f.todo)

OneStore(s) == \A i, j \in DOMAIN s : s[i].kind = "store" /\ s[j].kind = "store" => i = j

\* No frame of b sends an input that tracks the document.
Settled(b) == (\A j \in DOMAIN b : Prompt(b[j]) /\ Told(b[j]) \cap Tracks = {}) /\ OneStore(b)

\* In a queue nothing comes before such an input that would undo it; the report of a write comes first.
InOrder(q) ==
  /\ \A k \in DOMAIN q : q[k].type \in Tracks => \A i \in 1 .. (k - 1) : q[i].type \notin Tracks \cup {"destroy"}
  /\ \A k \in DOMAIN q : q[k].type = "write-succeeded" => k = 1

\* Only the frame on top sends one, and nothing queued would undo it or is another.
Sends(f, q) == Told(f) \cap Tracks # {} => Types(q) \cap (Tracks \cup {"destroy"}) = {}

Ordered(s, q) ==
  /\ \A j \in DOMAIN s : Prompt(s[j]) /\ Sends(s[j], q) /\ (Told(s[j]) \cap Tracks # {} => j = 1)
  /\ OneStore(s) /\ InOrder(q)

-----------------------------------------------------------------------------
(* What is believed.                                                       *)

\* The calls of the document's queue.
CallKinds == {"writerOf", "currentMeta", "loadAll", "delete", "", "register", "since", "compact"}
Calls(n)  == [kind : CallKinds, gen : 0 .. (n.nextGen - 1), carries : BOOLEAN]

IsToDo(w, do) == \E x \in w : x[1] = do

\* No delete is to come, with effects w of the store program to run and calls c queued; no write that starts from a
\* stored version.
Undeleted(w, c) == ~IsToDo(w, "delete") /\ \A i \in DOMAIN c : c[i].kind # "delete"
Unwritten(w, c) == <<"persist", "since">> \notin w /\ \A i \in DOMAIN c : c[i].kind # "since"

\* The store program in phase p, with inputs of the types t to come, and the document in the store or not (d).
Tracked(t, w, p, c, d) ==
  /\ p.status = "untracked" => p.version = Nothing
  /\ p.status # "untracked" \/ t \cap Tracks # {} => Undeleted(w, c)
  /\ p.version # Nothing \/ "hydrated" \in t \/ IsToDo(w, "released") => d
  /\ t \cap Tracks # {} \/ IsToDo(w, "released") => p.status = "untracked"
  /\ IsToDo(w, "released") => t \cap Tracks = {}
  /\ (p.status # "untracked" /\ p.version = Nothing) \/ "register" \in t => Unwritten(w, c)
  /\ p.status = "writing" /\ "write-succeeded" \in t => d

\* Once a load has asked what is stored, nothing is to come that writes or deletes before it is told.
Reading(e, t, w, p, c) ==
  \A i \in DOMAIN c : c[i].kind \in {"currentMeta", "loadAll"} /\ e.phase = "loading" /\ e.gen = c[i].gen =>
    /\ p.status = "untracked" /\ t \cap (Tracks \cup {"destroy"}) = {}
    /\ ~IsToDo(w, "persist") /\ ~IsToDo(w, "delete")
    /\ \A k \in (i + 1) .. Len(c) : c[k].kind \notin {"since", "delete"}

\* The lifecycle entry e: a document to be deleted is not ready and not unloaded; one that is not ready is not tracked, or
\* is to be destroyed, unless all was closed; and an unloaded one is stored.
Entered(e, t, w, p, c, d, closed) ==
  /\ "destroy" \in t \/ ~Undeleted(w, c) => e.phase \in {"absent", "deferred", "loading", "failed"}
  /\ e.phase \notin {"ready", "storing"} => closed \/ (p.status = "untracked" /\ t \cap Tracks = {}) \/ "destroy" \in t
  /\ e.phase \in {"leaving", "unloaded"} => d

Facts(t, w, e, p, c, d, closed) == Tracked(t, w, p, c, d) /\ Reading(e, t, w, p, c) /\ Entered(e, t, w, p, c, d, closed)

Belief(s, q, e, p, c, d, closed) == Ordered(s, q) /\ Facts(ToldBy(s) \cup Types(q), Work(s), e, p, c, d, closed)

\* Without a store nothing is asked of one.
Storeless(s, e, p, c) ==
  /\ e.phase \in {"absent", "deferred", "ready"} /\ p.version = Nothing /\ ~Busy("store", s)
  /\ \A i \in DOMAIN c : c[i].kind # "delete"

\* After a reset only its own effects are left to run.
Closing(s) == \A j \in DOMAIN s : s[j].kind \in {"step", "app"} /\ \A k \in DOMAIN s[j].todo : s[j].todo[k].do \in {"close", "dispose"}

CallsTyped == calls \in Seq(Calls(m))
BeliefHolds == IF m.hasStore THEN Belief(stack, storeQ, m.entry, store, calls, disk, over) ELSE Storeless(stack, m.entry, store, calls)
ClosedOnce == over => m.entry.phase = "absent" /\ Closing(stack)

BeliefInv == CallsTyped /\ BeliefHolds /\ ClosedOnce

-----------------------------------------------------------------------------
(* The call stack, by its top.                                             *)

LEMMA ViewOn ==
  ASSUME NEW s, NEW f, NEW b, IsOn(s, f, b)
  PROVE  ToldBy(s) = Told(f) \cup ToldBy(b) /\ Work(s) = Tasks(f) \cup Work(b)
<1>1. /\ 1 \in DOMAIN s /\ s[1] = f
      /\ \A j \in DOMAIN b : j + 1 \in DOMAIN s /\ s[j + 1] = b[j]
      /\ \A j \in DOMAIN s : j = 1 \/ (j - 1 \in DOMAIN b /\ s[j] = b[j - 1])
  BY DEF IsOn
<1> QED BY <1>1 DEF ToldBy, Work

LEMMA SettledOn ==
  ASSUME NEW s, NEW f, NEW b, IsOn(s, f, b)
  PROVE  /\ Settled(s) <=> /\ Prompt(f) /\ Told(f) \cap Tracks = {} /\ Settled(b)
                           /\ f.kind = "store" => ~Busy("store", b)
         /\ Busy("store", s) <=> f.kind = "store" \/ Busy("store", b)
<1>1. /\ 1 \in DOMAIN s /\ s[1] = f
      /\ \A j \in DOMAIN b : j + 1 \in DOMAIN s /\ j + 1 # 1 /\ s[j + 1] = b[j]
      /\ \A j \in DOMAIN s : j = 1 \/ (j - 1 \in DOMAIN b /\ s[j] = b[j - 1])
      /\ \A i, j \in DOMAIN s : i - 1 = j - 1 => i = j
      /\ \A i, j \in DOMAIN b : i + 1 = j + 1 => i = j
  BY DEF IsOn
<1>2. Busy("store", s) <=> f.kind = "store" \/ Busy("store", b)
  BY <1>1 DEF Busy
<1>3. OneStore(s) <=> OneStore(b) /\ (f.kind = "store" => ~Busy("store", b))
  <2>1. ASSUME OneStore(s) PROVE OneStore(b) /\ (f.kind = "store" => ~Busy("store", b))
    <3>1. OneStore(b)
      BY <1>1, <2>1 DEF OneStore
    <3>2. f.kind = "store" => ~Busy("store", b)
      BY <1>1, <2>1 DEF OneStore, Busy
    <3> QED BY <3>1, <3>2
  <2>2. ASSUME OneStore(b), f.kind = "store" => ~Busy("store", b), NEW i \in DOMAIN s, NEW j \in DOMAIN s,
               s[i].kind = "store", s[j].kind = "store"
        PROVE  i = j
    <3>1. CASE i = 1 /\ j = 1
      BY <3>1
    <3>2. CASE i = 1 /\ j # 1
      BY <1>1, <2>2, <3>2 DEF Busy
    <3>3. CASE i # 1 /\ j = 1
      BY <1>1, <2>2, <3>3 DEF Busy
    <3>4. CASE i # 1 /\ j # 1
      BY <1>1, <2>2, <3>4 DEF OneStore
    <3> QED BY <3>1, <3>2, <3>3, <3>4
  <2> QED BY <2>1, <2>2 DEF OneStore
<1>4. (\A j \in DOMAIN s : Prompt(s[j]) /\ Told(s[j]) \cap Tracks = {})
        <=> Prompt(f) /\ Told(f) \cap Tracks = {} /\ \A j \in DOMAIN b : Prompt(b[j]) /\ Told(b[j]) \cap Tracks = {}
  BY <1>1
<1> QED BY <1>2, <1>3, <1>4 DEF Settled

LEMMA OrderedOn ==
  ASSUME NEW s, NEW f, NEW b, IsOn(s, f, b), NEW q
  PROVE  Ordered(s, q) <=> /\ Prompt(f) /\ Sends(f, q) /\ Settled(b) /\ InOrder(q)
                           /\ f.kind = "store" => ~Busy("store", b)
<1>1. /\ 1 \in DOMAIN s /\ s[1] = f
      /\ \A j \in DOMAIN b : j + 1 \in DOMAIN s /\ j + 1 # 1 /\ s[j + 1] = b[j]
      /\ \A j \in DOMAIN s : j = 1 \/ (j - 1 \in DOMAIN b /\ s[j] = b[j - 1])
      /\ \A i, j \in DOMAIN s : i - 1 = j - 1 => i = j
      /\ \A i, j \in DOMAIN b : i + 1 = j + 1 => i = j
  BY DEF IsOn
<1>2. OneStore(s) <=> OneStore(b) /\ (f.kind = "store" => ~Busy("store", b))
  <2>1. ASSUME OneStore(s) PROVE OneStore(b) /\ (f.kind = "store" => ~Busy("store", b))
    <3>1. OneStore(b)
      BY <1>1, <2>1 DEF OneStore
    <3>2. f.kind = "store" => ~Busy("store", b)
      BY <1>1, <2>1 DEF OneStore, Busy
    <3> QED BY <3>1, <3>2
  <2>2. ASSUME OneStore(b), f.kind = "store" => ~Busy("store", b), NEW i \in DOMAIN s, NEW j \in DOMAIN s,
               s[i].kind = "store", s[j].kind = "store"
        PROVE  i = j
    <3>1. CASE i = 1 /\ j = 1
      BY <3>1
    <3>2. CASE i = 1 /\ j # 1
      BY <1>1, <2>2, <3>2 DEF Busy
    <3>3. CASE i # 1 /\ j = 1
      BY <1>1, <2>2, <3>3 DEF Busy
    <3>4. CASE i # 1 /\ j # 1
      BY <1>1, <2>2, <3>4 DEF OneStore
    <3> QED BY <3>1, <3>2, <3>3, <3>4
  <2> QED BY <2>1, <2>2 DEF OneStore
<1>3. (\A j \in DOMAIN s : Prompt(s[j]) /\ Sends(s[j], q) /\ (Told(s[j]) \cap Tracks # {} => j = 1))
        <=> Prompt(f) /\ Sends(f, q) /\ \A j \in DOMAIN b : Prompt(b[j]) /\ Told(b[j]) \cap Tracks = {}
  BY <1>1 DEF Sends
<1> QED BY <1>2, <1>3 DEF Ordered, Settled

LEMMA ViewNone == ToldBy(<<>>) = {} /\ Work(<<>>) = {} /\ Types(<<>>) = {} /\ Settled(<<>>) /\ ~Busy("store", <<>>) /\ InOrder(<<>>)
<1> DEFINE none == <<>>
<1>1. DOMAIN none = {}
  OBVIOUS
<1> HIDE DEF none
<1>2. ToldBy(none) = {} /\ Work(none) = {} /\ Types(none) = {} /\ ~Busy("store", none) /\ InOrder(none)
  BY <1>1 DEF ToldBy, Work, Types, Busy, InOrder
<1>3. Settled(none)
  BY <1>1 DEF Settled, OneStore
<1> QED BY <1>2, <1>3 DEF none

LEMMA SettledOrdered ==
  ASSUME NEW s, NEW q, Settled(s), InOrder(q) PROVE Ordered(s, q)
BY DEF Settled, Ordered, Sends

-----------------------------------------------------------------------------
(* The queue of the store program.                                         *)

LEMMA TypesAppended ==
  ASSUME NEW S, NEW q \in Seq(S), NEW x \in S
  PROVE  /\ Types(Append(q, x)) = Types(q) \cup {x.type}
         /\ /\ InOrder(q) /\ (x.type = "write-succeeded" => q = <<>>)
            /\ x.type \in Tracks => Types(q) \cap (Tracks \cup {"destroy"}) = {}
            => InOrder(Append(q, x))
<1> DEFINE r == Append(q, x)
<1>1. /\ Len(q) \in Nat /\ DOMAIN q = 1 .. Len(q) /\ DOMAIN r = 1 .. (Len(q) + 1)
      /\ (\A i \in 1 .. Len(q) : r[i] = q[i]) /\ r[Len(q) + 1] = x
  BY Appending
<1>2. q = <<>> => Len(q) = 0
  BY LenProperties
<1> HIDE DEF r
<1>3. Types(r) = Types(q) \cup {x.type}
  <2>1. \A k \in DOMAIN q : k \in DOMAIN r /\ r[k] = q[k]
    BY <1>1
  <2>2. \A k \in DOMAIN r : k \in DOMAIN q \/ k = Len(q) + 1
    BY <1>1
  <2>3. Len(q) + 1 \in DOMAIN r
    BY <1>1
  <2> QED BY <1>1, <2>1, <2>2, <2>3 DEF Types
<1>4. ASSUME InOrder(q), x.type = "write-succeeded" => q = <<>>, x.type \in Tracks => Types(q) \cap (Tracks \cup {"destroy"}) = {}
      PROVE  InOrder(r)
  <2>1. ASSUME NEW k \in DOMAIN r, r[k].type \in Tracks, NEW i \in 1 .. (k - 1) PROVE r[i].type \notin Tracks \cup {"destroy"}
    <3>1. i \in DOMAIN q /\ r[i] = q[i]
      BY <1>1
    <3>2. CASE k \in DOMAIN q
      BY <1>1, <1>4, <2>1, <3>1, <3>2 DEF InOrder
    <3>3. CASE k = Len(q) + 1
      BY <1>1, <1>4, <2>1, <3>1, <3>3 DEF Types
    <3> QED BY <1>1, <3>2, <3>3
  <2>2. ASSUME NEW k \in DOMAIN r, r[k].type = "write-succeeded" PROVE k = 1
    <3>1. CASE k \in DOMAIN q
      BY <1>1, <1>4, <2>2, <3>1 DEF InOrder
    <3>2. CASE k = Len(q) + 1
      BY <1>1, <1>2, <1>4, <2>2, <3>2
    <3> QED BY <1>1, <3>1, <3>2
  <2> QED BY <2>1, <2>2 DEF InOrder
<1> QED BY <1>3, <1>4 DEF r

LEMMA TypesTaken ==
  ASSUME NEW S, NEW q \in Seq(S), q # <<>>, InOrder(q)
  PROVE  /\ Types(q) = Types(Tail(q)) \cup {Head(q).type} /\ InOrder(Tail(q))
         /\ "write-succeeded" \notin Types(Tail(q))
         /\ Head(q).type \in Tracks \cup {"destroy"} => Types(Tail(q)) \cap Tracks = {}
<1> DEFINE r == Tail(q)
<1>1. /\ Head(q) = q[1] /\ 1 \in DOMAIN q /\ Len(q) \in Nat \ {0} /\ DOMAIN q = 1 .. Len(q)
      /\ DOMAIN r = 1 .. (Len(q) - 1) /\ \A i \in 1 .. (Len(q) - 1) : r[i] = q[i + 1]
  BY Popping
<1> HIDE DEF r
<1>2. \A k \in DOMAIN r : k \in Nat /\ k + 1 \in DOMAIN q /\ r[k] = q[k + 1] /\ 1 \in 1 .. ((k + 1) - 1)
  BY <1>1
<1>3. \A k \in DOMAIN q : k = 1 \/ (k - 1 \in DOMAIN r /\ r[k - 1] = q[k])
  BY <1>1
<1>4. Types(q) = Types(r) \cup {Head(q).type}
  BY <1>1, <1>2, <1>3 DEF Types
<1>5. ASSUME NEW k \in DOMAIN r, r[k].type \in Tracks, NEW i \in 1 .. (k - 1) PROVE r[i].type \notin Tracks \cup {"destroy"}
  <2>1. i + 1 \in 1 .. ((k + 1) - 1) /\ i \in DOMAIN r
    BY <1>1, <1>2
  <2> QED BY <1>2, <1>5, <2>1 DEF InOrder
<1>6. \A k \in DOMAIN r : r[k].type # "write-succeeded"
  BY <1>2 DEF InOrder
<1>7. ASSUME Head(q).type \in Tracks \cup {"destroy"}, NEW k \in DOMAIN r PROVE r[k].type \notin Tracks
  BY <1>1, <1>2, <1>7 DEF InOrder
<1>8. InOrder(r)
  BY <1>5, <1>6 DEF InOrder
<1> QED BY <1>4, <1>6, <1>7, <1>8 DEF r, Types

-----------------------------------------------------------------------------
(* What is believed, while less is to come.                                *)

LEMMA Calm ==
  ASSUME NEW t, NEW w, NEW e, NEW p, NEW c, NEW d, NEW closed, Facts(t, w, e, p, c, d, closed),
         NEW t2, NEW w2, t2 \cap Key \subseteq t, "destroy" \in t => "destroy" \in t2 \/ closed, w2 \subseteq w
  PROVE  Facts(t2, w2, e, p, c, d, closed)
<1>1. /\ \A do : IsToDo(w2, do) => IsToDo(w, do)
      /\ Undeleted(w, c) => Undeleted(w2, c)
      /\ Unwritten(w, c) => Unwritten(w2, c)
  BY DEF IsToDo, Undeleted, Unwritten
<1>2. /\ t2 \cap Tracks \subseteq t \cap Tracks
      /\ \A x \in {"hydrated", "register", "destroy", "write-succeeded"} : x \in t2 => x \in t
      /\ t2 \cap (Tracks \cup {"destroy"}) \subseteq t \cap (Tracks \cup {"destroy"})
  BY DEF Key, Tracks
<1>3. Tracked(t2, w2, p, c, d)
  BY <1>1, <1>2 DEF Facts, Tracked
<1>4. Reading(e, t2, w2, p, c)
  BY <1>1, <1>2 DEF Facts, Reading
<1>5. Entered(e, t2, w2, p, c, d, closed)
  BY <1>1, <1>2 DEF Facts, Entered
<1> QED BY <1>3, <1>4, <1>5 DEF Facts

\* The first call ended.
LEMMA FactsTaken ==
  ASSUME NEW S, NEW c \in Seq(S), c # <<>>, NEW t, NEW w, NEW e, NEW p, NEW d, NEW closed, Facts(t, w, e, p, c, d, closed)
  PROVE  Facts(t, w, e, p, Tail(c), d, closed)
<1> DEFINE r == Tail(c)
<1>1. /\ Len(c) \in Nat \ {0} /\ DOMAIN c = 1 .. Len(c) /\ r \in Seq(S)
      /\ DOMAIN r = 1 .. (Len(c) - 1) /\ Len(r) = Len(c) - 1 /\ \A i \in 1 .. (Len(c) - 1) : r[i] = c[i + 1]
  BY Popping
<1> HIDE DEF r
<1>2. \A k \in DOMAIN r : k + 1 \in DOMAIN c /\ r[k] = c[k + 1]
  BY <1>1
<1>3. (Undeleted(w, c) => Undeleted(w, r)) /\ (Unwritten(w, c) => Unwritten(w, r))
  BY <1>2 DEF Undeleted, Unwritten
<1>4. Reading(e, t, w, p, r)
  <2> SUFFICES ASSUME NEW i \in DOMAIN r, r[i].kind \in {"currentMeta", "loadAll"}, e.phase = "loading", e.gen = r[i].gen
               PROVE  /\ p.status = "untracked" /\ t \cap (Tracks \cup {"destroy"}) = {}
                      /\ ~IsToDo(w, "persist") /\ ~IsToDo(w, "delete")
                      /\ \A k \in (i + 1) .. Len(r) : r[k].kind \notin {"since", "delete"}
    BY DEF Reading
  <2>1. /\ p.status = "untracked" /\ t \cap (Tracks \cup {"destroy"}) = {} /\ ~IsToDo(w, "persist") /\ ~IsToDo(w, "delete")
        /\ \A k \in ((i + 1) + 1) .. Len(c) : c[k].kind \notin {"since", "delete"}
    BY <1>2 DEF Facts, Reading
  <2>2. \A k \in (i + 1) .. Len(r) : k \in DOMAIN r /\ k + 1 \in ((i + 1) + 1) .. Len(c)
    BY <1>1
  <2> QED BY <1>2, <2>1, <2>2
<1>5. Tracked(t, w, p, r, d) /\ Entered(e, t, w, p, r, d, closed)
  BY <1>3 DEF Facts, Tracked, Entered
<1> QED BY <1>4, <1>5 DEF Facts, r

\* Another entry: it is ready or waits for its release if it was before, and so for one that leaves or is unloaded, and
\* what loads did so before or is new.
Moves(n, x) ==
  LET e == n.entry IN
  IF n.hasStore
  THEN /\ x.phase \in {"ready", "storing"} <=> e.phase \in {"ready", "storing"}
       /\ x.phase \in {"leaving", "unloaded"} => e.phase \in {"leaving", "unloaded"}
       /\ x.phase = "loading" => (e.phase = "loading" /\ x.gen = e.gen) \/ x.gen = n.nextGen
  ELSE x.phase \in {"absent", "deferred", "ready"}

LEMMA FactsMoved ==
  ASSUME NEW n \in Models, n.hasStore, NEW x \in EntryType, Moves(n, x), NEW c \in Seq(Calls(n)),
         NEW t, NEW w, NEW p, NEW d, NEW closed, Facts(t, w, n.entry, p, c, d, closed)
  PROVE  Facts(t, w, x, p, c, d, closed)
<1>1. \A i \in DOMAIN c : c[i].gen # n.nextGen
  <2>1. n.nextGen \in Nat
    BY ModelFacts
  <2>2. \A y \in Calls(n) : y.gen \in 0 .. (n.nextGen - 1)
    BY DEF Calls
  <2> QED BY <2>1, <2>2, SeqFacts
<1>2. Reading(x, t, w, p, c)
  BY <1>1 DEF Facts, Reading, Moves
<1>3. x.phase \in {"absent", "deferred", "loading", "failed", "ready", "storing", "leaving", "unloaded"}
  BY DEF EntryType, Phases, HeldPhases
<1>4. n.entry.phase \in {"absent", "deferred", "loading", "failed", "ready", "storing", "leaving", "unloaded"}
  BY ModelFacts DEF EntryType, Phases, HeldPhases
<1>5. Entered(x, t, w, p, c, d, closed)
  BY <1>3, <1>4 DEF Facts, Entered, Moves
<1> QED BY <1>2, <1>5 DEF Facts

LEMMA CallsLater ==
  ASSUME NEW n \in Models, NEW p \in Models, n.nextGen <= p.nextGen PROVE Seq(Calls(n)) \subseteq Seq(Calls(p))
<1>1. n.nextGen \in Nat /\ p.nextGen \in Nat
  BY ModelFacts
<1>2. Calls(n) \subseteq Calls(p)
  BY <1>1 DEF Calls
<1> QED BY <1>2, SeqLarger

-----------------------------------------------------------------------------
(* The effects that tell the store program nothing that matters.           *)

AllEffects == [do : Dos, gen : Nat, arg : Args, on : BOOLEAN, of : Nat]
CalmEffects == {x \in AllEffects : x.do = "store" => x.gen = 0 /\ x.arg \notin Tracks \cup {"destroy"}}
Calmly(todo) == todo \in Seq(CalmEffects)

LEMMA CalmIn ==
  ASSUME NEW gen \in Nat
  PROVE  /\ \A do \in Dos \ {"store"} : Named(do, gen) \in CalmEffects
         /\ \A arg \in {"pending", "loaded", "failed"} : Effect("close", gen, arg, FALSE, 0) \in CalmEffects
         /\ \A arg \in {"destroyed", "suspended", "resumed"} : Notify(arg) \in CalmEffects
         /\ \A on \in BOOLEAN : Leaving(on) \in CalmEffects /\ Register(gen, on) \in CalmEffects
         /\ \A arg \in {"keep", "state-advanced", "release"} : ToStore(arg, gen) \in CalmEffects
<1>1. ASSUME NEW do \in Dos, NEW g \in Nat, NEW arg \in Args, NEW on \in BOOLEAN, NEW of \in Nat,
             do = "store" => g = 0 /\ arg \notin Tracks \cup {"destroy"}
      PROVE  Effect(do, g, arg, on, of) \in CalmEffects
  BY <1>1 DEF Effect, AllEffects, CalmEffects
<1>2. \A do \in Dos \ {"store"} : Named(do, gen) \in CalmEffects
  BY <1>1 DEF Named, Args
<1>3. \A arg \in {"pending", "loaded", "failed"} : Effect("close", gen, arg, FALSE, 0) \in CalmEffects
  BY <1>1 DEF Dos, Args
<1>4. \A arg \in {"destroyed", "suspended", "resumed"} : Notify(arg) \in CalmEffects
  BY <1>1 DEF Notify, Dos, Args
<1>5. \A on \in BOOLEAN : Leaving(on) \in CalmEffects /\ Register(gen, on) \in CalmEffects
  BY <1>1 DEF Leaving, Register, Dos, Args
<1>6. ASSUME NEW arg \in {"keep", "state-advanced", "release"} PROVE ToStore(arg, gen) \in CalmEffects
  <2>1. arg \in Args /\ arg \notin Tracks \cup {"destroy"} /\ "store" \in Dos
    BY DEF Args, Tracks, Dos
  <2> QED BY <1>1, <2>1 DEF ToStore
<1> QED BY <1>2, <1>3, <1>4, <1>5, <1>6

LEMMA CalmWhen ==
  ASSUME NEW condition, NEW x, condition => x \in CalmEffects PROVE Calmly(When(condition, <<x>>))
BY WhenIn DEF Calmly

LEMMA CalmBoth == \A s, t : Calmly(s) /\ Calmly(t) => Calmly(s \o t)
BY BothIn DEF Calmly

LEMMA CalmNone == Calmly(<<>>) /\ \A x \in CalmEffects : Calmly(<<x>>) /\ \A y \in CalmEffects : Calmly(<<x, y>>)
BY EmptySeq DEF Calmly

LEMMA CalmFrame ==
  ASSUME NEW todo, Calmly(todo), NEW f, f.kind = "step", f.todo = todo
  PROVE  Prompt(f) /\ Told(f) \cap Key = {} /\ Told(f) \cap Tracks = {} /\ Tasks(f) = {}
<1>1. \A k \in DOMAIN todo : todo[k] \in CalmEffects
  BY SeqFacts DEF Calmly
<1>2. \A k \in DOMAIN todo : todo[k].do = "store" =>
        todo[k].gen = 0 /\ todo[k].arg \notin Tracks \cup {"destroy"} /\ todo[k].arg # "write-succeeded"
  BY <1>1 DEF CalmEffects, AllEffects, Args
<1>3. Prompt(f)
  BY <1>2 DEF Prompt
<1>4. Told(f) \cap Key = {} /\ Told(f) \cap Tracks = {}
  BY <1>2 DEF Told, Key
<1> QED BY <1>3, <1>4 DEF Tasks

-----------------------------------------------------------------------------
(* A stack that waits for no more than the stack of now.                   *)

Base(b) ==
  /\ b \in Seq(Frames(m))
  /\ IF m.hasStore THEN Settled(b) /\ ToldBy(b) = ToldBy(stack) /\ Work(b) \subseteq Work(stack) ELSE ~Busy("store", b)

\* The frames but steps tell nothing.
LEMMA TellsNothing ==
  ASSUME NEW f, f.kind # "step" PROVE Told(f) = {} /\ (f.kind # "store" => Tasks(f) = {} /\ Prompt(f))
BY DEF Told, Tasks, Prompt

LEMMA Pushed ==
  ASSUME m \in Models, NEW b, Base(b), NEW kind \in {"app", "sync"}
  PROVE  Base(<<Frame(kind, <<>>, Absent)>> \o b)
<1> DEFINE f == Frame(kind, <<>>, Absent)
           s == <<f>> \o b
<1>1. f \in Frames(m) /\ f.kind = kind
  BY NewFrames
<1> HIDE DEF f
<1>2. s \in Seq(Frames(m)) /\ IsOn(s, f, b)
  BY <1>1, PushOn DEF Base
<1> HIDE DEF s
<1>3. Told(f) = {} /\ Tasks(f) = {} /\ Prompt(f) /\ f.kind # "store"
  BY <1>1, TellsNothing
<1>4. ToldBy(s) = ToldBy(b) /\ Work(s) = Work(b)
  <2>1. ToldBy(s) = Told(f) \cup ToldBy(b) /\ Work(s) = Tasks(f) \cup Work(b)
    BY <1>2, ViewOn
  <2> QED BY <1>3, <2>1
<1>5. (Settled(b) => Settled(s)) /\ (Busy("store", s) <=> Busy("store", b))
  BY <1>2, <1>3, SettledOn
<1>6. Base(s)
  BY <1>2, <1>4, <1>5 DEF Base
<1> QED BY <1>6 DEF f, s

LEMMA AppBase ==
  ASSUME m \in Models, NEW b, Base(b), NEW place, NEW tier PROVE Base(CallBack(place, tier, b))
BY Pushed DEF CallBack

LEMMA SyncBase ==
  ASSUME m \in Models, NEW b, Base(b), NEW msg, ToSync(msg, b) PROVE Base(stack')
BY Pushed DEF ToSync

\* The stack of now, by its top.
LEMMA Now ==
  ASSUME LifecycleInv, BeliefHolds, stack # <<>>
  PROVE  LET b == Tail(stack) IN
         /\ m \in Models /\ Top \in Frames(m) /\ b \in Seq(Frames(m)) /\ IsOn(stack, Top, b)
         /\ ToldBy(stack) = Told(Top) \cup ToldBy(b) /\ Work(stack) = Tasks(Top) \cup Work(b)
         /\ m.hasStore => /\ Prompt(Top) /\ Sends(Top, storeQ) /\ Settled(b) /\ InOrder(storeQ)
                          /\ Top.kind = "store" => ~Busy("store", b)
         /\ ~m.hasStore => Top.kind # "store" /\ ~Busy("store", b)
<1> DEFINE b == Tail(stack)
           f == Top
<1>1. m \in Models /\ stack \in Seq(Frames(m))
  BY DEF LifecycleInv, StackSound, Stacked
<1>2. IsOn(stack, f, b) /\ f \in Frames(m) /\ b \in Seq(Frames(m))
  BY <1>1, PopOn DEF Top
<1> HIDE DEF b, f
<1>3. ToldBy(stack) = Told(f) \cup ToldBy(b) /\ Work(stack) = Tasks(f) \cup Work(b)
  BY <1>2, ViewOn
<1>4. m.hasStore => /\ Prompt(f) /\ Sends(f, storeQ) /\ Settled(b) /\ InOrder(storeQ)
                    /\ f.kind = "store" => ~Busy("store", b)
  BY <1>2, OrderedOn DEF BeliefHolds, Belief
<1>5. ~m.hasStore => f.kind # "store" /\ ~Busy("store", b)
  BY <1>2, SettledOn DEF BeliefHolds, Storeless
<1> QED BY <1>1, <1>2, <1>3, <1>4, <1>5 DEF b, f

LEMMA OuterBase ==
  ASSUME LifecycleInv, BeliefHolds, stack = <<>> \/ OnTop("app") \/ OnTop("sync") PROVE Base(stack)
<1>1. stack \in Seq(Frames(m))
  BY DEF LifecycleInv, StackSound, Stacked
<1>2. CASE stack = <<>>
  BY <1>1, <1>2, ViewNone DEF Base
<1>3. CASE stack # <<>> /\ (OnTop("app") \/ OnTop("sync"))
  <2> DEFINE b == Tail(stack)
             f == Top
  <2>1. /\ f.kind \in {"app", "sync"} /\ IsOn(stack, f, b)
        /\ m.hasStore => Settled(b)
        /\ ~m.hasStore => ~Busy("store", b)
    BY <1>3, Now DEF OnTop
  <2> HIDE DEF b, f
  <2>2. Told(f) = {} /\ Prompt(f) /\ f.kind # "store"
    BY <2>1, TellsNothing
  <2>3. (Settled(b) => Settled(stack)) /\ (Busy("store", stack) => Busy("store", b))
    BY <2>1, <2>2, SettledOn
  <2> QED BY <1>1, <2>1, <2>3 DEF Base
<1> QED BY <1>2, <1>3 DEF OnTop

\* The frame on top, that tells nothing any more, goes.
LEMMA PopBase ==
  ASSUME LifecycleInv, BeliefHolds, stack # <<>>, Top.todo = <<>> \/ Told(Top) = {} PROVE Base(Tail(stack))
<1> DEFINE b == Tail(stack)
           f == Top
<1>1. /\ b \in Seq(Frames(m)) /\ ToldBy(stack) = Told(f) \cup ToldBy(b) /\ Work(stack) = Tasks(f) \cup Work(b)
      /\ m.hasStore => Settled(b)
      /\ ~m.hasStore => ~Busy("store", b)
  BY Now
<1>2. f.todo = <<>> \/ Told(f) = {}
  OBVIOUS
<1> HIDE DEF b, f
<1>3. Told(f) = {}
  <2>1. ASSUME f.todo = <<>> PROVE Told(f) = {}
    <3>1. DOMAIN f.todo = {}
      BY <2>1
    <3> QED BY <3>1 DEF Told
  <2> QED BY <1>2, <2>1
<1>4. Base(b)
  BY <1>1, <1>3 DEF Base
<1> QED BY <1>4 DEF b

\* The frame on top, which tells nothing, comes to another todo.
LEMMA SwapBase ==
  ASSUME LifecycleInv, BeliefHolds, stack # <<>>, NEW h \in Frames(m), h.kind = Top.kind,
         m.hasStore => Prompt(h) /\ Told(h) = Told(Top) /\ Told(h) \cap Tracks = {} /\ Tasks(h) \subseteq Tasks(Top),
         NEW r, r = <<h>> \o Tail(stack)
  PROVE  Base(r)
<1> DEFINE b == Tail(stack)
           f == Top
<1>1. /\ m \in Models /\ b \in Seq(Frames(m)) /\ ToldBy(stack) = Told(f) \cup ToldBy(b) /\ Work(stack) = Tasks(f) \cup Work(b)
      /\ m.hasStore => Settled(b) /\ (f.kind = "store" => ~Busy("store", b))
      /\ ~m.hasStore => f.kind # "store" /\ ~Busy("store", b)
  BY Now
<1>2. /\ h.kind = f.kind /\ r = <<h>> \o b
      /\ m.hasStore => Prompt(h) /\ Told(h) = Told(f) /\ Told(h) \cap Tracks = {} /\ Tasks(h) \subseteq Tasks(f)
  OBVIOUS
<1> HIDE DEF b, f
<1>3. r \in Seq(Frames(m)) /\ IsOn(r, h, b)
  <2>1. <<h>> \o b \in Seq(Frames(m)) /\ IsOn(<<h>> \o b, h, b)
    BY <1>1, PushOn
  <2> QED BY <2>1, <1>2, Zenon
<1>4. ToldBy(r) = Told(h) \cup ToldBy(b) /\ Work(r) = Tasks(h) \cup Work(b)
  BY <1>3, ViewOn
<1>5. CASE m.hasStore
  <2>1. Settled(r)
    BY <1>1, <1>2, <1>3, <1>5, SettledOn
  <2> QED BY <1>1, <1>2, <1>3, <1>4, <1>5, <2>1 DEF Base
<1>6. CASE ~m.hasStore
  <2>1. ~Busy("store", r)
    BY <1>1, <1>2, <1>3, <1>6, SettledOn
  <2> QED BY <1>3, <1>6, <2>1 DEF Base
<1> QED BY <1>5, <1>6

-----------------------------------------------------------------------------
(* The next effect taken.                                                  *)

LEMMA StepWith ==
  ASSUME NEW n \in Models, NEW f \in Frames(n), f.kind = "step", NEW todo \in Todo(n)
  PROVE  [f EXCEPT !.todo = todo] \in Frames(n) /\ [f EXCEPT !.todo = todo].kind = "step" /\ [f EXCEPT !.todo = todo].todo = todo
<1>1. [f EXCEPT !.todo = todo] = [kind |-> "step", todo |-> todo, before |-> f.before] /\ f.before \in EntryType
  BY FrameFacts
<1> QED BY <1>1 DEF Frames

LEMMA StoreWith ==
  ASSUME NEW n \in Models, NEW f \in Frames(n), f.kind = "store", NEW todo \in Seq(StoreEffects(n))
  PROVE  [f EXCEPT !.todo = todo] \in Frames(n) /\ [f EXCEPT !.todo = todo].kind = "store" /\ [f EXCEPT !.todo = todo].todo = todo
<1>1. [f EXCEPT !.todo = todo] = [kind |-> "store", todo |-> todo, before |-> f.before] /\ f.before \in EntryType
  BY FrameFacts
<1> QED BY <1>1 DEF Frames

LEMMA PromptTaken ==
  ASSUME NEW S, NEW f, f.kind = "step", f.todo \in Seq(S), f.todo # <<>>, Prompt(f),
         NEW h, h.kind = "step", h.todo = Tail(f.todo), NEW x, x = Head(f.todo)
  PROVE  /\ Prompt(h)
         /\ x.do = "store" => Told(f) = Told(h) \cup {x.arg}
         /\ x.do # "store" => Told(f) = Told(h)
         /\ x.do # "adopt" => Told(h) \cap Tracks = {}
         /\ x.do = "store" => x.gen = 0
<1> DEFINE todo == f.todo
           rest == h.todo
<1>1. /\ x = todo[1] /\ 1 \in DOMAIN todo /\ Len(todo) \in Nat \ {0} /\ DOMAIN todo = 1 .. Len(todo)
      /\ DOMAIN rest = 1 .. (Len(todo) - 1) /\ \A i \in 1 .. (Len(todo) - 1) : rest[i] = todo[i + 1]
  BY Popping
<1>2. /\ Told(f) = {todo[k].arg : k \in {k \in DOMAIN todo : todo[k].do = "store"}}
      /\ Told(h) = {rest[k].arg : k \in {k \in DOMAIN rest : rest[k].do = "store"}}
  BY DEF Told
<1>3. \A k \in DOMAIN todo : todo[k].do = "store" =>
        /\ todo[k].gen = 0
        /\ todo[k].arg \in Tracks =>
             /\ k = 1 \/ (k = 2 /\ todo[1].do = "adopt")
             /\ \A i \in DOMAIN todo : i # k => todo[i].do # "store"
  BY DEF Prompt
<1>4. Prompt(h) <=> \A k \in DOMAIN rest : rest[k].do = "store" =>
        /\ rest[k].gen = 0
        /\ rest[k].arg \in Tracks =>
             /\ k = 1 \/ (k = 2 /\ rest[1].do = "adopt")
             /\ \A i \in DOMAIN rest : i # k => rest[i].do # "store"
  BY DEF Prompt
<1> HIDE DEF todo, rest
<1>5. \A k \in DOMAIN rest : k \in Nat /\ k + 1 \in DOMAIN todo /\ rest[k] = todo[k + 1] /\ k + 1 # 1
  BY <1>1
<1>6. \A k \in DOMAIN todo : k = 1 \/ (k - 1 \in DOMAIN rest /\ rest[k - 1] = todo[k])
  BY <1>1
<1>7. ASSUME NEW k \in DOMAIN rest, rest[k].do = "store"
      PROVE  /\ rest[k].gen = 0
             /\ rest[k].arg \in Tracks => k = 1 /\ x.do = "adopt" /\ \A i \in DOMAIN rest : i # k => rest[i].do # "store"
  <2>1. /\ todo[k + 1].gen = 0
        /\ todo[k + 1].arg \in Tracks => k + 1 = 2 /\ todo[1].do = "adopt" /\ \A i \in DOMAIN todo : i # k + 1 => todo[i].do # "store"
    BY <1>3, <1>5, <1>7
  <2>2. \A i \in DOMAIN rest : i # k => i + 1 # k + 1
    BY <1>5
  <2> QED BY <1>1, <1>5, <2>1, <2>2
<1>8. Prompt(h) /\ (x.do # "adopt" => Told(h) \cap Tracks = {})
  BY <1>2, <1>4, <1>7
<1>9. /\ x.do = "store" => Told(f) = Told(h) \cup {x.arg}
      /\ x.do # "store" => Told(f) = Told(h)
  <2>1. ASSUME NEW k \in DOMAIN todo, todo[k].do = "store" PROVE todo[k].arg \in Told(h) \/ (x.do = "store" /\ todo[k].arg = x.arg)
    BY <1>1, <1>2, <1>6, <2>1
  <2>2. ASSUME NEW k \in DOMAIN rest, rest[k].do = "store" PROVE rest[k].arg \in Told(f)
    BY <1>2, <1>5, <2>2
  <2>3. Told(h) \subseteq Told(f) /\ \A a \in Told(f) : a \in Told(h) \/ (x.do = "store" /\ a = x.arg)
    BY <1>2, <2>1, <2>2
  <2>4. x.do = "store" => x.arg \in Told(f)
    BY <1>1, <1>2
  <2> QED BY <2>3, <2>4
<1> QED BY <1>1, <1>3, <1>8, <1>9

\* Of a step on top.
LEMMA TakenOn ==
  ASSUME LifecycleInv, BeliefHolds, OnTop("step"), Top.todo # <<>>
  PROVE  /\ Rest \in Seq(Frames(m))
         /\ m.hasStore =>
              /\ Ordered(Rest, storeQ) /\ Work(Rest) = Work(stack)
              /\ E.do = "store" => ToldBy(stack) = ToldBy(Rest) \cup {E.arg}
              /\ E.do # "store" => ToldBy(stack) = ToldBy(Rest)
              /\ E.do # "adopt" => Settled(Rest)
              /\ E.do = "store" => E.gen = 0 /\ (E.arg \in Tracks => Types(storeQ) \cap (Tracks \cup {"destroy"}) = {})
         /\ ~m.hasStore => ~Busy("store", Rest)
<1> DEFINE b == Tail(stack)
           f == Top
           x == E
           h == [f EXCEPT !.todo = Tail(f.todo)]
           r == Rest
<1>1. /\ m \in Models /\ f \in Frames(m) /\ b \in Seq(Frames(m)) /\ IsOn(stack, f, b)
      /\ ToldBy(stack) = Told(f) \cup ToldBy(b) /\ Work(stack) = Tasks(f) \cup Work(b)
      /\ m.hasStore => Prompt(f) /\ Sends(f, storeQ) /\ Settled(b) /\ InOrder(storeQ)
      /\ ~m.hasStore => ~Busy("store", b)
  BY Now DEF OnTop
<1>2. f.kind = "step" /\ f.todo # <<>> /\ x = Head(f.todo) /\ r = <<h>> \o b
  BY DEF OnTop, E, Rest
<1>3. f.todo \in Todo(m)
  BY <1>1, <1>2, FrameFacts
<1>4. f.todo \in Seq(Effects(m)) /\ Tail(f.todo) \in Todo(m)
  BY <1>1, <1>2, <1>3, TodoFacts
<1>5. h \in Frames(m) /\ h.kind = "step" /\ h.todo = Tail(f.todo)
  <2> DEFINE t == Tail(f.todo)
  <2>2. t \in Todo(m) /\ f \in Frames(m) /\ m \in Models /\ f.kind = "step"
    BY <1>1, <1>2, <1>4
  <2> HIDE DEF t, f
  <2> QED BY <2>2, StepWith DEF t
<1> HIDE DEF b, f, h, x, r
<1>6. r \in Seq(Frames(m)) /\ IsOn(r, h, b)
  <2>1. <<h>> \o b \in Seq(Frames(m)) /\ IsOn(<<h>> \o b, h, b)
    BY <1>1, <1>5, PushOn
  <2> QED BY <2>1, <1>2, Zenon
<1>7. ToldBy(r) = Told(h) \cup ToldBy(b) /\ Work(r) = Tasks(h) \cup Work(b) /\ Tasks(h) = {} /\ Tasks(f) = {}
  <2>1. ToldBy(r) = Told(h) \cup ToldBy(b) /\ Work(r) = Tasks(h) \cup Work(b)
    BY <1>6, ViewOn
  <2>2. Tasks(h) = {} /\ Tasks(f) = {}
    BY <1>2, <1>5 DEF Tasks
  <2> QED BY <2>1, <2>2
<1>8. ASSUME m.hasStore
      PROVE  /\ Ordered(r, storeQ) /\ Work(r) = Work(stack)
             /\ x.do = "store" => ToldBy(stack) = ToldBy(r) \cup {x.arg}
             /\ x.do # "store" => ToldBy(stack) = ToldBy(r)
             /\ x.do # "adopt" => Settled(r)
             /\ x.do = "store" => x.gen = 0 /\ (x.arg \in Tracks => Types(storeQ) \cap (Tracks \cup {"destroy"}) = {})
  <2>1. /\ Prompt(h)
        /\ x.do = "store" => Told(f) = Told(h) \cup {x.arg}
        /\ x.do # "store" => Told(f) = Told(h)
        /\ x.do # "adopt" => Told(h) \cap Tracks = {}
        /\ x.do = "store" => x.gen = 0
    <3>1. /\ f.kind = "step" /\ f.todo \in Seq(Effects(m)) /\ f.todo # <<>> /\ Prompt(f)
          /\ h.kind = "step" /\ h.todo = Tail(f.todo) /\ x = Head(f.todo)
      BY <1>1, <1>2, <1>4, <1>5, <1>8
    <3> QED BY <3>1, PromptTaken
  <2>2. Sends(h, storeQ)
    BY <1>1, <1>8, <2>1 DEF Sends
  <2>3. Ordered(r, storeQ)
    BY <1>1, <1>5, <1>6, <1>8, <2>1, <2>2, OrderedOn
  <2>4. x.do # "adopt" => Settled(r)
    BY <1>1, <1>5, <1>6, <1>8, <2>1, SettledOn
  <2>5. /\ x.do = "store" => ToldBy(stack) = ToldBy(r) \cup {x.arg}
        /\ x.do # "store" => ToldBy(stack) = ToldBy(r)
    BY <1>1, <1>7, <2>1
  <2>6. x.do = "store" /\ x.arg \in Tracks => Types(storeQ) \cap (Tracks \cup {"destroy"}) = {}
    BY <1>1, <1>8, <2>1 DEF Sends
  <2> QED BY <1>1, <1>7, <2>1, <2>3, <2>4, <2>5, <2>6
<1>9. ~m.hasStore => ~Busy("store", r)
  BY <1>1, <1>5, <1>6, SettledOn
<1> QED BY <1>6, <1>8, <1>9 DEF r, x

LEMMA TakeBase ==
  ASSUME LifecycleInv, BeliefHolds, OnTop("step"), Top.todo # <<>>, E.do \notin {"adopt", "store"} PROVE Base(Rest)
<1>1. /\ Rest \in Seq(Frames(m))
      /\ m.hasStore => Work(Rest) = Work(stack) /\ ToldBy(stack) = ToldBy(Rest) \cup {} /\ Settled(Rest)
      /\ ~m.hasStore => ~Busy("store", Rest)
  BY TakenOn
<1> QED BY <1>1 DEF Base

\* Of the store program.
LEMMA StoreTaken ==
  ASSUME LifecycleInv, BeliefHolds, OnTop("store"), Top.todo # <<>>
  PROVE  /\ m.hasStore /\ Base(Rest) /\ E \in StoreEffects(m) /\ <<E.do, E.arg>> \in Work(stack)
         /\ E.do = "released" => Work(Rest) = {}
<1> DEFINE b == Tail(stack)
           f == Top
           x == E
           h == [f EXCEPT !.todo = Tail(f.todo)]
           r == Rest
<1>1. /\ m \in Models /\ f \in Frames(m) /\ b \in Seq(Frames(m)) /\ IsOn(stack, f, b)
      /\ ToldBy(stack) = Told(f) \cup ToldBy(b) /\ Work(stack) = Tasks(f) \cup Work(b)
      /\ m.hasStore => Prompt(f) /\ Settled(b) /\ (f.kind = "store" => ~Busy("store", b))
      /\ ~m.hasStore => f.kind # "store"
  BY Now DEF OnTop
<1>2. f.kind = "store" /\ f.todo # <<>> /\ x = Head(f.todo) /\ r = <<h>> \o b
  BY DEF OnTop, E, Rest
<1>3. f.todo \in Seq(StoreEffects(m))
  BY <1>1, <1>2, FrameFacts
<1> DEFINE todo == f.todo
           rest == Tail(f.todo)
<1>4. /\ x = todo[1] /\ 1 \in DOMAIN todo /\ Len(todo) \in Nat \ {0} /\ DOMAIN todo = 1 .. Len(todo) /\ rest \in Seq(StoreEffects(m))
      /\ DOMAIN rest = 1 .. (Len(todo) - 1) /\ Len(rest) = Len(todo) - 1 /\ \A i \in 1 .. (Len(todo) - 1) : rest[i] = todo[i + 1]
      /\ x \in StoreEffects(m)
  BY <1>2, <1>3, Popping
<1>5. h \in Frames(m) /\ h.kind = "store" /\ h.todo = rest
  <2> DEFINE t == Tail(f.todo)
  <2>2. t \in Seq(StoreEffects(m)) /\ f \in Frames(m) /\ m \in Models /\ f.kind = "store"
    BY <1>1, <1>2, <1>4
  <2> HIDE DEF t, f
  <2> QED BY <2>2, StoreWith DEF t
<1>6. \A k \in DOMAIN todo : todo[k].do = "released" => k = Len(todo)
  BY <1>1, <1>2 DEF Prompt
<1>7. /\ Tasks(f) = {<<todo[k].do, todo[k].arg>> : k \in DOMAIN todo} /\ Told(f) = {}
      /\ Tasks(h) = {<<rest[k].do, rest[k].arg>> : k \in DOMAIN rest} /\ Told(h) = {}
  BY <1>2, <1>5 DEF Tasks, Told
<1>8. Prompt(h) <=> \A k \in DOMAIN rest : rest[k].do = "released" => k = Len(rest)
  BY <1>5 DEF Prompt
<1> HIDE DEF todo, rest, h, x, r
<1>9. \A k \in DOMAIN rest : k \in Nat /\ k + 1 \in DOMAIN todo /\ rest[k] = todo[k + 1]
  BY <1>4
<1>10. Prompt(h) /\ Tasks(h) \subseteq Tasks(f) /\ <<x.do, x.arg>> \in Tasks(f)
  <2>1. \A k \in DOMAIN rest : rest[k].do = "released" => k = Len(rest)
    BY <1>4, <1>6, <1>9
  <2>2. Tasks(h) \subseteq Tasks(f)
    BY <1>7, <1>9
  <2>3. <<x.do, x.arg>> \in Tasks(f)
    BY <1>4, <1>7
  <2> QED BY <1>8, <2>1, <2>2, <2>3
<1>11. Base(r)
  <2>1. stack # <<>> /\ h.kind = Top.kind /\ Told(h) = Told(Top) /\ Told(h) \cap Tracks = {} /\ Tasks(h) \subseteq Tasks(Top)
    BY <1>2, <1>5, <1>7, <1>10 DEF OnTop
  <2> HIDE DEF f
  <2>2. r = <<h>> \o Tail(stack)
    BY <1>2
  <2> QED BY <1>5, <1>10, <2>1, <2>2, SwapBase
<1> HIDE DEF f, b
<1>12. ASSUME x.do = "released" PROVE Work(r) = {}
  <2>1. Len(todo) = 1
    BY <1>4, <1>6, <1>12
  <2>2. DOMAIN rest = {}
    BY <1>4, <2>1
  <2>3. Tasks(h) = {}
    BY <1>7, <2>2
  <2>4. IsOn(r, h, b)
    <3>1. IsOn(<<h>> \o b, h, b)
      BY <1>1, <1>5, PushOn
    <3> QED BY <3>1, <1>2, Zenon
  <2>5. Work(b) = {}
    <3>1. \A j \in DOMAIN b : b[j].kind # "store"
      BY <1>1, <1>2 DEF Busy
    <3> QED BY <3>1 DEF Work, Tasks
  <2> QED BY <2>3, <2>4, <2>5, ViewOn
<1>13. m.hasStore /\ <<x.do, x.arg>> \in Work(stack)
  BY <1>1, <1>2, <1>10
<1> QED BY <1>4, <1>11, <1>12, <1>13 DEF r, x

\* Of the Synchronizer.
LEMMA SyncTaken ==
  ASSUME LifecycleInv, BeliefHolds, OnTop("sync"), NEW todo \in Seq(SyncDoings),
         NEW r, r = <<[Top EXCEPT !.todo = todo]>> \o Tail(stack)
  PROVE  Base(r)
<1> DEFINE f == Top
           h == [f EXCEPT !.todo = todo]
<1>1. m \in Models /\ f \in Frames(m)
  BY Now DEF OnTop
<1>2. f.kind = "sync" /\ stack # <<>>
  BY DEF OnTop
<1>3. h \in Frames(m) /\ h.kind = "sync"
  <2>1. f.kind # "store" /\ f.kind # "step" /\ f.kind # "app"
    BY <1>2
  <2>2. h \in Frames(m) /\ h.kind = f.kind
    BY <1>1, <2>1, WithTodo, Zenon
  <2> QED BY <1>2, <2>2
<1>4. Told(h) = {} /\ Tasks(h) = {} /\ Prompt(h) /\ Told(f) = {} /\ Tasks(f) = {}
  BY <1>2, <1>3, TellsNothing
<1>5. h.kind = Top.kind /\ Prompt(h) /\ Told(h) = Told(Top) /\ Told(h) \cap Tracks = {} /\ Tasks(h) \subseteq Tasks(Top)
  BY <1>2, <1>3, <1>4
<1>6. r = <<h>> \o Tail(stack)
  OBVIOUS
<1> HIDE DEF h, f
<1> QED BY <1>2, <1>3, <1>5, <1>6, SwapBase

-----------------------------------------------------------------------------
(* Actions that leave what is believed as it was.                          *)

LEMMA Queued ==
  ASSUME LifecycleInv, BeliefHolds
  PROVE  /\ m \in Models /\ m.entry \in EntryType /\ m.hasStore \in BOOLEAN /\ storeQ \in Seq(StoreInputs(m))
         /\ m.hasStore => InOrder(storeQ) /\ Facts(ToldBy(stack) \cup Types(storeQ), Work(stack), m.entry, store, calls, disk, over)
         /\ ~m.hasStore => Storeless(stack, m.entry, store, calls)
<1>1. m \in Models /\ storeQ \in Seq(StoreInputs(m))
  BY DEF LifecycleInv, StoreTyped, StoreState
<1> QED BY <1>1, ModelFacts DEF BeliefHolds, Belief, Ordered

LEMMA NoDelete ==
  ASSUME NEW S, NEW c \in Seq(S), c # <<>>, \A i \in DOMAIN c : c[i].kind # "delete"
  PROVE  \A i \in DOMAIN Tail(c) : Tail(c)[i].kind # "delete"
<1> DEFINE r == Tail(c)
<1>1. Len(c) \in Nat /\ DOMAIN c = 1 .. Len(c) /\ DOMAIN r = 1 .. (Len(c) - 1) /\ \A i \in 1 .. (Len(c) - 1) : r[i] = c[i + 1]
  BY Popping
<1> HIDE DEF r
<1>2. \A i \in DOMAIN r : i + 1 \in DOMAIN c /\ r[i] = c[i + 1]
  BY <1>1
<1> QED BY <1>2 DEF r

\* The calls of now, or with the first one ended.
CallsKept == calls' = calls \/ (calls # <<>> /\ calls' = Tail(calls))

LEMMA CallsStay ==
  ASSUME m \in Models, CallsTyped, CallsKept
  PROVE  /\ calls' \in Seq(Calls(m))
         /\ \A t, w, e, p, d, closed : Facts(t, w, e, p, calls, d, closed) => Facts(t, w, e, p, calls', d, closed)
         /\ \A s, e, p : Storeless(s, e, p, calls) => Storeless(s, e, p, calls')
<1>1. calls \in Seq(Calls(m))
  BY DEF CallsTyped
<1>2. CASE calls' = calls
  BY <1>1, <1>2
<1>3. CASE calls # <<>> /\ calls' = Tail(calls)
  <2>1. calls' \in Seq(Calls(m))
    BY <1>1, <1>3, Popping
  <2>2. \A t, w, e, p, d, closed : Facts(t, w, e, p, calls, d, closed) => Facts(t, w, e, p, calls', d, closed)
    BY <1>1, <1>3, FactsTaken
  <2>3. \A s, e, p : Storeless(s, e, p, calls) => Storeless(s, e, p, calls')
    BY <1>1, <1>3, NoDelete DEF Storeless
  <2> QED BY <2>1, <2>2, <2>3
<1> QED BY <1>2, <1>3 DEF CallsKept

LEMMA Stays ==
  ASSUME LifecycleInv, CallsTyped, BeliefHolds, NEW b, Base(b), stack' = b, UNCHANGED <<m, storeQ, store, disk, over>>, CallsKept
  PROVE  CallsTyped' /\ BeliefHolds'
<1>1. /\ m \in Models
      /\ m.hasStore => InOrder(storeQ) /\ Facts(ToldBy(stack) \cup Types(storeQ), Work(stack), m.entry, store, calls, disk, over)
      /\ ~m.hasStore => Storeless(stack, m.entry, store, calls)
  BY Queued
<1>2. CallsTyped'
  BY <1>1, CallsStay DEF CallsTyped
<1>3. CASE m.hasStore
  <2>1. Settled(b) /\ ToldBy(b) = ToldBy(stack) /\ Work(b) \subseteq Work(stack)
    BY <1>3 DEF Base
  <2>2. Ordered(b, storeQ)
    BY <1>1, <1>3, <2>1, SettledOrdered
  <2> DEFINE t == ToldBy(stack) \cup Types(storeQ)
  <2>3. Facts(t, Work(stack), m.entry, store, calls', disk, over)
    BY <1>1, <1>3, CallsStay
  <2>4. t \cap Key \subseteq t
    OBVIOUS
  <2> HIDE DEF t
  <2>5. Facts(t, Work(b), m.entry, store, calls', disk, over)
    BY <2>1, <2>3, <2>4, Calm
  <2>6. Belief(b, storeQ, m.entry, store, calls', disk, over)
    BY <2>1, <2>2, <2>5 DEF Belief, t
  <2> QED BY <1>2, <1>3, <2>6 DEF BeliefHolds
<1>4. CASE ~m.hasStore
  <2>1. Storeless(stack, m.entry, store, calls')
    BY <1>1, <1>4, CallsStay
  <2>2. ~Busy("store", b)
    BY <1>4 DEF Base
  <2>3. Storeless(b, m.entry, store, calls')
    BY <2>1, <2>2 DEF Storeless
  <2> QED BY <1>2, <1>4, <2>3 DEF BeliefHolds
<1> QED BY <1>3, <1>4

\* An input comes to the store program's queue.
LEMMA SentOn ==
  ASSUME m \in Models, m.hasStore, ~over, storeQ \in Seq(StoreInputs(m)), InOrder(storeQ), NEW b \in Seq(Frames(m)), Settled(b),
         NEW input \in StoreInputs(m), ToStoreProgram(input, b),
         input.type = "write-succeeded" => storeQ = <<>>,
         input.type \in Tracks => Types(storeQ) \cap (Tracks \cup {"destroy"}) = {}
  PROVE  /\ Ordered(stack', storeQ') /\ ToldBy(stack') = ToldBy(b) /\ Work(stack') = Work(b)
         /\ Types(storeQ') = Types(storeQ) \cup {input.type}
<1> DEFINE f == Frame("store", <<>>, Absent)
           s == <<f>> \o b
<1>1. storeQ' = Append(storeQ, input) /\ stack' = IF Busy("store", b) THEN b ELSE s
  BY DEF ToStoreProgram
<1>2. Types(storeQ') = Types(storeQ) \cup {input.type} /\ InOrder(storeQ')
  BY <1>1, TypesAppended
<1>3. CASE Busy("store", b)
  BY <1>1, <1>2, <1>3, SettledOrdered
<1>4. CASE ~Busy("store", b)
  <2>1. f \in Frames(m) /\ f.kind = "store" /\ f.todo = <<>>
    BY NewFrames
  <2> HIDE DEF f
  <2>2. IsOn(s, f, b)
    BY <2>1, PushOn
  <2> HIDE DEF s
  <2>3. Told(f) = {} /\ Tasks(f) = {} /\ Prompt(f)
    BY <2>1 DEF Told, Tasks, Prompt
  <2>4. Settled(s)
    BY <1>4, <2>2, <2>3, SettledOn
  <2>5. ToldBy(s) = Told(f) \cup ToldBy(b) /\ Work(s) = Tasks(f) \cup Work(b)
    BY <2>2, ViewOn
  <2>6. ToldBy(s) = ToldBy(b) /\ Work(s) = Work(b)
    BY <2>3, <2>5
  <2> QED BY <1>1, <1>2, <1>4, <2>4, <2>6, SettledOrdered
<1> QED BY <1>3, <1>4

\* One that does not matter to what is believed.
LEMMA SendStays ==
  ASSUME LifecycleInv, CallsTyped, BeliefHolds, NEW b, Base(b), NEW type \in {"state-advanced", "write-failed"},
         ToStoreProgram(StoreInput(type, 0), b), UNCHANGED <<m, store, disk, over>>, CallsKept
  PROVE  CallsTyped' /\ BeliefHolds'
<1>1. CASE over \/ ~m.hasStore
  <2>1. stack' = b /\ storeQ' = storeQ
    BY <1>1 DEF ToStoreProgram
  <2> QED BY <2>1, Stays
<1>2. CASE ~over /\ m.hasStore
  <2>1. /\ m \in Models /\ storeQ \in Seq(StoreInputs(m)) /\ InOrder(storeQ)
        /\ Facts(ToldBy(stack) \cup Types(storeQ), Work(stack), m.entry, store, calls, disk, over)
    BY <1>2, Queued
  <2>2. b \in Seq(Frames(m)) /\ Settled(b) /\ ToldBy(b) = ToldBy(stack) /\ Work(b) \subseteq Work(stack)
    BY <1>2 DEF Base
  <2> DEFINE input == StoreInput(type, 0)
  <2>3. input \in StoreInputs(m) /\ input.type = type /\ ToStoreProgram(input, b)
    <3>1. 0 \in 0 .. (m.nextGen - 1)
      BY <2>1, ModelFacts
    <3> QED BY <2>1, <3>1, InputTyped
  <2> HIDE DEF input
  <2>4. type \notin Key /\ type \notin Tracks /\ type # "write-succeeded"
    BY DEF Key, Tracks
  <2>5. /\ Ordered(stack', storeQ') /\ ToldBy(stack') = ToldBy(b) /\ Work(stack') = Work(b)
        /\ Types(storeQ') = Types(storeQ) \cup {type}
    BY <1>2, <2>1, <2>2, <2>3, <2>4, SentOn
  <2> DEFINE t == ToldBy(stack) \cup Types(storeQ)
             t2 == ToldBy(stack') \cup Types(storeQ')
  <2>6. t2 \cap Key \subseteq t /\ t \subseteq t2
    BY <2>2, <2>4, <2>5
  <2>7. Facts(t, Work(stack), m.entry, store, calls', disk, over) /\ calls' \in Seq(Calls(m))
    BY <2>1, CallsStay
  <2> HIDE DEF t, t2
  <2>8. Facts(t2, Work(stack'), m.entry, store, calls', disk, over)
    BY <2>2, <2>5, <2>6, <2>7, Calm
  <2>9. Belief(stack', storeQ', m.entry, store, calls', disk, over)
    BY <2>5, <2>8 DEF Belief, t2
  <2> QED BY <1>2, <2>7, <2>9 DEF BeliefHolds, CallsTyped
<1> QED BY <1>1, <1>2

\* A step that tells the store program nothing that matters.
Calming(n, s) == s.m.hasStore = n.hasStore /\ Calmly(s.effects) /\ Moves(n, s.m.entry)

LEMMA CommitStays ==
  ASSUME LifecycleInv, CallsTyped, BeliefHolds, NEW b, Base(b), NEW s, StepOf(m, s), Calming(m, s), Commit(s, b),
         UNCHANGED <<storeQ, store, disk, over>>, CallsKept
  PROVE  CallsTyped' /\ BeliefHolds'
<1> DEFINE f == Frame("step", s.effects, m.entry)
           u == <<f>> \o b
<1>1. m' = s.m /\ stack' = IF s.refused THEN b ELSE u
  BY DEF Commit
<1>2. /\ m \in Models /\ m.entry \in EntryType
      /\ m.hasStore => InOrder(storeQ) /\ Facts(ToldBy(stack) \cup Types(storeQ), Work(stack), m.entry, store, calls, disk, over)
      /\ ~m.hasStore => Storeless(stack, m.entry, store, calls)
  BY Queued
<1>3. /\ s.m \in Models /\ Later(m, s.m) /\ m.nextGen <= s.m.nextGen /\ s.effects \in Todo(s.m) /\ s.m.entry \in EntryType
      /\ s.m.hasStore = m.hasStore /\ Calmly(s.effects) /\ Moves(m, s.m.entry)
  BY ModelFacts DEF StepOf, Later, Calming
<1>4. CallsTyped' /\ calls' \in Seq(Calls(m))
  BY <1>1, <1>2, <1>3, CallsStay, CallsLater DEF CallsTyped
<1>5. f \in Frames(s.m) /\ f.kind = "step" /\ f.todo = s.effects
  <2>1. f = [kind |-> "step", todo |-> s.effects, before |-> m.entry]
    BY DEF Frame
  <2> HIDE DEF f
  <2> QED BY <1>2, <1>3, <2>1 DEF Frames
<1> HIDE DEF f
<1>6. Prompt(f) /\ Told(f) \cap Key = {} /\ Told(f) \cap Tracks = {} /\ Tasks(f) = {}
  BY <1>3, <1>5, CalmFrame
<1>7. IsOn(u, f, b)
  <2>1. b \in Seq(Frames(s.m))
    BY <1>2, <1>3, LaterFrames DEF Base
  <2> QED BY <1>5, <2>1, PushOn
<1> HIDE DEF u
<1>8. ToldBy(u) = Told(f) \cup ToldBy(b) /\ Work(u) = Tasks(f) \cup Work(b)
  BY <1>7, ViewOn
<1>9. CASE m.hasStore
  <2>1. Settled(b) /\ ToldBy(b) = ToldBy(stack) /\ Work(b) \subseteq Work(stack)
    BY <1>9 DEF Base
  <2>2. Settled(u)
    BY <1>5, <1>6, <1>7, <2>1, SettledOn
  <2>3. /\ Ordered(stack', storeQ) /\ ToldBy(stack') \cap Key \subseteq ToldBy(stack) /\ ToldBy(stack) \subseteq ToldBy(stack')
        /\ Work(stack') \subseteq Work(stack)
    <3>1. CASE s.refused
      BY <1>1, <1>2, <1>9, <2>1, <3>1, SettledOrdered
    <3>2. CASE ~s.refused
      <4>1. Ordered(u, storeQ)
        BY <1>2, <1>9, <2>2, SettledOrdered
      <4>2. ToldBy(u) \cap Key \subseteq ToldBy(stack) /\ ToldBy(stack) \subseteq ToldBy(u) /\ Work(u) \subseteq Work(stack)
        BY <1>6, <1>8, <2>1
      <4> QED BY <1>1, <3>2, <4>1, <4>2
    <3> QED BY <3>1, <3>2
  <2> DEFINE t == ToldBy(stack) \cup Types(storeQ)
             t2 == ToldBy(stack') \cup Types(storeQ)
  <2>4. t2 \cap Key \subseteq t /\ t \subseteq t2
    BY <2>3
  <2>5. Facts(t, Work(stack), m.entry, store, calls', disk, over)
    BY <1>2, <1>9, CallsStay
  <2> HIDE DEF t, t2
  <2>6. Facts(t2, Work(stack'), m.entry, store, calls', disk, over)
    BY <2>3, <2>4, <2>5, Calm
  <2>7. Facts(t2, Work(stack'), s.m.entry, store, calls', disk, over)
    BY <1>2, <1>3, <1>4, <1>9, <2>6, FactsMoved
  <2>8. Belief(stack', storeQ, s.m.entry, store, calls', disk, over)
    BY <2>3, <2>7 DEF Belief, t2
  <2> QED BY <1>1, <1>3, <1>4, <1>9, <2>8 DEF BeliefHolds
<1>10. CASE ~m.hasStore
  <2>1. ~Busy("store", stack')
    <3>1. ~Busy("store", b)
      BY <1>10 DEF Base
    <3>2. ~Busy("store", u)
      BY <1>5, <1>7, <3>1, SettledOn
    <3> QED BY <1>1, <3>1, <3>2
  <2>2. Storeless(stack, m.entry, store, calls')
    BY <1>2, <1>10, CallsStay
  <2>3. Storeless(stack', s.m.entry, store, calls')
    BY <1>3, <1>10, <2>1, <2>2 DEF Storeless, Moves
  <2> QED BY <1>1, <1>3, <1>4, <1>10, <2>3 DEF BeliefHolds
<1> QED BY <1>9, <1>10

-----------------------------------------------------------------------------
(* Steps that tell the store program nothing that matters.                 *)

\* Without a store nothing is loaded, nor unloaded.
Fits(n) == n.hasStore \/ n.entry.phase \in {"absent", "deferred", "ready"}

LEMMA PutEntry ==
  ASSUME NEW n \in Drafts, NEW x
  PROVE  Put(n, x).entry = x /\ Put(n, x).hasStore = n.hasStore /\ Put(n, x).nextGen = n.nextGen
<1>1. Put(n, x) = [entry |-> x, departing |-> n.departing, nextGen |-> n.nextGen, hooked |-> n.hooked, hasStore |-> n.hasStore]
  BY DraftFacts DEF Put
<1> QED BY <1>1

LEMMA CalmDoes ==
  ASSUME NEW n, NEW p, NEW effects, Calmly(effects), p.hasStore = n.hasStore, Moves(n, p.entry)
  PROVE  Calming(n, Does(p, effects))
<1>1. Does(p, effects).m = p /\ Does(p, effects).effects = effects
  BY DoesIs
<1> QED BY <1>1 DEF Calming

LEMMA CalmPut ==
  ASSUME NEW n \in Drafts, NEW x, NEW effects, Calmly(effects), Moves(n, x) PROVE Calming(n, Does(Put(n, x), effects))
BY PutEntry, CalmDoes

LEMMA StaysPut ==
  ASSUME NEW n \in Models, Fits(n)
  PROVE  /\ Moves(n, n.entry)
         /\ \A x : x.phase = n.entry.phase /\ x.gen = n.entry.gen => Moves(n, x)
         /\ Calming(n, Nothing2Do(n)) /\ Calming(n, Refuse(n))
<1>1. \A x : x.phase = n.entry.phase /\ x.gen = n.entry.gen => Moves(n, x)
  BY DEF Moves, Fits
<1>2. /\ Nothing2Do(n).m = n /\ Nothing2Do(n).effects = <<>>
      /\ Refuse(n).m = n /\ Refuse(n).effects = <<>>
  BY DEF Refuse, Nothing2Do, Does
<1> QED BY <1>1, <1>2, CalmNone DEF Calming

\* A build, of one promoted or with no store, is ready at once; another loads.
LEMMA FinishCalm ==
  ASSUME NEW n \in Drafts, NEW e \in EntryType, e.intent = "create"
  PROVE  LET s == FinishLoad(n, e, "none") IN s.m.hasStore = n.hasStore /\ Calmly(s.effects) /\ s.m.entry.phase = "ready"
<1> DEFINE x == [e EXCEPT !.phase = "ready", !.intent = "none", !.registered = n.hooked]
           p == Put(n, x)
           a == When(e.tier = "interpret", <<Named("adopt", e.gen)>>)
           b == StoreLearns("none")
           c == When(Registers(n, FALSE), <<Register(e.gen, e.suspended)>>)
           d == When(e.tier = "interpret", <<Named("wire", e.gen)>>)
           ab == a \o b
           abc == ab \o c
           s == FinishLoad(n, e, "none")
<1>1. x.phase = "ready" /\ e.gen \in Nat /\ e.suspended \in BOOLEAN
  BY DEF EntryType
<1> HIDE DEF x
<1>2. p.entry = x /\ p.hasStore = n.hasStore
  BY PutEntry
<1>3. s = Does(p, abc \o d)
  BY DEF FinishLoad, x
<1> HIDE DEF p, s
<1>4. Calmly(a) /\ Calmly(d)
  <2>1. Named("adopt", e.gen) \in CalmEffects /\ Named("wire", e.gen) \in CalmEffects
    BY <1>1, CalmIn DEF Dos
  <2> QED BY <2>1, CalmWhen
<1>5. Calmly(b)
  BY CalmNone DEF StoreLearns
<1>6. Calmly(c)
  <2>1. Register(e.gen, e.suspended) \in CalmEffects
    BY <1>1, CalmIn
  <2> QED BY <2>1, CalmWhen
<1> HIDE DEF a, b, c, d
<1>7. Calmly(ab)
  BY <1>4, <1>5, CalmBoth
<1> HIDE DEF ab
<1>8. Calmly(abc)
  BY <1>6, <1>7, CalmBoth
<1> HIDE DEF abc
<1>9. Calmly(abc \o d)
  BY <1>4, <1>8, CalmBoth
<1>10. s.m = p /\ s.effects = abc \o d
  BY <1>3, DoesIs
<1> QED BY <1>1, <1>2, <1>9, <1>10 DEF s

LEMMA IssuedDraft ==
  ASSUME NEW n \in Drafts
  PROVE  /\ Issued(n) \in Drafts /\ Issued(n).hasStore = n.hasStore /\ Issued(n).nextGen = n.nextGen + 1
         /\ Issued(n).departing = n.departing /\ Issued(n).entry = n.entry
<1> DEFINE p == Issued(n)
<1>1. /\ n.nextGen \in Nat \ {0} /\ Live(n) \subseteq 1 .. (n.nextGen - 1)
      /\ n.entry \in EntryType /\ n.departing \subseteq 1 .. (n.nextGen - 1) /\ n.hooked \in BOOLEAN /\ n.hasStore \in BOOLEAN
  BY DraftFacts
<1>2. p = [entry |-> n.entry, departing |-> n.departing, nextGen |-> n.nextGen + 1, hooked |-> n.hooked, hasStore |-> n.hasStore]
  BY DraftFacts DEF Issued
<1>3. p \in [entry : EntryType, departing : SUBSET Nat, nextGen : Nat \ {0}, hooked : BOOLEAN, hasStore : BOOLEAN]
  BY <1>1, <1>2
<1>4. p.entry = n.entry /\ p.departing = n.departing /\ p.nextGen = n.nextGen + 1 /\ p.hasStore = n.hasStore
  BY <1>2
<1> HIDE DEF p
<1>5. Live(p) = Live(n) /\ Steady(p) = Steady(n)
  BY <1>4 DEF Live, Held, Steady
<1>6. Live(p) \subseteq 1 .. (p.nextGen - 1)
  BY <1>1, <1>4, <1>5
<1>7. (~IsHeld(n.entry) => n.entry.gen = 0) /\ Steady(n) \cap n.departing = {}
      /\ (n.entry.phase \notin {"absent", "deferred"} => n.entry.tier \in Tier)
  BY DEF Drafts
<1>8. p \in Drafts
  BY <1>3, <1>4, <1>5, <1>6, <1>7 DEF Drafts
<1> QED BY <1>4, <1>8 DEF p

LEMMA BeginCalm ==
  ASSUME NEW n \in Drafts, NEW tier \in Tier, NEW promoted \in Nat, NEW suspended \in BOOLEAN,
         NEW intent \in {"create", "open-deferred", "open-unloaded", "open-absent"},
         promoted # 0 \/ ~n.hasStore => intent = "create",
         NEW s, s = Begin(n, tier, promoted, suspended, intent)
  PROVE  /\ s.m.hasStore = n.hasStore /\ Calmly(s.effects)
         /\ n.hasStore /\ promoted = 0 => s.m.entry.phase = "loading" /\ s.m.entry.gen = n.nextGen
         /\ ~(n.hasStore /\ promoted = 0) => s.m.entry.phase = "ready"
<1> DEFINE gen     == n.nextGen
           issued  == Issued(n)
           loading == [Entry("loading", gen, tier, suspended) EXCEPT !.intent = intent]
           loads   == IF n.hasStore /\ promoted = 0 THEN Does(Put(issued, loading), <<Named("load", gen)>>)
                      ELSE FinishLoad(issued, loading, "none")
           before  == When(tier = "interpret", <<Named("interpreted", gen)>>)
<1>1. gen \in Nat
  BY DraftFacts
<1>2. issued \in Drafts /\ issued.hasStore = n.hasStore
  BY IssuedDraft
<1>3. loading \in EntryType /\ loading.phase = "loading" /\ loading.gen = gen /\ loading.intent = intent
  BY <1>1 DEF Entry, EntryType, Phases, HeldPhases
<1>4. s = [loads EXCEPT !.builds = {Build(gen, tier, promoted)}, !.effects = before \o @]
  BY DEF Begin
<1>5. Named("interpreted", gen) \in CalmEffects /\ Named("load", gen) \in CalmEffects
  BY <1>1, CalmIn DEF Dos
<1>6. Calmly(before) /\ Calmly(<<Named("load", gen)>>)
  BY <1>5, CalmWhen, CalmNone
<1> HIDE DEF issued, loading, before
<1>7. /\ loads = [m |-> loads.m, refused |-> FALSE, builds |-> {}, effects |-> loads.effects]
      /\ loads.m.hasStore = n.hasStore /\ Calmly(loads.effects)
      /\ IF n.hasStore /\ promoted = 0 THEN loads.m.entry.phase = "loading" /\ loads.m.entry.gen = gen
         ELSE loads.m.entry.phase = "ready"
  <2>1. CASE n.hasStore /\ promoted = 0
    <3> DEFINE p == Put(issued, loading)
               l == <<Named("load", gen)>>
    <3>1. p.entry = loading /\ p.hasStore = n.hasStore
      BY <1>2, PutEntry
    <3> HIDE DEF p, l
    <3>2. loads = [m |-> p, refused |-> FALSE, builds |-> {}, effects |-> l]
      BY <2>1 DEF Does, p, l
    <3>3. loads.m = p /\ loads.effects = l
      BY <3>2
    <3> QED BY <1>3, <1>6, <2>1, <3>1, <3>2, <3>3 DEF l
  <2>2. CASE ~(n.hasStore /\ promoted = 0)
    <3>1. loads = FinishLoad(issued, loading, "none") /\ loading.intent = "create"
      BY <1>3, <2>2
    <3>2. loads.m.hasStore = issued.hasStore /\ Calmly(loads.effects) /\ loads.m.entry.phase = "ready"
      BY <1>2, <1>3, <3>1, FinishCalm
    <3>3. loads = [m |-> loads.m, refused |-> FALSE, builds |-> {}, effects |-> loads.effects]
      <4> DEFINE p == Put(issued, [loading EXCEPT !.phase = "ready", !.intent = "none", !.registered = issued.hooked])
                 t == When(loading.tier = "interpret", <<Named("adopt", loading.gen)>>)
                        \o StoreLearns("none")
                        \o When(Registers(issued, FALSE), <<Register(loading.gen, loading.suspended)>>)
                        \o When(loading.tier = "interpret", <<Named("wire", loading.gen)>>)
      <4>1. loads = Does(p, t)
        BY <3>1 DEF FinishLoad
      <4> HIDE DEF p, t, loads
      <4>2. loads = [m |-> p, refused |-> FALSE, builds |-> {}, effects |-> t]
        BY <4>1 DEF Does
      <4> QED BY <4>2
    <3> QED BY <1>2, <2>2, <3>2, <3>3
  <2> QED BY <2>1, <2>2
<1> HIDE DEF loads
<1> DEFINE p == loads.m
           t == before \o loads.effects
           b == {Build(gen, tier, promoted)}
<1>8. s = [m |-> p, refused |-> FALSE, builds |-> b, effects |-> t]
  <2>1. s = [loads EXCEPT !.builds = b, !.effects = t]
    BY <1>4, <1>7
  <2> DEFINE u == loads.effects
  <2>2. loads = [m |-> p, refused |-> FALSE, builds |-> {}, effects |-> u]
    BY <1>7
  <2> HIDE DEF p, b, t, u
  <2> QED BY <2>1, <2>2
<1>9. s.m = p /\ s.effects = t
  BY <1>8
<1>10. Calmly(t)
  BY <1>6, <1>7, CalmBoth
<1> QED BY <1>7, <1>9, <1>10

\* One that promotes none.
LEMMA BeginNew ==
  ASSUME NEW n \in Drafts, NEW tier \in Tier, NEW suspended \in BOOLEAN,
         NEW intent \in {"create", "open-deferred", "open-unloaded", "open-absent"}, ~n.hasStore => intent = "create",
         NEW s, s = Begin(n, tier, 0, suspended, intent)
  PROVE  /\ s.m.hasStore = n.hasStore /\ Calmly(s.effects)
         /\ n.hasStore => s.m.entry.phase = "loading" /\ s.m.entry.gen = n.nextGen
         /\ ~n.hasStore => s.m.entry.phase = "ready"
<1> DEFINE none == 0
<1>1. none \in Nat /\ s = Begin(n, tier, none, suspended, intent) /\ none = 0
  OBVIOUS
<1> HIDE DEF none
<1>2. none # 0 \/ ~n.hasStore => intent = "create"
  BY <1>1
<1>3. /\ s.m.hasStore = n.hasStore /\ Calmly(s.effects)
      /\ n.hasStore /\ none = 0 => s.m.entry.phase = "loading" /\ s.m.entry.gen = n.nextGen
      /\ ~(n.hasStore /\ none = 0) => s.m.entry.phase = "ready"
  BY <1>1, <1>2, BeginCalm
<1> QED BY <1>1, <1>3

-----------------------------------------------------------------------------
(* The doors that do.                                                      *)

\* A leaving instance departs.
LEMMA DepartedDraft ==
  ASSUME NEW n \in Models, n.entry.phase = "leaving"
  PROVE  LET r == [n EXCEPT !.departing = @ \cup {n.entry.gen}] IN
         r \in Drafts /\ r.nextGen = n.nextGen /\ r.hasStore = n.hasStore /\ r.entry = n.entry
<1> DEFINE e == n.entry
           r == [n EXCEPT !.departing = @ \cup {e.gen}]
<1>1. /\ e \in EntryType /\ n.nextGen \in Nat \ {0} /\ n.departing \subseteq 1 .. (n.nextGen - 1)
      /\ e.gen \in 1 .. (n.nextGen - 1)
      /\ n = [entry |-> e, departing |-> n.departing, nextGen |-> n.nextGen, hooked |-> n.hooked, hasStore |-> n.hasStore]
      /\ n.hooked \in BOOLEAN /\ n.hasStore \in BOOLEAN
  BY ModelFacts DEF IsHeld, HeldPhases
<1>2. r = [entry |-> e, departing |-> n.departing \cup {e.gen}, nextGen |-> n.nextGen, hooked |-> n.hooked, hasStore |-> n.hasStore]
  BY <1>1
<1>3. r.entry = e /\ r.departing = n.departing \cup {e.gen} /\ r.nextGen = n.nextGen /\ r.hasStore = n.hasStore
  BY <1>2
<1>4. r \in [entry : EntryType, departing : SUBSET Nat, nextGen : Nat \ {0}, hooked : BOOLEAN, hasStore : BOOLEAN]
  BY <1>1, <1>2
<1> HIDE DEF r
<1>5. Steady(r) = {}
  BY <1>3 DEF Steady
<1>6. Live(r) \subseteq 1 .. (r.nextGen - 1)
  BY <1>1, <1>3 DEF Live, Held
<1>7. IsHeld(e) /\ e.tier \in Tier
  BY ModelFacts DEF IsHeld, HeldPhases
<1>8. r \in Drafts
  BY <1>3, <1>4, <1>5, <1>6, <1>7 DEF Drafts
<1> QED BY <1>3, <1>8 DEF r

LEMMA LoadAgainCalm ==
  ASSUME NEW n \in Models, n.hasStore, n.entry.phase \in {"unloaded", "leaving"}, NEW tier \in Tier, NEW kind
  PROVE  Calming(n, LoadAgain(n, tier, kind))
<1> DEFINE e == n.entry
           r == IF e.phase = "leaving" THEN [n EXCEPT !.departing = @ \cup {e.gen}] ELSE n
           intent == IF kind = "create" THEN "create" ELSE "open-unloaded"
           s == Begin(r, tier, 0, e.suspended, intent)
<1>1. e \in EntryType /\ n.nextGen \in Nat \ {0}
  BY ModelFacts
<1>2. r \in Drafts /\ r.nextGen = n.nextGen /\ r.hasStore
  BY DepartedDraft DEF Models
<1>3. e.suspended \in BOOLEAN /\ intent \in {"create", "open-deferred", "open-unloaded", "open-absent"} /\ 0 \in Nat
  BY <1>1 DEF EntryType
<1>5. LoadAgain(n, tier, kind) = s
  BY DEF LoadAgain
<1> HIDE DEF r, intent
<1>8. s = Begin(r, tier, 0, e.suspended, intent)
  OBVIOUS
<1> HIDE DEF s, e
<1>4. s.m.hasStore = r.hasStore /\ Calmly(s.effects) /\ s.m.entry.phase = "loading" /\ s.m.entry.gen = r.nextGen
  <2>1. r \in Drafts /\ tier \in Tier /\ e.suspended \in BOOLEAN
    BY <1>2, <1>3
  <2>2. intent \in {"create", "open-deferred", "open-unloaded", "open-absent"}
    BY <1>3
  <2>3. ~r.hasStore => intent = "create"
    BY <1>2
  <2>4. /\ s.m.hasStore = r.hasStore /\ Calmly(s.effects)
        /\ r.hasStore => s.m.entry.phase = "loading" /\ s.m.entry.gen = r.nextGen
        /\ ~r.hasStore => s.m.entry.phase = "ready"
    BY <2>1, <2>2, <2>3, <1>8, BeginNew
  <2> QED BY <1>2, <2>4
<1>6. Moves(n, s.m.entry)
  BY <1>2, <1>4 DEF Moves
<1>7. s.m.hasStore = n.hasStore
  BY <1>2, <1>4, ModelFacts
<1> QED BY <1>4, <1>5, <1>6, <1>7 DEF Calming

LEMMA GetOtherCalm ==
  ASSUME NEW n \in Models, Fits(n), n.entry.phase # "storing", NEW kind \in {"create", "open"}, NEW fits \in BOOLEAN
  PROVE  Calming(n, GetOther(n, kind, fits))
<1>1. /\ n.entry \in EntryType /\ (IsHeld(n.entry) => n.entry.tier \in Tier) /\ n \in Drafts /\ n.entry.suspended \in BOOLEAN
      /\ IsHeld(n.entry) => n.entry.gen \in Nat \ {0}
  BY ModelFacts DEF Models, EntryType
<1>2. CASE n.entry.phase \in {"unloaded", "leaving"}
  <2>1. n.hasStore
    BY <1>2 DEF Fits
  <2>2. Calming(n, LoadAgain(n, "interpret", kind))
    BY <1>2, <2>1, LoadAgainCalm DEF Tier
  <2> QED BY <1>2, <2>2, StaysPut DEF GetOther, GetStored
<1>3. CASE n.entry.phase \in {"absent", "deferred"}
  <2> DEFINE intent == CASE kind = "create" -> "create"
                         [] kind = "open" /\ n.entry.phase = "deferred" -> "open-deferred"
                         [] kind = "open" /\ n.entry.phase = "absent"   -> "open-absent"
             s == Begin(n, "interpret", 0, FALSE, intent)
  <2>1. GetOther(n, kind, fits) = GetNew(n, kind)
    BY <1>3 DEF GetOther
  <2>2. CASE kind = "open" /\ ~n.hasStore
    BY <2>1, <2>2, StaysPut DEF GetNew
  <2>3. CASE ~(kind = "open" /\ ~n.hasStore)
    <3>1. intent \in {"create", "open-deferred", "open-unloaded", "open-absent"} /\ (~n.hasStore => intent = "create")
      BY <1>3, <2>3
    <3>2. GetOther(n, kind, fits) = s
      BY <2>1, <2>3 DEF GetNew
    <3> HIDE DEF intent
    <3>3. /\ s.m.hasStore = n.hasStore /\ Calmly(s.effects)
          /\ IF n.hasStore THEN s.m.entry.phase = "loading" /\ s.m.entry.gen = n.nextGen ELSE s.m.entry.phase = "ready"
      <4> DEFINE off == FALSE
      <4>1. "interpret" \in Tier /\ off \in BOOLEAN
        BY DEF Tier
      <4>3. s = Begin(n, "interpret", 0, off, intent)
        OBVIOUS
      <4> HIDE DEF s, off
      <4>4. /\ s.m.hasStore = n.hasStore /\ Calmly(s.effects)
            /\ n.hasStore => s.m.entry.phase = "loading" /\ s.m.entry.gen = n.nextGen
            /\ ~n.hasStore => s.m.entry.phase = "ready"
        BY <1>1, <3>1, <4>1, <4>3, BeginNew
      <4> QED BY <4>4
    <3> HIDE DEF s
    <3>4. Moves(n, s.m.entry)
      BY <1>3, <3>3 DEF Moves
    <3> QED BY <3>2, <3>3, <3>4 DEF Calming
  <2> QED BY <2>2, <2>3
<1>4. CASE n.entry.phase \in {"loading", "ready", "failed"} /\ n.entry.tier = "interpret"
  <2> DEFINE x == [n.entry EXCEPT !.intent = "create"]
  <2>1. x.phase = n.entry.phase /\ x.gen = n.entry.gen
    BY <1>1 DEF EntryType
  <2> HIDE DEF x
  <2>2. Calming(n, Nothing2Do(Put(n, x)))
    BY <1>1, <2>1, StaysPut, CalmPut, CalmNone DEF Nothing2Do
  <2>3. GetOther(n, kind, fits) \in {Nothing2Do(Put(n, x)), Nothing2Do(n), Refuse(n)}
    BY <1>4 DEF GetOther, GetCached, x
  <2> QED BY <2>2, <2>3, StaysPut
<1>5. CASE n.entry.phase \in {"loading", "ready", "failed"} /\ n.entry.tier = "replicate"
  <2> DEFINE s == Begin(n, "interpret", n.entry.gen, n.entry.suspended, "create")
  <2>1. GetOther(n, kind, fits) = GetReplica(n, fits) /\ n.entry.gen \in Nat \ {0}
    BY <1>1, <1>5 DEF GetOther, IsHeld, HeldPhases
  <2>2. CASE ~(n.entry.phase = "ready" /\ fits)
    BY <2>1, <2>2, StaysPut DEF GetReplica
  <2>3. CASE n.entry.phase = "ready" /\ fits
    <3>2. GetOther(n, kind, fits) = s
      BY <2>1, <2>3 DEF GetReplica
    <3>4. s = Begin(n, "interpret", n.entry.gen, n.entry.suspended, "create")
      OBVIOUS
    <3> HIDE DEF s
    <3>1. s.m.hasStore = n.hasStore /\ Calmly(s.effects) /\ s.m.entry.phase = "ready"
      BY <1>1, <2>1, <3>4, BeginCalm DEF Tier
    <3>3. Moves(n, s.m.entry)
      BY <2>3, <3>1 DEF Moves
    <3> QED BY <3>1, <3>2, <3>3 DEF Calming
  <2> QED BY <2>2, <2>3
<1>6. n.entry.phase \in {"unloaded", "leaving", "absent", "deferred", "loading", "ready", "failed"}
  BY <1>1 DEF EntryType, Phases, HeldPhases
<1>7. n.entry.phase \in {"loading", "ready", "failed"} => n.entry.tier \in {"interpret", "replicate"}
  BY <1>1 DEF IsHeld, HeldPhases, Tier
<1> QED BY <1>2, <1>3, <1>4, <1>5, <1>6, <1>7

LEMMA CancelCalm ==
  ASSUME NEW n \in Models, Fits(n), n.entry.phase = "storing"
  PROVE  LET s == Cancel(n) IN
         s.m \in Models /\ s.m.hasStore /\ n.hasStore /\ s.m.entry.phase = "ready" /\ s.m.nextGen = n.nextGen /\ Calmly(s.effects)
<1> DEFINE e == n.entry
           x == [e EXCEPT !.phase = "ready", !.registered = e.registered \/ n.hooked]
           p == Put(n, x)
           a == <<ToStore("keep", 0)>>
           b == When(e.registered /\ ~e.suspended, <<Leaving(FALSE)>>)
           c == When(Registers(n, e.registered), <<Register(e.gen, e.suspended)>>)
           ab == a \o b
           abc == ab \o c
           s == Cancel(n)
<1>1. s.m \in Models /\ s.m.entry.phase = "ready" /\ s.m.nextGen = n.nextGen
  BY CancelStep
<1>2. s = Does(p, abc)
  BY DEF Cancel
<1>3. n \in Drafts /\ n.hasStore /\ e.gen \in Nat /\ e.suspended \in BOOLEAN
  BY ModelFacts DEF Fits, Models, EntryType
<1> HIDE DEF x
<1>4. p.hasStore = n.hasStore
  BY <1>3, PutEntry
<1> HIDE DEF p
<1>5. Calmly(a)
  <2>1. ToStore("keep", 0) \in CalmEffects
    BY CalmIn
  <2> QED BY <2>1, CalmNone
<1>6. Calmly(b)
  <2>1. Leaving(FALSE) \in CalmEffects
    BY CalmIn
  <2> QED BY <2>1, CalmWhen
<1>7. Calmly(c)
  <2>1. Register(e.gen, e.suspended) \in CalmEffects
    BY <1>3, CalmIn
  <2> QED BY <2>1, CalmWhen
<1> HIDE DEF a, b, c
<1>8. Calmly(ab)
  BY <1>5, <1>6, CalmBoth
<1> HIDE DEF ab
<1>9. Calmly(abc)
  BY <1>7, <1>8, CalmBoth
<1> HIDE DEF abc, s
<1>10. s.m = p /\ s.effects = abc
  BY <1>2, DoesIs
<1> QED BY <1>1, <1>3, <1>4, <1>9, <1>10 DEF s

LEMMA GetCalm ==
  ASSUME NEW n \in Models, Fits(n), NEW kind \in {"create", "open"}, NEW fits \in BOOLEAN
  PROVE  Calming(n, Get(n, kind, fits))
<1>1. CASE n.entry.phase # "storing"
  BY <1>1, GetOtherCalm DEF Get
<1>2. CASE n.entry.phase = "storing"
  <2> DEFINE c == Cancel(n)
             t == GetOther(c.m, kind, fits)
             u == [t EXCEPT !.effects = c.effects \o @]
  <2>1. c.m \in Models /\ c.m.hasStore /\ n.hasStore /\ c.m.entry.phase = "ready" /\ c.m.nextGen = n.nextGen /\ Calmly(c.effects)
    BY <1>2, CancelCalm
  <2>2. Get(n, kind, fits) = IF t.refused THEN Refuse(n) ELSE u
    BY <1>2 DEF Get, Sequence
  <2> HIDE DEF c
  <2>3. /\ Calming(c.m, t)
        /\ t = [m |-> t.m, refused |-> t.refused, builds |-> t.builds, effects |-> t.effects]
    BY <2>1, GetOtherCalm, GetOtherStep DEF Fits, StepOf
  <2> HIDE DEF t
  <2>4. ASSUME ~t.refused PROVE Calming(n, u)
    <3> DEFINE e == c.effects \o t.effects
               p == t.m
               r == t.refused
               bs == t.builds
               te == t.effects
    <3>1. t = [m |-> p, refused |-> r, builds |-> bs, effects |-> te]
      BY <2>3
    <3>2. u = [t EXCEPT !.effects = e]
      BY <3>1
    <3>3. Calmly(e)
      BY <2>1, <2>3, CalmBoth DEF Calming
    <3> HIDE DEF e, p, r, bs, te, u
    <3>4. u.m = p /\ u.effects = e
      BY <3>1, <3>2
    <3>5. p.hasStore = c.m.hasStore /\ Moves(c.m, p.entry)
      BY <2>3 DEF Calming, p
    <3>6. Moves(n, p.entry)
      BY <1>2, <2>1, <3>5 DEF Moves
    <3>7. p.hasStore = n.hasStore
      BY <2>1, <3>5, ModelFacts
    <3> QED BY <3>3, <3>4, <3>6, <3>7 DEF Calming
  <2> QED BY <2>2, <2>4, StaysPut
<1> QED BY <1>1, <1>2

LEMMA ReplicateCalm == ASSUME NEW n \in Models, Fits(n) PROVE Calming(n, Replicate(n))
<1>1. CASE IsHeld(n.entry) \/ (n.entry.phase = "unloaded" /\ n.entry.tier = "interpret")
  BY <1>1, StaysPut DEF Replicate
<1>2. CASE ~(IsHeld(n.entry) \/ (n.entry.phase = "unloaded" /\ n.entry.tier = "interpret"))
  <2> DEFINE s == Begin(n, "replicate", 0, n.entry.suspended, "create")
  <2>1. Replicate(n) = s /\ s = Begin(n, "replicate", 0, n.entry.suspended, "create")
    BY <1>2 DEF Replicate
  <2> HIDE DEF s
  <2>2. n \in Drafts /\ n.entry.suspended \in BOOLEAN /\ "replicate" \in Tier
    BY ModelFacts DEF Models, EntryType, Tier
  <2>3. /\ s.m.hasStore = n.hasStore /\ Calmly(s.effects)
        /\ n.hasStore => s.m.entry.phase = "loading" /\ s.m.entry.gen = n.nextGen
        /\ ~n.hasStore => s.m.entry.phase = "ready"
    BY <2>1, <2>2, BeginNew
  <2>4. n.entry.phase \notin {"ready", "storing"}
    BY <1>2 DEF IsHeld, HeldPhases
  <2>5. Moves(n, s.m.entry)
    BY <2>3, <2>4 DEF Moves
  <2> QED BY <2>1, <2>3, <2>5 DEF Calming
<1> QED BY <1>1, <1>2

LEMMA ReloadCalm == ASSUME NEW n \in Models, Fits(n) PROVE Calming(n, Reload(n))
<1>1. n.entry.phase = "unloaded" => n.entry.tier \in Tier /\ n.hasStore
  BY DEF Models, Drafts, Fits
<1>2. n.entry.phase = "unloaded" => Calming(n, LoadAgain(n, n.entry.tier, "open"))
  BY <1>1, LoadAgainCalm
<1> QED BY <1>2, StaysPut DEF Reload

LEMMA DeferCalm == ASSUME NEW n \in Models, Fits(n) PROVE Calming(n, Defer(n))
<1>1. n \in Drafts
  BY DEF Models
<1>2. n.entry.phase = "absent" => Moves(n, Deferred)
  BY BaseEntries DEF Moves
<1>3. n.entry.phase = "absent" => Calming(n, Nothing2Do(Put(n, Deferred)))
  BY <1>1, <1>2, CalmPut, CalmNone DEF Nothing2Do
<1> QED BY <1>3, StaysPut DEF Defer

LEMMA SuspendCalm == ASSUME NEW n \in Models, Fits(n) PROVE Calming(n, Suspend(n)) /\ Calming(n, Resume(n))
<1>1. ASSUME NEW on \in BOOLEAN, NEW todo \in {"suspended", "resumed"}
      PROVE  Calming(n, Does(Put(n, [n.entry EXCEPT !.suspended = on]), <<Notify(todo)>>))
  <2> DEFINE x == [n.entry EXCEPT !.suspended = on]
             t == <<Notify(todo)>>
  <2>1. x.phase = n.entry.phase /\ x.gen = n.entry.gen
    BY ModelFacts DEF EntryType
  <2> HIDE DEF x
  <2>2. Notify(todo) \in CalmEffects
    BY CalmIn
  <2>3. Calmly(t)
    BY <2>2, CalmNone
  <2> HIDE DEF t
  <2>4. Calming(n, Does(Put(n, x), t))
    BY <2>1, <2>3, StaysPut, CalmPut DEF Models
  <2> QED BY <2>4 DEF x, t
<1>2. n.entry.suspended \in BOOLEAN /\ n.entry.phase \in Phases
  BY ModelFacts DEF EntryType
<1>3. Suspend(n) \in {Refuse(n), Nothing2Do(n), Does(Put(n, [n.entry EXCEPT !.suspended = TRUE]), <<Notify("suspended")>>)}
  BY <1>2 DEF Suspend, IsHeld, Phases, HeldPhases
<1>4. Resume(n) \in {Refuse(n), Does(Put(n, [n.entry EXCEPT !.suspended = FALSE]), <<Notify("resumed")>>)}
  BY DEF Resume
<1> QED BY <1>1, <1>3, <1>4, StaysPut

LEMMA UnloadCalm == ASSUME NEW n \in Models, Fits(n) PROVE Calming(n, Unload(n))
<1>1. n.entry.phase \in Phases /\ n.hasStore \in BOOLEAN
  BY ModelFacts DEF EntryType
<1>2. CASE ~(n.entry.phase = "ready" /\ n.hasStore)
  <2>1. Unload(n) \in {Refuse(n), Nothing2Do(n)}
    BY <1>1, <1>2 DEF Unload, Phases, HeldPhases
  <2> QED BY <2>1, StaysPut
<1>3. CASE n.entry.phase = "ready" /\ n.hasStore
  <2> DEFINE e == n.entry
             x == [e EXCEPT !.phase = "storing"]
             a == When(e.tier = "interpret", <<Named("drain", e.gen)>>)
             b == When(e.registered /\ ~e.suspended, <<Leaving(TRUE)>>)
             c == <<ToStore("state-advanced", 0), ToStore("release", e.gen)>>
             ab == a \o b
             abc == ab \o c
  <2>1. x.phase = "storing" /\ e.gen \in Nat
    BY ModelFacts DEF EntryType
  <2>2. Unload(n) = Does(Put(n, x), abc)
    BY <1>3 DEF Unload, BeginUnload
  <2> HIDE DEF x
  <2>3. Calmly(a)
    <3>1. Named("drain", e.gen) \in CalmEffects
      BY <2>1, CalmIn DEF Dos
    <3> QED BY <3>1, CalmWhen
  <2>4. Calmly(b)
    <3>1. Leaving(TRUE) \in CalmEffects
      BY CalmIn
    <3> QED BY <3>1, CalmWhen
  <2>5. Calmly(c)
    <3> DEFINE none == 0
    <3>1. none \in Nat
      OBVIOUS
    <3> HIDE DEF none
    <3>2. ToStore("state-advanced", none) \in CalmEffects /\ ToStore("release", e.gen) \in CalmEffects
      BY <2>1, <3>1, CalmIn
    <3> QED BY <3>2, CalmNone DEF none
  <2> HIDE DEF a, b, c
  <2>6. Calmly(ab)
    BY <2>3, <2>4, CalmBoth
  <2> HIDE DEF ab
  <2>7. Calmly(abc)
    BY <2>5, <2>6, CalmBoth
  <2> HIDE DEF abc
  <2>8. Moves(n, x)
    BY <1>3, <2>1 DEF Moves
  <2> QED BY <2>2, <2>7, <2>8, CalmPut DEF Models
<1> QED BY <1>2, <1>3

LEMMA HookedCalm == ASSUME NEW n \in Models, Fits(n) PROVE Calming(n, Hooked(n))
<1> DEFINE e == n.entry
           x == [e EXCEPT !.registered = TRUE]
           h == [n EXCEPT !.hooked = TRUE]
           p == [n EXCEPT !.hooked = TRUE, !.entry.registered = TRUE]
           r == Register(e.gen, e.suspended)
<1>1. /\ n \in [entry : EntryType, departing : SUBSET Nat, nextGen : Nat \ {0}, hooked : BOOLEAN, hasStore : BOOLEAN]
      /\ e \in EntryType /\ e.gen \in Nat /\ e.suspended \in BOOLEAN
  BY DEF Models, Drafts, EntryType
<1>2. h.entry = e /\ h.hasStore = n.hasStore
  BY <1>1
<1>3. p.entry = x /\ p.hasStore = n.hasStore /\ x.phase = e.phase /\ x.gen = e.gen
  BY <1>1 DEF EntryType
<1>4. Hooked(n) \in {Does(p, <<r>>), Does(h, <<>>)}
  BY DEF Hooked, Nothing2Do
<1>5. r \in CalmEffects
  BY <1>1, CalmIn
<1> HIDE DEF p, h, x, r
<1>6. Calming(n, Does(p, <<r>>))
  BY <1>3, <1>5, CalmNone, CalmDoes, StaysPut
<1>7. Calming(n, Does(h, <<>>))
  BY <1>2, CalmNone, CalmDoes, StaysPut
<1> QED BY <1>4, <1>6, <1>7

-----------------------------------------------------------------------------
(* The completions that do.                                                *)

\* Of a load that finds nothing to hold.
LEMMA LoadedCalm ==
  ASSUME NEW n \in Models, Fits(n), NEW gen, NEW outcome,
         n.entry.phase = "loading" /\ n.entry.gen = gen => n.entry.intent # "create" /\ outcome # "stored"
  PROVE  Calming(n, Loaded(n, gen, outcome))
<1>1. CASE ~(n.entry.phase = "loading" /\ n.entry.gen = gen)
  BY <1>1, StaysPut DEF Loaded
<1>2. CASE n.entry.phase = "loading" /\ n.entry.gen = gen
  <2> DEFINE e == n.entry
             x == IF e.intent = "open-deferred" THEN Deferred ELSE Absent
             c == Effect("close", e.gen, "failed", FALSE, 0)
             d == Named("dispose", e.gen)
             cd == <<c, d>>
             w == When(e.intent = "open-unloaded", <<Notify("destroyed")>>)
  <2>1. x.phase \in {"absent", "deferred"} /\ e.gen \in Nat
    BY BaseEntries, ModelFacts DEF EntryType
  <2>2. Loaded(n, gen, outcome) = Does(Put(n, x), cd \o w)
    BY <1>2 DEF Loaded, FinishLoad, NotHeld
  <2> HIDE DEF x
  <2>3. Calmly(cd)
    <3>1. c \in CalmEffects /\ d \in CalmEffects
      BY <2>1, CalmIn DEF Dos
    <3> HIDE DEF c, d
    <3> QED BY <3>1, CalmNone
  <2>4. Calmly(w)
    <3>1. Notify("destroyed") \in CalmEffects
      BY CalmIn
    <3> QED BY <3>1, CalmWhen
  <2> HIDE DEF cd, w
  <2>5. Calmly(cd \o w)
    BY <2>3, <2>4, CalmBoth
  <2>6. Moves(n, x)
    BY <1>2, <2>1 DEF Moves, Fits
  <2> DEFINE t == cd \o w
  <2>7. Calming(n, Does(Put(n, x), t))
    BY <2>5, <2>6, CalmPut DEF Models
  <2> QED BY <2>2, <2>7
<1> QED BY <1>1, <1>2

LEMMA LoadFailedCalm == ASSUME NEW n \in Models, Fits(n), NEW gen PROVE Calming(n, LoadFailed(n, gen))
<1>1. CASE ~(n.entry.phase = "loading" /\ n.entry.gen = gen)
  BY <1>1, StaysPut DEF LoadFailed
<1>2. CASE n.entry.phase = "loading" /\ n.entry.gen = gen
  <2> DEFINE x == [n.entry EXCEPT !.phase = "failed", !.intent = "none"]
  <2>1. x.phase = "failed"
    BY ModelFacts DEF EntryType
  <2>2. LoadFailed(n, gen) = Does(Put(n, x), <<>>)
    BY <1>2 DEF LoadFailed, Nothing2Do
  <2> HIDE DEF x
  <2>3. Moves(n, x)
    BY <1>2, <2>1 DEF Moves, Fits
  <2> QED BY <2>2, <2>3, CalmPut, CalmNone DEF Models
<1> QED BY <1>1, <1>2

LEMMA LeftCalm == ASSUME NEW n \in Models, Fits(n), NEW gen \in Nat PROVE Calming(n, Left(n, gen))
<1> DEFINE e == n.entry
           b == Named("dispose", gen)
           u == Unloaded(e)
           p == [n EXCEPT !.departing = @ \ {gen}]
<1>1. b \in CalmEffects
  BY CalmIn DEF Dos
<1>2. u.phase = "unloaded"
  BY DEF Unloaded, Entry
<1>3. n \in [entry : EntryType, departing : SUBSET Nat, nextGen : Nat \ {0}, hooked : BOOLEAN, hasStore : BOOLEAN]
  BY DEF Models, Drafts
<1>4. p.entry = e /\ p.hasStore = n.hasStore
  BY <1>3
<1>5. \/ e.phase = "leaving" /\ Left(n, gen) = Does(Put(n, u), <<b>>)
      \/ Left(n, gen) = Does(p, <<b>>)
      \/ Left(n, gen) = Nothing2Do(n)
  BY DEF Left
<1> HIDE DEF b, u, p
<1>6. Calmly(<<b>>)
  BY <1>1, CalmNone
<1>7. e.phase = "leaving" => Calming(n, Does(Put(n, u), <<b>>))
  <2>1. e.phase = "leaving" => Moves(n, u)
    BY <1>2 DEF Moves, Fits
  <2> QED BY <1>6, <2>1, CalmPut DEF Models
<1>8. Calming(n, Does(p, <<b>>))
  BY <1>4, <1>6, StaysPut, CalmDoes
<1> QED BY <1>5, <1>7, <1>8, StaysPut

-----------------------------------------------------------------------------
(* Actions that take a step which tells the store program nothing.         *)

LEMMA FitsNow == ASSUME LifecycleInv, BeliefHolds PROVE m \in Models /\ Fits(m)
BY Queued DEF Storeless, Fits

LEMMA AskStays ==
  ASSUME LifecycleInv, CallsTyped, BeliefHolds, NEW s, StepOf(m, s), Calming(m, s), Ask(s) PROVE CallsTyped' /\ BeliefHolds'
<1>1. Base(stack)
  BY OuterBase DEF Ask
<1>2. Commit(s, stack) /\ UNCHANGED <<storeQ, store, disk, over>> /\ CallsKept
  BY DEF Ask, storage, queues, CallsKept
<1> QED BY <1>1, <1>2, CommitStays

LEMMA DoorsStay ==
  ASSUME LifecycleInv, CallsTyped, BeliefHolds, DoGet \/ DoReplicate \/ DoSuspend \/ DoResume \/ DoUnload \/ SetHooks
  PROVE  CallsTyped' /\ BeliefHolds'
<1>1. m \in Models /\ Fits(m)
  BY FitsNow
<1>2. CASE DoGet
  <2>1. PICK kind \in {"create", "open"}, fits \in BOOLEAN : Ask(Get(m, kind, fits))
    BY <1>2 DEF DoGet
  <2> QED BY <1>1, <2>1, GetStep, GetCalm, AskStays
<1>3. CASE DoReplicate
  BY <1>1, <1>3, ReplicateStep, ReplicateCalm, AskStays DEF DoReplicate
<1>4. CASE DoSuspend
  BY <1>1, <1>4, SuspendStep, SuspendCalm, AskStays DEF DoSuspend
<1>5. CASE DoResume
  BY <1>1, <1>5, SuspendStep, SuspendCalm, AskStays DEF DoResume
<1>6. CASE DoUnload
  BY <1>1, <1>6, UnloadStep, UnloadCalm, AskStays DEF DoUnload
<1>7. CASE SetHooks
  <2>1. Commit(Hooked(m), stack) /\ UNCHANGED <<storeQ, store, disk, over>> /\ CallsKept /\ stack = <<>>
    BY <1>7 DEF SetHooks, storage, queues, CallsKept
  <2>2. Base(stack)
    BY <2>1, OuterBase
  <2> QED BY <1>1, <2>1, <2>2, HookedStep, HookedCalm, CommitStays
<1> QED BY <1>2, <1>3, <1>4, <1>5, <1>6, <1>7

LEMMA DoingBase == ASSUME LifecycleInv, BeliefHolds, OnTop("sync"), Top.todo # <<>> PROVE Base(Rest)
<1> DEFINE todo == Tail(Top.todo)
           r == Rest
<1>1. todo \in Seq(SyncDoings) /\ r = <<[Top EXCEPT !.todo = todo]>> \o Tail(stack)
  BY TakesDoing
<1> HIDE DEF todo, r
<1>2. Base(r)
  BY <1>1, SyncTaken
<1> QED BY <1>2 DEF r

LEMMA AskedStay ==
  ASSUME LifecycleInv, CallsTyped, BeliefHolds, ReloadDoc \/ EnsureDoc PROVE CallsTyped' /\ BeliefHolds'
<1>1. OnTop("sync") /\ Top.todo # <<>> /\ UNCHANGED <<storeQ, store, disk, over>> /\ CallsKept
  BY DEF ReloadDoc, EnsureDoc, SyncDoes, storage, queues, CallsKept
<1>2. Base(Rest)
  BY <1>1, DoingBase
<1>3. m \in Models /\ Fits(m)
  BY FitsNow
<1>4. ASSUME NEW s, StepOf(m, s), Calming(m, s), Commit(s, Rest) PROVE CallsTyped' /\ BeliefHolds'
  BY <1>1, <1>2, <1>4, CommitStays
<1>5. CASE ReloadDoc
  <2>1. Commit(Reload(m), Rest)
    BY <1>5 DEF ReloadDoc
  <2> QED BY <1>3, <1>4, <2>1, ReloadStep, ReloadCalm
<1>6. CASE EnsureDoc
  <2>1. CASE Commit(Get(m, "create", TRUE), Rest)
    <3> DEFINE s == Get(m, "create", TRUE)
               yes == TRUE
    <3>1. Commit(s, Rest) /\ s = Get(m, "create", yes) /\ yes \in BOOLEAN
      BY <2>1
    <3> HIDE DEF s, yes
    <3>2. StepOf(m, s) /\ Calming(m, s)
      BY <1>3, <3>1, GetStep, GetCalm
    <3> QED BY <1>4, <3>1, <3>2
  <2>2. CASE Commit(Replicate(m), Rest)
    BY <1>3, <1>4, <2>2, ReplicateStep, ReplicateCalm
  <2>3. CASE Commit(Defer(m), Rest)
    BY <1>3, <1>4, <2>3, DeferStep, DeferCalm
  <2>4. CASE stack' = Rest /\ UNCHANGED m
    BY <1>1, <1>2, <2>4, Stays
  <2> QED BY <1>6, <2>1, <2>2, <2>3, <2>4 DEF EnsureDoc
<1> QED BY <1>5, <1>6

LEMMA DocLeftStays ==
  ASSUME LifecycleInv, CallsTyped, BeliefHolds, DocLeft PROVE CallsTyped' /\ BeliefHolds'
<1> DEFINE gen == Head(departures).left
<1>1. /\ OnTop("sync") /\ Top.todo # <<>> /\ Head(Top.todo) = "left" /\ UNCHANGED <<storeQ, store, disk, over>> /\ CallsKept
      /\ IF gen = 0 THEN stack' = Rest /\ UNCHANGED <<m, instances>> ELSE Commit(Left(m, gen), Rest)
  BY DEF DocLeft, SyncDoes, storage, queues, CallsKept
<1>2. m \in Models /\ Fits(m) /\ departures \in Seq(Departure(m)) /\ Base(Rest)
  BY <1>1, FitsNow, DoingBase DEF LifecycleInv, SyncTyped, SyncState
<1>3. gen \in Nat
  <2>1. Len(departures) = Cardinality(LeavesIn(syncQ)) + 1 /\ Cardinality(LeavesIn(syncQ)) \in Nat
    BY <1>1, TakesDoing
  <2>2. departures # <<>>
    BY <2>1
  <2>3. Head(departures) \in Departure(m)
    BY <1>2, <2>2, Popping
  <2> QED BY <2>3 DEF Departure
<1> HIDE DEF gen
<1>4. CASE gen = 0
  BY <1>1, <1>2, <1>4, Stays
<1>5. CASE gen # 0
  <2>1. Commit(Left(m, gen), Rest)
    BY <1>1, <1>5
  <2> QED BY <1>1, <1>2, <1>3, <2>1, LeftStep, LeftCalm, CommitStays
<1> QED BY <1>4, <1>5

\* The effect of a step on top, but for one on the store program or that claims the identity.
LEMMA EffectBase ==
  ASSUME LifecycleInv, BeliefHolds, NEW do \in Dos \ {"adopt", "store"}, Doing(do)
  PROVE  Base(Rest) /\ m \in Models /\ E \in Effects(m) /\ E.gen \in Nat
<1>1. OnTop("step") /\ Top.todo # <<>> /\ E.do = do
  BY DEF Doing, E
<1>2. Base(Rest)
  BY <1>1, TakeBase
<1>3. m \in Models /\ Top \in Frames(m) /\ Top.kind = "step"
  BY <1>1, Now DEF OnTop
<1>4. E \in Effects(m)
  BY <1>1, <1>3, FrameFacts, TodoFacts DEF E
<1> QED BY <1>2, <1>3, <1>4, ModelFacts DEF Effects

LEMMA LeaveStays ==
  ASSUME LifecycleInv, CallsTyped, BeliefHolds, ExecLeave PROVE CallsTyped' /\ BeliefHolds'
<1>1. Doing("leave") /\ UNCHANGED <<storeQ, store, disk, over>> /\ CallsKept
  BY DEF ExecLeave, storage, CallsKept
<1>2. Base(Rest) /\ E.gen \in Nat
  BY <1>1, EffectBase DEF Dos
<1>3. CASE m.hooked
  <2>1. m' = m /\ \E msg : ToSync(msg, Rest)
    BY <1>3 DEF ExecLeave, Leave
  <2>2. Base(stack')
    BY <1>2, <2>1, SyncBase, FitsNow
  <2> QED BY <1>1, <2>1, <2>2, Stays
<1>4. CASE ~m.hooked
  <2> DEFINE gen == E.gen
  <2>1. Commit(Left(m, gen), Rest)
    BY <1>4 DEF ExecLeave
  <2> HIDE DEF gen
  <2>2. StepOf(m, Left(m, gen)) /\ Calming(m, Left(m, gen))
    BY <1>2, FitsNow, LeftStep, LeftCalm DEF gen
  <2> QED BY <1>1, <1>2, <2>1, <2>2, CommitStays
<1> QED BY <1>3, <1>4

LEMMA ReadFailsStays ==
  ASSUME LifecycleInv, CallsTyped, BeliefHolds, ReadFails PROVE CallsTyped' /\ BeliefHolds'
<1> DEFINE gen == Head(calls).gen
           outcome == "empty"
<1>1. stack = <<>> /\ Commit(LoadFailed(m, gen), stack) /\ UNCHANGED <<storeQ, store, disk, over>> /\ CallsKept
  BY DEF ReadFails, CallEnds, queues, CallsKept
<1>2. Base(stack) /\ outcome \in {"stored", "empty"}
  BY <1>1, OuterBase
<1> HIDE DEF gen, outcome
<1>3. StepOf(m, LoadFailed(m, gen)) /\ Calming(m, LoadFailed(m, gen))
  BY <1>2, FitsNow, LoadedStep, LoadFailedCalm
<1> QED BY <1>1, <1>2, <1>3, CommitStays

-----------------------------------------------------------------------------
(* Actions that leave the store program alone.                             *)

LEMMA RestStays ==
  ASSUME LifecycleInv, CallsTyped, BeliefHolds, OnTop("step"), Top.todo # <<>>, E.do # "store" \/ E.gen # 0,
         stack' = Rest, UNCHANGED <<m, storeQ, store, calls, disk, over>>
  PROVE  CallsTyped' /\ BeliefHolds'
<1> DEFINE r == Rest
           x == E
<1>1. /\ r \in Seq(Frames(m))
      /\ m.hasStore =>
           /\ Ordered(r, storeQ) /\ Work(r) = Work(stack)
           /\ x.do = "store" => x.gen = 0
           /\ x.do # "store" => ToldBy(stack) = ToldBy(r)
      /\ ~m.hasStore => ~Busy("store", r)
  BY TakenOn
<1>2. stack' = r /\ (x.do # "store" \/ x.gen # 0)
  OBVIOUS
<1> HIDE DEF r, x
<1>3. CASE m.hasStore
  <2>1. Facts(ToldBy(stack) \cup Types(storeQ), Work(stack), m.entry, store, calls, disk, over)
    BY <1>3, Queued
  <2>2. Belief(r, storeQ, m.entry, store, calls, disk, over)
    BY <1>1, <1>2, <1>3, <2>1 DEF Belief
  <2> QED BY <1>2, <1>3, <2>2 DEF BeliefHolds, CallsTyped
<1>4. CASE ~m.hasStore
  <2>1. Base(r)
    BY <1>1, <1>4 DEF Base
  <2> QED BY <1>2, <2>1, Stays DEF CallsKept
<1> QED BY <1>3, <1>4

LEMMA EffectsStay ==
  ASSUME LifecycleInv, CallsTyped, BeliefHolds,
         SkipStale \/ ExecLocal \/ ExecWire \/ ExecDispose \/ ExecClose \/ ExecRegister \/ ExecLeaving \/ ExecNotifyLeave
  PROVE  CallsTyped' /\ BeliefHolds'
<1>1. CASE SkipStale
  <2>1. /\ OnTop("step") /\ Top.todo # <<>> /\ E.gen # 0 /\ stack' = Rest
        /\ UNCHANGED <<m, storeQ, store, calls, disk, over>>
    BY <1>1 DEF SkipStale, runtime, storage, queues
  <2> QED BY <2>1, RestStays
<1>2. CASE ExecLocal
  <2>1. /\ OnTop("step") /\ Top.todo # <<>> /\ E.do # "store" /\ stack' = Rest
        /\ UNCHANGED <<m, storeQ, store, calls, disk, over>>
    BY <1>2 DEF ExecLocal, Doing, E, runtime, storage, queues
  <2> QED BY <2>1, RestStays
<1>3. CASE ExecWire \/ ExecDispose
  <2>1. (Doing("wire") \/ Doing("dispose")) /\ stack' = Rest /\ UNCHANGED <<m, storeQ, store, disk, over>> /\ CallsKept
    BY <1>3 DEF ExecWire, ExecDispose, storage, queues, CallsKept
  <2>2. Base(Rest)
    BY <2>1, EffectBase DEF Dos
  <2> QED BY <2>1, <2>2, Stays
<1>4. CASE ExecClose
  <2>1. Doing("close") /\ UNCHANGED <<m, storeQ, store, disk, over>> /\ CallsKept
        /\ \E place, tier : stack' = CallBack(place, tier, Rest)
    BY <1>4 DEF ExecClose, storage, queues, CallsKept
  <2>2. Base(Rest) /\ m \in Models
    BY <2>1, EffectBase DEF Dos
  <2>3. PICK place, tier : stack' = CallBack(place, tier, Rest)
    BY <2>1
  <2>4. Base(CallBack(place, tier, Rest))
    BY <2>2, AppBase
  <2> QED BY <2>1, <2>3, <2>4, Stays
<1>5. CASE ExecRegister \/ ExecLeaving
  <2>1. (Doing("register") \/ Doing("leaving")) /\ UNCHANGED <<m, storeQ, store, disk, over>> /\ CallsKept
        /\ \E msg : ToSync(msg, Rest)
    BY <1>5 DEF ExecRegister, ExecLeaving, runtime, storage, CallsKept
  <2>2. Base(Rest) /\ m \in Models
    BY <2>1, EffectBase DEF Dos
  <2>3. Base(stack')
    BY <2>1, <2>2, SyncBase
  <2> QED BY <2>1, <2>3, Stays
<1>6. CASE ExecNotifyLeave
  <2>1. Doing("notify") /\ UNCHANGED <<m, storeQ, store, disk, over>> /\ CallsKept
        /\ (stack' = Rest \/ \E msg : ToSync(msg, Rest))
    BY <1>6 DEF ExecNotifyLeave, Leave, runtime, storage, CallsKept
  <2>2. Base(Rest) /\ m \in Models
    BY <2>1, EffectBase DEF Dos
  <2>3. Base(stack')
    BY <2>1, <2>2, SyncBase
  <2> QED BY <2>1, <2>3, Stays
<1> QED BY <1>1, <1>2, <1>3, <1>4, <1>5, <1>6

\* A resume that throws drops the rest of its step, which is a notify and no more.
LEMMA ResumeStays ==
  ASSUME LifecycleInv, CallsTyped, BeliefHolds, ExecNotifyResume PROVE CallsTyped' /\ BeliefHolds'
<1>1. /\ Doing("notify") /\ E.arg = "resumed" /\ UNCHANGED <<m, storeQ, store, disk, over>> /\ CallsKept
      /\ stack' = Rest \/ (\E msg : ToSync(msg, Rest)) \/ stack' = Tail(stack)
  BY DEF ExecNotifyResume, runtime, storage, CallsKept
<1>2. Base(Rest) /\ m \in Models
  BY <1>1, EffectBase DEF Dos
<1>3. CASE stack' = Rest \/ \E msg : ToSync(msg, Rest)
  <2>1. Base(stack')
    BY <1>2, <1>3, SyncBase
  <2> QED BY <1>1, <2>1, Stays
<1>4. CASE stack' = Tail(stack)
  <2> DEFINE f == Top
             todo == f.todo
  <2>1. stack # <<>> /\ f.kind = "step" /\ todo # <<>> /\ Head(todo).do = "notify" /\ Head(todo).arg = "resumed"
    BY <1>1 DEF Doing, OnTop, E
  <2>2. todo \in Todo(m)
    <3>1. f \in Frames(m)
      BY <2>1, Now
    <3> HIDE DEF f
    <3> QED BY <1>2, <2>1, <3>1, FrameFacts
  <2> HIDE DEF f, todo
  <2>3. todo \in Seq(Resuming(m))
    <3>1. todo \notin Seq(Others(m))
      BY <1>2, <2>1, <2>2, TodoFacts DEF Others
    <3>2. todo \notin Seq(Wiring(m))
      BY <1>2, <2>1, <2>2, TodoFacts DEF Wiring
    <3> QED BY <2>2, <3>1, <3>2 DEF Todo
  <2>4. \A k \in DOMAIN todo : todo[k].do = "notify"
    <3>1. \A k \in DOMAIN todo : todo[k] \in Resuming(m)
      BY <2>3, SeqFacts
    <3> QED BY <3>1 DEF Resuming
  <2>5. Told(f) = {}
    BY <2>1, <2>4 DEF Told, todo
  <2>6. Base(Tail(stack))
    BY <2>1, <2>5, PopBase DEF f
  <2> QED BY <1>1, <1>4, <2>6, Stays
<1> QED BY <1>1, <1>3, <1>4

LEMMA EndsStay ==
  ASSUME LifecycleInv, CallsTyped, BeliefHolds, AppReturns \/ EndSync \/ EndStore \/ EndStep
  PROVE  CallsTyped' /\ BeliefHolds'
<1>1. stack # <<>> /\ UNCHANGED <<m, storeQ, store, disk, over>> /\ CallsKept
  BY DEF AppReturns, EndSync, EndStore, EndStep, OnTop, runtime, storage, queues, CallsKept
<1>2. Top.todo = <<>> \/ Top.kind = "app"
  BY DEF AppReturns, EndSync, EndStore, EndStep, OnTop
<1>3. Base(Tail(stack)) /\ m \in Models
  <2>1. Top.todo = <<>> \/ Told(Top) = {}
    BY <1>2, TellsNothing
  <2> QED BY <1>1, <2>1, PopBase, FitsNow
<1>4. stack' = Tail(stack) \/ \E place, tier : stack' = CallBack(place, tier, Tail(stack))
  BY DEF AppReturns, EndSync, EndStore, EndStep
<1>5. Base(stack')
  BY <1>3, <1>4, AppBase
<1> QED BY <1>1, <1>5, Stays

LEMMA SyncsStay ==
  ASSUME LifecycleInv, CallsTyped, BeliefHolds, Routed \/ QueueTick \/ Tick \/ PeerAsks
  PROVE  CallsTyped' /\ BeliefHolds'
<1>1. UNCHANGED <<m, storeQ, store, disk, over>> /\ CallsKept
  BY DEF Routed, QueueTick, Tick, PeerAsks, runtime, storage, CallsKept
<1>2. CASE Routed
  <2> DEFINE msg == Head(syncQ)
             todo == Route(msg).does \o <<"queue-tick">>
             r == <<[Top EXCEPT !.todo = todo]>> \o Tail(stack)
  <2>1. OnTop("sync") /\ syncQ # <<>> /\ msg.type # "tick" /\ stack' = r
    BY <1>2 DEF Routed, SyncFrame
  <2>2. graph \in Graphs /\ syncQ \in Seq(SyncMessage)
    BY DEF LifecycleInv, SyncTyped, SyncState, Graphs
  <2>3. msg \in SyncMessage
    BY <2>1, <2>2, Popping
  <2> HIDE DEF msg
  <2>4. Route(msg).does \in {<<>>, <<"left">>, <<"reload">>, <<"ensure-doc">>}
    BY <2>1, <2>2, <2>3, RouteTyped
  <2>5. todo \in Seq(SyncDoings)
    <3>1. \A what \in {"left", "reload", "ensure-doc"} : <<what>> \in Seq(SyncDoings)
      BY DEF SyncDoings
    <3>2. Route(msg).does \in Seq(SyncDoings)
      BY <2>4, <3>1, DoingTyped
    <3> QED BY <3>2, DoingTyped, BothIn
  <2> HIDE DEF todo
  <2>6. r = <<[Top EXCEPT !.todo = todo]>> \o Tail(stack)
    OBVIOUS
  <2> HIDE DEF r
  <2>7. Base(r)
    BY <2>1, <2>5, <2>6, SyncTaken
  <2> QED BY <1>1, <2>1, <2>7, Stays
<1>3. CASE QueueTick
  <2>1. OnTop("sync") /\ Top.todo # <<>> /\ stack' = Rest
    BY <1>3 DEF QueueTick, SyncDoes
  <2> QED BY <1>1, <2>1, DoingBase, Stays
<1>4. CASE Tick
  <2>1. OnTop("sync") /\ (stack' = stack \/ \E place, tier : stack' = CallBack(place, tier, stack))
    BY <1>4 DEF Tick, SyncFrame
  <2>2. Base(stack) /\ m \in Models
    BY <2>1, OuterBase, FitsNow
  <2>3. Base(stack')
    BY <2>1, <2>2, AppBase
  <2> QED BY <1>1, <2>3, Stays
<1>5. CASE PeerAsks
  <2>1. stack = <<>> /\ \E msg : ToSync(msg, stack)
    BY <1>5 DEF PeerAsks
  <2>2. Base(stack) /\ m \in Models
    BY <2>1, OuterBase, FitsNow
  <2>3. Base(stack')
    BY <2>1, <2>2, SyncBase
  <2> QED BY <1>1, <2>3, Stays
<1> QED BY <1>2, <1>3, <1>4, <1>5

LEMMA WriteStays ==
  ASSUME LifecycleInv, CallsTyped, BeliefHolds, DoWrite PROVE CallsTyped' /\ BeliefHolds'
<1>1. (stack = <<>> \/ OnTop("app")) /\ stack' = stack /\ UNCHANGED <<m, storeQ, store, disk, over>> /\ CallsKept
  BY DEF DoWrite, storage, queues, CallsKept
<1> QED BY <1>1, OuterBase, Stays

LEMMA DrainsStay ==
  ASSUME LifecycleInv, CallsTyped, BeliefHolds, ExecDrain \/ DrainLocalChanges PROVE CallsTyped' /\ BeliefHolds'
<1>1. UNCHANGED <<m, store, disk, over>> /\ CallsKept
  BY DEF ExecDrain, DrainLocalChanges, storage, CallsKept
<1>2. ASSUME NEW b, Base(b), Drained(b) PROVE CallsTyped' /\ BeliefHolds'
  <2>1. ToStoreProgram(StoreInput("state-advanced", 0), b) \/ (stack' = b /\ storeQ' = storeQ)
    BY <1>2 DEF Drained
  <2> QED BY <1>1, <1>2, <2>1, SendStays, Stays
<1>3. CASE ExecDrain
  <2>1. Doing("drain") /\ Drained(Rest)
    BY <1>3 DEF ExecDrain
  <2> QED BY <1>2, <2>1, EffectBase DEF Dos
<1>4. CASE DrainLocalChanges
  <2>1. stack = <<>> /\ Drained(stack)
    BY <1>4 DEF DrainLocalChanges
  <2> QED BY <1>2, <2>1, OuterBase
<1> QED BY <1>3, <1>4

LEMMA FailuresStay ==
  ASSUME LifecycleInv, CallsTyped, BeliefHolds, RetryFires \/ WriteFails PROVE CallsTyped' /\ BeliefHolds'
<1>1. stack = <<>> /\ UNCHANGED <<m, store, disk, over>> /\ CallsKept
  BY DEF RetryFires, WriteFails, CallEnds, runtime, CallsKept
<1>2. \E type \in {"state-advanced", "write-failed"} : ToStoreProgram(StoreInput(type, 0), stack)
  BY DEF RetryFires, WriteFails
<1> QED BY <1>1, <1>2, OuterBase, SendStays

LEMMA StoredStay ==
  ASSUME LifecycleInv, CallsTyped, BeliefHolds, Persisted \/ ArmRetry PROVE CallsTyped' /\ BeliefHolds'
<1>1. OnTop("store") /\ Top.todo # <<>> /\ UNCHANGED <<m, storeQ, store, disk, over>> /\ CallsKept
  BY DEF Persisted, ArmRetry, StoreDoes, runtime, storage, queues, CallsKept
<1>2. Base(Rest) /\ m \in Models
  BY <1>1, StoreTaken, FitsNow
<1>3. stack' = Rest \/ \E place, tier : stack' = CallBack(place, tier, Rest)
  BY DEF Persisted, ArmRetry
<1>4. Base(stack')
  BY <1>2, <1>3, AppBase
<1> QED BY <1>1, <1>4, Stays

-----------------------------------------------------------------------------
(* Actions that queue a call of the store.                                 *)

LEMMA FactsAppended ==
  ASSUME NEW S, NEW c \in Seq(S), NEW x \in S, NEW t, NEW w, NEW e, NEW p, NEW d, NEW closed, Facts(t, w, e, p, c, d, closed),
         x.kind \notin {"currentMeta", "loadAll"},
         x.kind = "delete" => IsToDo(w, "delete"), x.kind = "since" => <<"persist", "since">> \in w
  PROVE  Facts(t, w, e, p, Append(c, x), d, closed)
<1> DEFINE r == Append(c, x)
<1>1. /\ Len(c) \in Nat /\ DOMAIN c = 1 .. Len(c) /\ Len(r) = Len(c) + 1 /\ DOMAIN r = 1 .. (Len(c) + 1)
      /\ (\A i \in 1 .. Len(c) : r[i] = c[i]) /\ r[Len(c) + 1] = x
  BY Appending
<1> HIDE DEF r
<1>2. \A k \in DOMAIN r : (k \in DOMAIN c /\ r[k] = c[k]) \/ (k = Len(c) + 1 /\ r[k] = x)
  BY <1>1
<1>3. (Undeleted(w, c) => Undeleted(w, r)) /\ (Unwritten(w, c) => Unwritten(w, r))
  BY <1>2 DEF Undeleted, Unwritten
<1>4. x.kind = "since" => IsToDo(w, "persist")
  BY DEF IsToDo
<1>5. Reading(e, t, w, p, r)
  <2> SUFFICES ASSUME NEW i \in DOMAIN r, r[i].kind \in {"currentMeta", "loadAll"}, e.phase = "loading", e.gen = r[i].gen
               PROVE  /\ p.status = "untracked" /\ t \cap (Tracks \cup {"destroy"}) = {}
                      /\ ~IsToDo(w, "persist") /\ ~IsToDo(w, "delete")
                      /\ \A k \in (i + 1) .. Len(r) : r[k].kind \notin {"since", "delete"}
    BY DEF Reading
  <2>1. i \in DOMAIN c /\ r[i] = c[i] /\ i \in Nat
    BY <1>1, <1>2
  <2>2. /\ p.status = "untracked" /\ t \cap (Tracks \cup {"destroy"}) = {} /\ ~IsToDo(w, "persist") /\ ~IsToDo(w, "delete")
        /\ \A k \in (i + 1) .. Len(c) : c[k].kind \notin {"since", "delete"}
    BY <2>1 DEF Facts, Reading
  <2>3. \A k \in (i + 1) .. Len(r) : (k \in (i + 1) .. Len(c) /\ r[k] = c[k]) \/ r[k] = x
    BY <1>1, <2>1
  <2> QED BY <1>4, <2>2, <2>3
<1>6. Tracked(t, w, p, r, d) /\ Entered(e, t, w, p, r, d, closed)
  <2>1. Undeleted(w, c) <=> Undeleted(w, r)
    <3>1. \A k \in DOMAIN c : k \in DOMAIN r /\ r[k] = c[k]
      BY <1>1
    <3> QED BY <1>3, <3>1 DEF Undeleted
  <2> QED BY <1>3, <2>1 DEF Facts, Tracked, Entered
<1> QED BY <1>5, <1>6 DEF Facts, r

LEMMA CalledStays ==
  ASSUME LifecycleInv, CallsTyped, BeliefHolds, NEW b, Base(b), stack' = b, UNCHANGED <<m, storeQ, store, disk, over>>,
         NEW x \in Calls(m), calls' = Append(calls, x), x.kind \notin {"currentMeta", "loadAll"},
         x.kind = "delete" => m.hasStore /\ IsToDo(Work(stack), "delete"),
         x.kind = "since" => <<"persist", "since">> \in Work(stack)
  PROVE  CallsTyped' /\ BeliefHolds'
<1>1. /\ m \in Models
      /\ m.hasStore => InOrder(storeQ) /\ Facts(ToldBy(stack) \cup Types(storeQ), Work(stack), m.entry, store, calls, disk, over)
      /\ ~m.hasStore => Storeless(stack, m.entry, store, calls)
  BY Queued
<1> DEFINE c == Append(calls, x)
<1>2. calls \in Seq(Calls(m)) /\ calls' = c
  BY DEF CallsTyped
<1>3. /\ c \in Seq(Calls(m)) /\ Len(calls) \in Nat /\ DOMAIN calls = 1 .. Len(calls) /\ DOMAIN c = 1 .. (Len(calls) + 1)
      /\ (\A i \in 1 .. Len(calls) : c[i] = calls[i]) /\ c[Len(calls) + 1] = x
  BY <1>2, Appending
<1>4. CASE m.hasStore
  <2>1. Settled(b) /\ ToldBy(b) = ToldBy(stack) /\ Work(b) \subseteq Work(stack)
    BY <1>4 DEF Base
  <2>2. Ordered(b, storeQ)
    BY <1>1, <1>4, <2>1, SettledOrdered
  <2> DEFINE t == ToldBy(stack) \cup Types(storeQ)
  <2>3. Facts(t, Work(stack), m.entry, store, c, disk, over)
    BY <1>1, <1>2, <1>4, FactsAppended
  <2>4. t \cap Key \subseteq t
    OBVIOUS
  <2> HIDE DEF t, c
  <2>5. Facts(t, Work(b), m.entry, store, c, disk, over)
    BY <2>1, <2>3, <2>4, Calm
  <2>6. Belief(b, storeQ, m.entry, store, c, disk, over)
    BY <2>1, <2>2, <2>5 DEF Belief, t
  <2> QED BY <1>2, <1>3, <1>4, <2>6 DEF BeliefHolds, CallsTyped
<1>5. CASE ~m.hasStore
  <2>1. \A i \in DOMAIN c : (i \in DOMAIN calls /\ c[i] = calls[i]) \/ c[i] = x
    BY <1>3
  <2>2. \A i \in DOMAIN c : c[i].kind # "delete"
    BY <1>1, <1>5, <2>1 DEF Storeless
  <2> HIDE DEF c
  <2>3. Storeless(b, m.entry, store, c)
    BY <1>1, <1>5, <2>2 DEF Storeless, Base
  <2> QED BY <1>2, <1>3, <1>5, <2>3 DEF BeliefHolds, CallsTyped
<1> QED BY <1>4, <1>5

LEMMA CallTyped ==
  ASSUME m \in Models
  PROVE  \A kind \in CallKinds, gen \in 0 .. (m.nextGen - 1), carries \in BOOLEAN :
           StoreCall(kind, gen, carries) \in Calls(m) /\ StoreCall(kind, gen, carries).kind = kind
BY DEF StoreCall, Calls

LEMMA LoadStays ==
  ASSUME LifecycleInv, CallsTyped, BeliefHolds, ExecLoad PROVE CallsTyped' /\ BeliefHolds'
<1>1. Doing("load") /\ stack' = Rest /\ UNCHANGED <<m, storeQ, store, disk, over>>
      /\ calls' = Append(calls, StoreCall("writerOf", E.gen, FALSE))
  BY DEF ExecLoad, runtime, queues
<1>2. Base(Rest) /\ m \in Models /\ E \in Effects(m)
  BY <1>1, EffectBase DEF Dos
<1>3. E.gen \in 0 .. (m.nextGen - 1)
  BY <1>2, EffectTyped
<1> DEFINE off == FALSE
           x == StoreCall("writerOf", E.gen, off)
<1>4. calls' = Append(calls, x) /\ off \in BOOLEAN
  BY <1>1
<1> HIDE DEF off
<1>5. x \in Calls(m) /\ x.kind = "writerOf"
  BY <1>2, <1>3, <1>4, CallTyped DEF CallKinds
<1> HIDE DEF x
<1> QED BY <1>1, <1>2, <1>4, <1>5, CalledStays

LEMMA DeleteStays ==
  ASSUME LifecycleInv, CallsTyped, BeliefHolds, Delete PROVE CallsTyped' /\ BeliefHolds'
<1>1. OnTop("store") /\ Top.todo # <<>> /\ E.do = "delete" /\ stack' = Rest /\ UNCHANGED <<m, storeQ, store, disk, over>>
      /\ calls' = Append(calls, StoreCall("delete", 0, FALSE))
  BY DEF Delete, StoreDoes, runtime, queues
<1>2. m.hasStore /\ Base(Rest) /\ m \in Models /\ IsToDo(Work(stack), "delete")
  BY <1>1, StoreTaken, FitsNow DEF IsToDo
<1> DEFINE none == 0
           off == FALSE
           x == StoreCall("delete", none, off)
<1>3. calls' = Append(calls, x) /\ none \in 0 .. (m.nextGen - 1) /\ off \in BOOLEAN
  BY <1>1, <1>2, ModelFacts
<1> HIDE DEF none, off
<1>4. x \in Calls(m) /\ x.kind = "delete"
  BY <1>2, <1>3, CallTyped DEF CallKinds
<1> HIDE DEF x
<1> QED BY <1>1, <1>2, <1>3, <1>4, CalledStays

LEMMA PersistStays ==
  ASSUME LifecycleInv, CallsTyped, BeliefHolds, ClosedOnce, Persist PROVE CallsTyped' /\ BeliefHolds'
<1>1. OnTop("store") /\ Top.todo # <<>> /\ E.do = "persist" /\ stack' = Rest /\ UNCHANGED <<m, store, disk, over>>
  BY DEF Persist, StoreDoes
<1>2. m.hasStore /\ Base(Rest) /\ m \in Models /\ <<"persist", E.arg>> \in Work(stack) /\ E \in StoreEffects(m)
  BY <1>1, StoreTaken, FitsNow
<1>3. E.arg \in {"", "register", "since", "compact"}
  BY <1>2 DEF StoreEffects
<1>4. CASE Current \cap DOMAIN instances # {}
  <2> DEFINE g == m.entry.gen
             fresh == instances[g].fresh
             kind == E.arg
             x == StoreCall(kind, g, fresh)
  <2>1. calls' = Append(calls, x) /\ UNCHANGED storeQ
    BY <1>4 DEF Persist
  <2>2. g \in 0 .. (m.nextGen - 1) /\ g \in DOMAIN instances
    BY <1>2, <1>4, ModelFacts DEF Current
  <2>3. fresh \in BOOLEAN
    <3>1. instances[g] \in Instance
      BY <2>2 DEF LifecycleInv, ObjectsSound, Objects
    <3> QED BY <3>1 DEF Instance
  <2>4. kind \in {"", "register", "since", "compact"} /\ <<"persist", kind>> \in Work(stack)
    BY <1>2, <1>3
  <2> HIDE DEF g, fresh, kind
  <2>5. x \in Calls(m) /\ x.kind = kind
    <3>1. kind \in CallKinds
      BY <2>4 DEF CallKinds
    <3> QED BY <1>2, <2>2, <2>3, <3>1, CallTyped
  <2> HIDE DEF x
  <2> QED BY <1>1, <1>2, <2>1, <2>4, <2>5, CalledStays
<1>5. CASE Current \cap DOMAIN instances = {}
  <2>1. storeQ' = Append(storeQ, StoreInput("write-failed", 0)) /\ UNCHANGED calls
    BY <1>5 DEF Persist
  <2>2. Busy("store", Rest)
    <3>1. /\ m \in Models /\ Top \in Frames(m) /\ Tail(stack) \in Seq(Frames(m)) /\ Top.kind = "store"
      BY <1>1, Now DEF OnTop
    <3> DEFINE todo == Tail(Top.todo)
               f == Top
               h == [f EXCEPT !.todo = todo]
               r == Rest
    <3>2. h \in Frames(m) /\ h.kind = "store" /\ r = <<h>> \o Tail(stack)
      <4>1. f.todo \in Seq(StoreEffects(m)) /\ f.todo # <<>>
        BY <1>1, <3>1, FrameFacts
      <4>2. todo \in Seq(StoreEffects(m))
        BY <4>1, Popping
      <4>3. r = <<h>> \o Tail(stack) /\ f \in Frames(m) /\ f.kind = "store"
        BY <3>1 DEF Rest
      <4> HIDE DEF f, todo, r
      <4>4. h \in Frames(m) /\ h.kind = "store"
        BY <3>1, <4>2, <4>3, StoreWith
      <4> QED BY <4>3, <4>4
    <3> HIDE DEF h, r
    <3>3. IsOn(r, h, Tail(stack))
      <4>1. IsOn(<<h>> \o Tail(stack), h, Tail(stack))
        BY <3>1, <3>2, PushOn
      <4> QED BY <3>2, <4>1, Zenon
    <3>4. Busy("store", r)
      BY <3>2, <3>3, SettledOn
    <3> QED BY <3>4 DEF r
  <2>3. ~over
    <3>1. 1 \in DOMAIN stack /\ stack[1] = Top
      BY <1>1, Now DEF OnTop, IsOn
    <3>2. stack[1].kind = "store"
      BY <1>1, <3>1 DEF OnTop
    <3> QED BY <3>1, <3>2 DEF ClosedOnce, Closing
  <2>4. ToStoreProgram(StoreInput("write-failed", 0), Rest)
    BY <1>1, <1>2, <2>1, <2>2, <2>3 DEF ToStoreProgram
  <2> QED BY <1>1, <1>2, <2>1, <2>4, SendStays DEF CallsKept
<1> QED BY <1>4, <1>5

-----------------------------------------------------------------------------
(* Steps that do tell the store program something.                         *)

\* x is the one effect of todo on the store program, and at i: the first one, but for claiming the identity.
Leads(todo, x, i) ==
  /\ i \in DOMAIN todo /\ todo[i] = x /\ (i = 1 \/ (i = 2 /\ todo[1].do = "adopt"))
  /\ \A k \in DOMAIN todo : k # i => todo[k].do # "store"

LEMMA LeadsOn ==
  ASSUME NEW S, NEW todo \in Seq(S), NEW x, NEW i \in Nat, Leads(todo, x, i), NEW y \in Seq(S), \A k \in DOMAIN y : y[k].do # "store"
  PROVE  todo \o y \in Seq(S) /\ Leads(todo \o y, x, i)
<1> DEFINE r == todo \o y
<1>1. /\ Len(todo) \in Nat /\ Len(y) \in Nat /\ DOMAIN todo = 1 .. Len(todo) /\ DOMAIN y = 1 .. Len(y)
      /\ r \in Seq(S) /\ Len(r) = Len(todo) + Len(y) /\ DOMAIN r = 1 .. (Len(todo) + Len(y))
  BY LenProperties, ConcatProperties
<1>2. \A k \in 1 .. Len(todo) + Len(y) : r[k] = IF k <= Len(todo) THEN todo[k] ELSE y[k - Len(todo)]
  BY ConcatProperties
<1> HIDE DEF r
<1>3. \A k \in DOMAIN todo : k \in DOMAIN r /\ r[k] = todo[k]
  BY <1>1, <1>2
<1>4. i \in DOMAIN todo /\ 1 \in DOMAIN todo
  BY <1>1 DEF Leads
<1>5. ASSUME NEW k \in DOMAIN r, k # i PROVE r[k].do # "store"
  <2>1. CASE k \in DOMAIN todo
    BY <1>3, <1>5, <2>1 DEF Leads
  <2>2. CASE k \notin DOMAIN todo
    <3>1. k - Len(todo) \in DOMAIN y /\ r[k] = y[k - Len(todo)]
      BY <1>1, <1>2, <2>2
    <3> QED BY <3>1
  <2> QED BY <2>1, <2>2
<1>6. Leads(r, x, i)
  BY <1>3, <1>4, <1>5 DEF Leads
<1> QED BY <1>1, <1>6 DEF r

LEMMA LeadsFrame ==
  ASSUME NEW todo, NEW x, x.do = "store", x.gen = 0, NEW i, Leads(todo, x, i), NEW f, f.kind = "step", f.todo = todo
  PROVE  Prompt(f) /\ Told(f) = {x.arg} /\ Tasks(f) = {}
<1>1. i \in DOMAIN todo /\ todo[i] = x /\ (i = 1 \/ (i = 2 /\ todo[1].do = "adopt"))
      /\ \A k \in DOMAIN todo : todo[k].do = "store" => k = i
  BY DEF Leads
<1>2. Prompt(f)
  BY <1>1 DEF Prompt
<1>3. Told(f) = {x.arg}
  <2>1. x.arg \in Told(f)
    BY <1>1 DEF Told
  <2>2. \A a \in Told(f) : a = x.arg
    BY <1>1 DEF Told
  <2> QED BY <2>1, <2>2
<1> QED BY <1>2, <1>3 DEF Tasks

\* A step is taken from the stack b, and f is its frame.
LEMMA CommitTells ==
  ASSUME m \in Models, m.entry \in EntryType, NEW b \in Seq(Frames(m)), Settled(b), InOrder(storeQ), storeQ' = storeQ,
         NEW s, StepOf(m, s), ~s.refused, s.m.hasStore, Commit(s, b),
         NEW f, f = Frame("step", s.effects, m.entry), Prompt(f), Sends(f, storeQ),
         Facts((Told(f) \cup ToldBy(b)) \cup Types(storeQ), Work(b), s.m.entry, store', calls', disk', over')
  PROVE  BeliefHolds'
<1> DEFINE u == <<f>> \o b
<1>1. m' = s.m /\ stack' = u
  BY DEF Commit
<1>2. s.m \in Models /\ Later(m, s.m) /\ s.effects \in Todo(s.m)
  BY DEF StepOf
<1>3. f = [kind |-> "step", todo |-> s.effects, before |-> m.entry]
  BY DEF Frame
<1>4. f \in Frames(s.m) /\ f.kind = "step"
  BY <1>2, <1>3 DEF Frames
<1>5. IsOn(u, f, b)
  <2>1. b \in Seq(Frames(s.m))
    BY <1>2, LaterFrames
  <2> QED BY <1>4, <2>1, PushOn
<1> HIDE DEF u
<1>6. ToldBy(u) = Told(f) \cup ToldBy(b) /\ Work(u) = Tasks(f) \cup Work(b)
  BY <1>5, ViewOn
<1>7. Tasks(f) = {}
  BY <1>4 DEF Tasks
<1>8. ToldBy(u) \cup Types(storeQ) = (Told(f) \cup ToldBy(b)) \cup Types(storeQ) /\ Work(u) = Work(b)
  BY <1>6, <1>7
<1>9. Ordered(u, storeQ)
  BY <1>4, <1>5, OrderedOn
<1>10. Belief(u, storeQ, s.m.entry, store', calls', disk', over')
  BY <1>8, <1>9 DEF Belief
<1> QED BY <1>1, <1>10 DEF BeliefHolds

\* The calls are still of the model of now.
LEMMA CallsTypedLater ==
  ASSUME m \in Models, CallsTyped, CallsKept, NEW s, StepOf(m, s), m' = s.m PROVE CallsTyped'
<1>1. m' \in Models /\ m.nextGen <= m'.nextGen
  BY DEF StepOf, Later
<1> QED BY <1>1, CallsStay, CallsLater DEF CallsTyped

\* With nothing on the call stack, nothing is on its way to the store program.
LEMMA Resting ==
  ASSUME LifecycleInv, BeliefHolds, stack = <<>>
  PROVE  /\ storeQ = <<>> /\ ToldBy(stack) = {} /\ Work(stack) = {} /\ Types(storeQ) = {}
         /\ m.hasStore => Facts({}, {}, m.entry, store, calls, disk, over)
<1>1. storeQ = <<>>
  BY EmptyStack DEF LifecycleInv
<1>2. ToldBy(stack) = {} /\ Work(stack) = {} /\ Types(storeQ) = {}
  BY <1>1, ViewNone
<1>3. ASSUME m.hasStore PROVE Facts({}, {}, m.entry, store, calls, disk, over)
  <2>1. Facts(ToldBy(stack) \cup Types(storeQ), Work(stack), m.entry, store, calls, disk, over)
    BY <1>3, Queued
  <2>2. ToldBy(stack) \cup Types(storeQ) = {}
    BY <1>2
  <2> QED BY <1>2, <2>1, <2>2
<1> QED BY <1>1, <1>2, <1>3

-----------------------------------------------------------------------------
(* The reads of a load.                                                    *)

\* The first call ended, and the next read was queued.
LEMMA FactsRead ==
  ASSUME NEW S, NEW c \in Seq(S), c # <<>>, NEW x \in S, x.kind \in {"currentMeta", "loadAll"},
         NEW e, NEW p, NEW d, NEW closed, e.phase = "loading" => ~closed, Facts({}, {}, e, p, c, d, closed)
  PROVE  Facts({}, {}, e, p, Append(Tail(c), x), d, closed)
<1> DEFINE b == Tail(c)
           r == Append(b, x)
           t == {}
           w == {}
<1>1. b \in Seq(S) /\ Facts(t, w, e, p, b, d, closed)
  BY Popping, FactsTaken
<1>9. t = {} /\ w = {}
  OBVIOUS
<1> HIDE DEF b, t, w
<1>2. /\ Len(b) \in Nat /\ DOMAIN b = 1 .. Len(b) /\ Len(r) = Len(b) + 1 /\ DOMAIN r = 1 .. (Len(b) + 1)
      /\ (\A i \in 1 .. Len(b) : r[i] = b[i]) /\ r[Len(b) + 1] = x
  BY <1>1, Appending
<1> HIDE DEF r
<1>3. (\A k \in DOMAIN r : (k \in DOMAIN b /\ r[k] = b[k]) \/ (k = Len(b) + 1 /\ r[k] = x))
      /\ \A k \in DOMAIN b : k \in DOMAIN r /\ r[k] = b[k]
  BY <1>2
<1>4. (Undeleted(w, b) <=> Undeleted(w, r)) /\ (Unwritten(w, b) => Unwritten(w, r))
  BY <1>3 DEF Undeleted, Unwritten
<1>5. ~IsToDo(w, "persist") /\ ~IsToDo(w, "delete")
  BY <1>9 DEF IsToDo
<1>6. Reading(e, t, w, p, r)
  <2> SUFFICES ASSUME NEW i \in DOMAIN r, r[i].kind \in {"currentMeta", "loadAll"}, e.phase = "loading", e.gen = r[i].gen
               PROVE  /\ p.status = "untracked" /\ t \cap (Tracks \cup {"destroy"}) = {}
                      /\ ~IsToDo(w, "persist") /\ ~IsToDo(w, "delete")
                      /\ \A k \in (i + 1) .. Len(r) : r[k].kind \notin {"since", "delete"}
    BY DEF Reading
  <2>1. p.status = "untracked"
    BY <1>1, <1>9 DEF Facts, Entered
  <2>2. CASE i \in DOMAIN b /\ r[i] = b[i]
    <3>1. \A k \in (i + 1) .. Len(b) : b[k].kind \notin {"since", "delete"}
      BY <1>1, <2>2 DEF Facts, Reading
    <3>2. \A k \in (i + 1) .. Len(r) : (k \in (i + 1) .. Len(b) /\ r[k] = b[k]) \/ r[k] = x
      BY <1>2, <2>2
    <3> QED BY <1>5, <1>9, <2>1, <3>1, <3>2
  <2>3. CASE i = Len(b) + 1
    <3>1. (i + 1) .. Len(r) = {}
      BY <1>2, <2>3
    <3> QED BY <1>5, <1>9, <2>1, <3>1
  <2> QED BY <1>3, <2>2, <2>3
<1>7. Tracked(t, w, p, r, d) /\ Entered(e, t, w, p, r, d, closed)
  BY <1>1, <1>4 DEF Facts, Tracked, Entered
<1>8. Facts(t, w, e, p, r, d, closed)
  BY <1>6, <1>7 DEF Facts
<1> QED BY <1>8 DEF r, b, t, w

LEMMA ReadStays ==
  ASSUME LifecycleInv, CallsTyped, BeliefHolds, ClosedOnce, stack = <<>>, calls # <<>>,
         NEW next \in {"currentMeta", "loadAll"}, calls' = Append(Tail(calls), StoreCall(next, Head(calls).gen, FALSE)),
         UNCHANGED <<m, stack, storeQ, store, disk, over>>
  PROVE  CallsTyped' /\ BeliefHolds'
<1> DEFINE off == FALSE
           b == Tail(calls)
           gen == Head(calls).gen
           x == StoreCall(next, gen, off)
           c == Append(b, x)
<1>1. m \in Models /\ (~m.hasStore => Storeless(stack, m.entry, store, calls)) /\ calls \in Seq(Calls(m))
  BY Queued DEF CallsTyped
<1>2. b \in Seq(Calls(m)) /\ Head(calls) \in Calls(m) /\ off \in BOOLEAN
  BY <1>1, Popping
<1>3. gen \in 0 .. (m.nextGen - 1)
  BY <1>2 DEF Calls
<1>4. calls' = c
  OBVIOUS
<1> HIDE DEF off, gen, b
<1>5. x \in Calls(m) /\ x.kind = next
  BY <1>1, <1>2, <1>3, CallTyped DEF CallKinds
<1> HIDE DEF x
<1>6. /\ c \in Seq(Calls(m)) /\ Len(b) \in Nat /\ DOMAIN b = 1 .. Len(b) /\ DOMAIN c = 1 .. (Len(b) + 1)
      /\ (\A i \in 1 .. Len(b) : c[i] = b[i]) /\ c[Len(b) + 1] = x
  BY <1>2, <1>5, Appending
<1>7. CASE m.hasStore
  <2>1. Facts({}, {}, m.entry, store, calls, disk, over) /\ ToldBy(stack) \cup Types(storeQ) = {} /\ Work(stack) = {}
    BY <1>7, Resting
  <2>2. m.entry.phase = "loading" => ~over
    BY DEF ClosedOnce
  <2>3. Facts({}, {}, m.entry, store, c, disk, over)
    BY <1>1, <1>5, <2>1, <2>2, FactsRead DEF b
  <2>4. Facts(ToldBy(stack) \cup Types(storeQ), Work(stack), m.entry, store, c, disk, over)
    BY <2>1, <2>3
  <2>5. Ordered(stack, storeQ)
    BY <1>7 DEF BeliefHolds, Belief
  <2> HIDE DEF c
  <2>6. Belief(stack, storeQ, m.entry, store, c, disk, over)
    BY <2>4, <2>5 DEF Belief
  <2> QED BY <1>4, <1>6, <1>7, <2>6 DEF BeliefHolds, CallsTyped
<1>8. CASE ~m.hasStore
  <2>1. \A i \in DOMAIN c : (i \in DOMAIN b /\ c[i] = b[i]) \/ c[i] = x
    BY <1>6
  <2>2. \A i \in DOMAIN b : b[i].kind # "delete"
    BY <1>1, <1>8, NoDelete DEF Storeless, b
  <2>3. \A i \in DOMAIN c : c[i].kind # "delete"
    BY <1>5, <2>1, <2>2
  <2> HIDE DEF c
  <2>4. Storeless(stack, m.entry, store, c)
    BY <1>1, <1>8, <2>3 DEF Storeless
  <2> QED BY <1>4, <1>6, <1>8, <2>4 DEF BeliefHolds, CallsTyped
<1> QED BY <1>7, <1>8

LEMMA WhenTells ==
  ASSUME NEW condition, NEW x, x.do # "store"
  PROVE  \A k \in DOMAIN When(condition, <<x>>) : When(condition, <<x>>)[k].do # "store"
<1>1. CASE condition
  <2> DEFINE y == <<x>>
  <2>1. DOMAIN y = {1} /\ y[1] = x
    OBVIOUS
  <2>2. When(condition, <<x>>) = y
    BY <1>1 DEF When
  <2> HIDE DEF y
  <2> QED BY <2>1, <2>2
<1>2. CASE ~condition
  <2>1. When(condition, <<x>>) = <<>>
    BY <1>2 DEF When
  <2>2. DOMAIN When(condition, <<x>>) = {}
    BY <2>1
  <2> QED BY <2>2
<1> QED BY <1>1, <1>2

LEMMA LeadsTwo ==
  ASSUME NEW S, NEW y \in S, NEW x \in S, y.do = "adopt"
  PROVE  <<y>> \o <<x>> \in Seq(S) /\ Leads(<<y>> \o <<x>>, x, 2)
<1> DEFINE one == <<x>>
           s == <<y>> \o one
<1>1. one \in Seq(S) /\ DOMAIN one = {1} /\ one[1] = x
  OBVIOUS
<1> HIDE DEF one
<1>2. s \in Seq(S) /\ IsOn(s, y, one)
  BY <1>1, PushOn
<1> HIDE DEF s
<1>3. /\ 1 \in DOMAIN s /\ s[1] = y
      /\ \A j \in DOMAIN one : j + 1 \in DOMAIN s /\ s[j + 1] = one[j]
      /\ \A j \in DOMAIN s : j = 1 \/ (j - 1 \in DOMAIN one /\ s[j] = one[j - 1])
  BY <1>2 DEF IsOn
<1>4. 2 \in DOMAIN s /\ s[2] = x
  <2>1. 1 \in DOMAIN one /\ 1 + 1 = 2
    BY <1>1
  <2> QED BY <1>1, <1>3, <2>1
<1>5. \A j \in DOMAIN s : j # 2 => j = 1
  <2>1. \A j \in DOMAIN s : j # 1 => j \in Nat
    BY <1>2, SeqFacts
  <2> QED BY <1>1, <1>3, <2>1
<1>6. Leads(s, x, 2)
  BY <1>3, <1>4, <1>5 DEF Leads
<1> QED BY <1>2, <1>6 DEF s, one

\* A load that ends ready tells the store program what it found, and no more.
LEMMA LoadedReady ==
  ASSUME NEW n \in Models, NEW e \in EntryType, NEW outcome \in {"stored", "empty"}, e.intent = "create" \/ outcome = "stored",
         NEW s, s = FinishLoad(n, e, outcome)
  PROVE  /\ s.m.hasStore = n.hasStore /\ s.m.entry.phase = "ready" /\ ~s.refused
         /\ \E x : \E i \in Nat :
              /\ Leads(s.effects, x, i) /\ x.do = "store" /\ x.gen = 0
              /\ outcome = "stored" => x.arg = "hydrated"
              /\ outcome = "empty" => x.arg = "register"
<1> DEFINE type == IF outcome = "stored" THEN "hydrated" ELSE "register"
           none == 0
           x == ToStore(type, none)
           y == Named("adopt", e.gen)
           z == Named("wire", e.gen)
           u == Register(e.gen, e.suspended)
           p == Put(n, [e EXCEPT !.phase = "ready", !.intent = "none", !.registered = n.hooked])
           a == When(e.tier = "interpret", <<y>>)
           b == StoreLearns(outcome)
           c == When(Registers(n, FALSE), <<u>>)
           d == When(e.tier = "interpret", <<z>>)
           ab == a \o b
           abc == ab \o c
           abcd == abc \o d
           S == {x, y, z, u}
<1>1. s = Does(p, abcd)
  BY DEF FinishLoad
<1>2. b = <<x>> /\ (outcome = "stored" => type = "hydrated") /\ (outcome = "empty" => type = "register")
  BY DEF StoreLearns
<1>3. p.hasStore = n.hasStore /\ p.entry.phase = "ready"
  <2> DEFINE r == [e EXCEPT !.phase = "ready", !.intent = "none", !.registered = n.hooked]
  <2>1. r.phase = "ready"
    BY DEF EntryType
  <2> HIDE DEF r
  <2>2. n \in Drafts /\ p = Put(n, r)
    BY DEF Models, r
  <2> HIDE DEF p
  <2> QED BY <2>1, <2>2, PutEntry
<1>4. x = [do |-> "store", gen |-> 0, arg |-> type, on |-> FALSE, of |-> none]
  BY DEF ToStore, Effect
<1>5. x \in S /\ y \in S /\ z \in S /\ u \in S
  OBVIOUS
<1>6. y.do = "adopt" /\ z.do = "wire" /\ u.do = "register"
  BY DEF Named, Register, Effect
<1> HIDE DEF p, none, type, b, S, u, y, z
<1>7. x.do = "store" /\ x.gen = 0 /\ x.arg = type
  BY <1>4
<1> HIDE DEF x
<1>8. c \in Seq(S) /\ d \in Seq(S)
  BY <1>5, WhenIn
<1>9. (\A k \in DOMAIN c : c[k].do # "store") /\ (\A k \in DOMAIN d : d[k].do # "store")
  <2> DEFINE registers == Registers(n, FALSE)
             interprets == e.tier = "interpret"
  <2>1. c = When(registers, <<u>>) /\ d = When(interprets, <<z>>) /\ u.do # "store" /\ z.do # "store"
    BY <1>6
  <2> HIDE DEF c, d, registers, interprets
  <2>2. \A k \in DOMAIN When(registers, <<u>>) : When(registers, <<u>>)[k].do # "store"
    BY <2>1, WhenTells
  <2>3. \A k \in DOMAIN When(interprets, <<z>>) : When(interprets, <<z>>)[k].do # "store"
    BY <2>1, WhenTells
  <2> QED BY <2>1, <2>2, <2>3
<1> HIDE DEF c, d
<1>10. \E i \in Nat : ab \in Seq(S) /\ Leads(ab, x, i)
  <2>1. CASE e.tier = "interpret"
    <3> DEFINE yx == <<y>> \o <<x>>
    <3>1. a = <<y>>
      BY <2>1 DEF When
    <3>2. ab = yx
      BY <1>2, <3>1
    <3>3. yx \in Seq(S) /\ Leads(yx, x, 2)
      BY <1>5, <1>6, LeadsTwo
    <3> HIDE DEF yx, ab
    <3> QED BY <3>2, <3>3
  <2>2. CASE e.tier # "interpret"
    <3> DEFINE one == <<x>>
    <3>1. a = <<>>
      BY <2>2 DEF When
    <3>2. one \in Seq(S) /\ DOMAIN one = {1} /\ one[1] = x
      BY <1>5
    <3>3. <<>> \o one = one
      BY <3>2, ConcatEmptySeq
    <3>4. ab = one
      BY <1>2, <3>1, <3>3
    <3> HIDE DEF one, ab
    <3>5. Leads(one, x, 1)
      BY <3>2 DEF Leads
    <3> QED BY <3>2, <3>4, <3>5
  <2> QED BY <2>1, <2>2
<1> HIDE DEF ab
<1>11. \E i \in Nat : abcd \in Seq(S) /\ Leads(abcd, x, i)
  <2>1. PICK i \in Nat : ab \in Seq(S) /\ Leads(ab, x, i)
    BY <1>10
  <2>2. abc \in Seq(S) /\ Leads(abc, x, i)
    BY <1>8, <1>9, <2>1, LeadsOn
  <2> HIDE DEF abc
  <2>3. abcd \in Seq(S) /\ Leads(abcd, x, i)
    BY <1>8, <1>9, <2>2, LeadsOn
  <2> QED BY <2>3
<1> HIDE DEF abcd
<1>12. s.m = p /\ s.effects = abcd /\ ~s.refused
  BY <1>1, DoesIs
<1>13. (outcome = "stored" => x.arg = "hydrated") /\ (outcome = "empty" => x.arg = "register")
  BY <1>2, <1>7
<1> QED BY <1>3, <1>7, <1>11, <1>12, <1>13

\* A load ends ready, and the store program is told what it found.
LEMMA FactsLoaded ==
  ASSUME NEW S, NEW c \in Seq(S), c # <<>>, NEW e, e.phase = "loading", NEW p, NEW d, NEW closed, Facts({}, {}, e, p, c, d, closed),
         Head(c).kind \in {"currentMeta", "loadAll"}, Head(c).gen = e.gen,
         NEW e2, e2.phase = "ready", NEW type \in Tracks, type = "hydrated" => d
  PROVE  Facts({type}, {}, e2, p, Tail(c), d, closed)
<1> DEFINE t == {}
           t2 == {type}
           b == Tail(c)
<1>1. t = {} /\ type \in t2 /\ (\A x \in t2 : x = type) /\ (type = "hydrated" \/ type = "register")
  BY DEF Tracks
<1>2. Facts(t, t, e, p, c, d, closed)
  OBVIOUS
<1>3. /\ Head(c) = c[1] /\ 1 \in DOMAIN c /\ Len(c) \in Nat \ {0} /\ DOMAIN c = 1 .. Len(c)
      /\ DOMAIN b = 1 .. (Len(c) - 1) /\ \A i \in 1 .. (Len(c) - 1) : b[i] = c[i + 1]
  BY Popping
<1> HIDE DEF t, t2, b
<1>4. p.status = "untracked" /\ \A k \in (1 + 1) .. Len(c) : c[k].kind \notin {"since", "delete"}
  BY <1>2, <1>3 DEF Facts, Reading
<1>5. \A i \in DOMAIN b : b[i].kind \notin {"since", "delete"}
  <2>1. \A i \in DOMAIN b : i + 1 \in (1 + 1) .. Len(c) /\ b[i] = c[i + 1]
    BY <1>3
  <2> QED BY <1>4, <2>1
<1>6. Undeleted(t, b) /\ Unwritten(t, b) /\ \A do : ~IsToDo(t, do)
  BY <1>1, <1>5 DEF Undeleted, Unwritten, IsToDo
<1>7. p.version = Nothing
  BY <1>2, <1>4 DEF Facts, Tracked
<1>8. Tracked(t2, t, p, b, d)
  BY <1>1, <1>4, <1>6, <1>7 DEF Tracked
<1>9. Reading(e2, t2, t, p, b)
  BY DEF Reading
<1>10. Entered(e2, t2, t, p, b, d, closed)
  BY <1>1, <1>6 DEF Entered
<1> QED BY <1>8, <1>9, <1>10 DEF Facts, t, t2, b

LEMMA ReadEndsStays ==
  ASSUME LifecycleInv, CallsTyped, BeliefHolds, ClosedOnce, ReadEnds PROVE CallsTyped' /\ BeliefHolds'
<1> DEFINE c == Head(calls)
           gen == c.gen
           outcome == IF disk THEN "stored" ELSE "empty"
           s == Loaded(m, gen, outcome)
<1>1. stack = <<>> /\ calls # <<>> /\ c.kind \in Reads /\ UNCHANGED <<storeQ, store, disk, over>>
  BY DEF ReadEnds, CallEnds, queues
<1>2. m \in Models /\ Fits(m) /\ Base(stack)
  BY <1>1, FitsNow, OuterBase
<1>3. outcome \in {"stored", "empty"} /\ (outcome = "stored" <=> disk)
  OBVIOUS
<1>4. CASE c.kind = "writerOf" \/ (c.kind = "currentMeta" /\ disk)
  <2> DEFINE next == IF c.kind = "writerOf" THEN "currentMeta" ELSE "loadAll"
  <2>1. calls' = Append(Tail(calls), StoreCall(next, Head(calls).gen, FALSE)) /\ UNCHANGED <<m, stack>>
    BY <1>4 DEF ReadEnds
  <2>2. next \in {"currentMeta", "loadAll"}
    OBVIOUS
  <2> HIDE DEF next, outcome, s, gen
  <2> QED BY <1>1, <2>1, <2>2, ReadStays
<1>5. CASE ~(c.kind = "writerOf" \/ (c.kind = "currentMeta" /\ disk))
  <2>1. calls' = Tail(calls) /\ Commit(s, stack) /\ c.kind \in {"currentMeta", "loadAll"}
    BY <1>1, <1>5 DEF ReadEnds, Reads
  <2> DEFINE r == s
  <2>2. CallsKept /\ r = Loaded(m, gen, outcome)
    BY <1>1, <2>1 DEF CallsKept
  <2>3. Commit(r, stack)
    BY <2>1
  <2> HIDE DEF outcome, gen, r, s
  <2>4. StepOf(m, r)
    BY <1>2, <1>3, <2>2, LoadedStep
  <2>5. CASE m.entry.phase = "loading" /\ m.entry.gen = gen => m.entry.intent # "create" /\ outcome # "stored"
    <3>1. Calming(m, r)
      BY <1>2, <2>2, <2>5, LoadedCalm
    <3> QED BY <1>1, <1>2, <2>2, <2>3, <2>4, <3>1, CommitStays
  <2>6. CASE m.entry.phase = "loading" /\ m.entry.gen = gen /\ (m.entry.intent = "create" \/ outcome = "stored")
    <3> DEFINE e == m.entry
    <3>1. r = FinishLoad(m, e, outcome) /\ m.hasStore /\ e \in EntryType /\ stack \in Seq(Frames(m))
      BY <1>2, <2>2, <2>6, ModelFacts DEF Loaded, Fits, Base
    <3>2. /\ r.m.hasStore = m.hasStore /\ r.m.entry.phase = "ready" /\ ~r.refused
          /\ \E x : \E i \in Nat :
               /\ Leads(r.effects, x, i) /\ x.do = "store" /\ x.gen = 0
               /\ outcome = "stored" => x.arg = "hydrated"
               /\ outcome = "empty" => x.arg = "register"
      <4> HIDE DEF e
      <4>1. e.intent = "create" \/ outcome = "stored"
        BY <2>6 DEF e
      <4>2. m \in Models /\ e \in EntryType /\ outcome \in {"stored", "empty"} /\ r = FinishLoad(m, e, outcome)
        BY <1>2, <1>3, <3>1
      <4> QED BY <4>1, <4>2, LoadedReady
    <3>3. PICK x : \E i \in Nat :
               /\ Leads(r.effects, x, i) /\ x.do = "store" /\ x.gen = 0
               /\ outcome = "stored" => x.arg = "hydrated"
               /\ outcome = "empty" => x.arg = "register"
      BY <3>2
    <3> DEFINE f == Frame("step", r.effects, m.entry)
               type == x.arg
    <3>4. f.kind = "step" /\ f.todo = r.effects
      BY DEF Frame
    <3>5. f = Frame("step", r.effects, m.entry)
      OBVIOUS
    <3>6. type \in Tracks /\ (type = "hydrated" => disk)
      BY <1>3, <3>3 DEF Tracks
    <3> HIDE DEF f
    <3>7. Prompt(f) /\ Told(f) = {type}
      BY <3>3, <3>4, LeadsFrame
    <3> HIDE DEF type
    <3>8. /\ Types(storeQ) = {} /\ ToldBy(stack) = {} /\ Work(stack) = {} /\ Settled(stack) /\ InOrder(storeQ)
          /\ Facts({}, {}, e, store, calls, disk, over)
      BY <1>1, <3>1, Resting, ViewNone
    <3>9. Facts({type}, {}, r.m.entry, store, Tail(calls), disk, over)
      <4>1. e.phase = "loading" /\ Head(calls).gen = e.gen /\ Head(calls).kind \in {"currentMeta", "loadAll"}
        BY <2>1, <2>6 DEF gen
      <4> HIDE DEF e
      <4>2. calls \in Seq(Calls(m))
        BY DEF CallsTyped
      <4> QED BY <1>1, <3>2, <3>6, <3>8, <4>1, <4>2, FactsLoaded
    <3>10. Facts((Told(f) \cup ToldBy(stack)) \cup Types(storeQ), Work(stack), r.m.entry, store', calls', disk', over')
      <4>1. (Told(f) \cup ToldBy(stack)) \cup Types(storeQ) = {type} /\ Work(stack) = {}
        BY <3>7, <3>8
      <4> QED BY <1>1, <2>1, <3>9, <4>1
    <3>11. Sends(f, storeQ)
      BY <3>8 DEF Sends
    <3>12. BeliefHolds'
      BY <1>1, <1>2, <2>3, <2>4, <3>1, <3>2, <3>5, <3>7, <3>8, <3>10, <3>11, CommitTells
    <3>13. m' = r.m
      BY <2>3 DEF Commit
    <3> QED BY <1>2, <2>2, <2>4, <3>12, <3>13, CallsTypedLater
  <2> QED BY <2>5, <2>6
<1> QED BY <1>4, <1>5

-----------------------------------------------------------------------------
(* The release of an unload.                                               *)

\* The release takes what an unload waits for...
LEMMA FactsReleased ==
  ASSUME NEW t, NEW w, NEW e, e.phase = "storing", NEW p, NEW c, NEW d, NEW closed, Facts(t, w, e, p, c, d, closed),
         IsToDo(w, "released"), NEW x, x.phase \in {"leaving", "unloaded"}, NEW t2, t2 \cap Key \subseteq t
  PROVE  Facts(t2, {}, x, p, c, d, closed)
<1> DEFINE none == {}
<1>1. "destroy" \notin t /\ Undeleted(w, c)
  BY DEF Facts, Entered
<1>2. none \subseteq w
  OBVIOUS
<1> HIDE DEF none
<1>3. Facts(t2, none, e, p, c, d, closed)
  BY <1>1, <1>2, Calm
<1>4. d /\ p.status = "untracked" /\ t \cap Tracks = {}
  BY DEF Facts, Tracked
<1>5. t2 \cap Tracks = {}
  BY <1>4 DEF Key
<1>6. Reading(x, t2, none, p, c)
  BY DEF Reading
<1>7. Entered(x, t2, none, p, c, d, closed)
  BY <1>3, <1>4, <1>5 DEF Facts, Entered
<1> QED BY <1>3, <1>6, <1>7 DEF Facts, none

\* ...or is handed back by a document that is ready again.
LEMMA FactsKept ==
  ASSUME NEW t, NEW w, NEW e, e.phase = "ready", NEW p, NEW c, NEW d, NEW closed, Facts(t, w, e, p, c, d, closed),
         IsToDo(w, "released")
  PROVE  Facts(t \cup {"hydrated"}, {}, e, p, c, d, closed) /\ t \cap (Tracks \cup {"destroy"}) = {}
<1> DEFINE none == {}
           t2 == t \cup {"hydrated"}
<1>1. "destroy" \notin t /\ Undeleted(w, c) /\ t \cap Tracks = {} /\ d /\ p.status = "untracked" /\ p.version = Nothing
  BY DEF Facts, Entered, Tracked
<1>2. (\A do : ~IsToDo(none, do)) /\ none \subseteq w
  BY DEF IsToDo
<1> HIDE DEF none
<1>3. Undeleted(none, c)
  BY <1>1, <1>2 DEF Undeleted
<1>4. "register" \notin t2 /\ "destroy" \notin t2
  BY <1>1 DEF Tracks
<1> HIDE DEF t2
<1>5. Tracked(t2, none, p, c, d)
  BY <1>1, <1>2, <1>3, <1>4 DEF Tracked
<1>6. Reading(e, t2, none, p, c)
  BY DEF Reading
<1>7. Entered(e, t2, none, p, c, d, closed)
  BY <1>1, <1>3, <1>4 DEF Entered
<1> QED BY <1>1, <1>5, <1>6, <1>7 DEF Facts, none, t2

LEMMA ReleaseStays ==
  ASSUME LifecycleInv, CallsTyped, BeliefHolds, Release PROVE CallsTyped' /\ BeliefHolds'
<1> DEFINE gen == E.gen
           e == m.entry
           b == Rest
           s == Released(m, gen)
           t == ToldBy(stack) \cup Types(storeQ)
           w == Work(stack)
<1>1. OnTop("store") /\ Top.todo # <<>> /\ E.do = "released" /\ Commit(s, b) /\ UNCHANGED <<storeQ, store, calls, disk, over>>
  BY DEF Release, StoreDoes, storage, queues
<1>2. /\ m.hasStore /\ Base(b) /\ Work(b) = {} /\ IsToDo(w, "released")
      /\ m \in Models /\ Fits(m) /\ e \in EntryType /\ e.gen \in Nat
  BY <1>1, StoreTaken, FitsNow, ModelFacts DEF IsToDo
<1>3. StepOf(m, s) /\ CallsKept
  BY <1>1, <1>2, ReleasedStep DEF CallsKept
<1>4. b \in Seq(Frames(m)) /\ Settled(b) /\ ToldBy(b) = ToldBy(stack) /\ InOrder(storeQ) /\ Facts(t, w, e, store, calls, disk, over)
  BY <1>2, Queued DEF Base
<1>5. CallsTyped'
  BY <1>1, <1>2, <1>3, CallsTypedLater DEF Commit
<1> DEFINE f == Frame("step", s.effects, m.entry)
<1>6. f.kind = "step" /\ f.todo = s.effects /\ f = Frame("step", s.effects, m.entry)
  BY DEF Frame
<1> HIDE DEF gen, b, w
<1>7. CASE e.phase = "ready"
  <2> DEFINE none == 0
             x == ToStore("hydrated", none)
             todo == <<x>>
  <2>1. s.m = m /\ s.effects = todo /\ ~s.refused
    <3>1. s = Does(m, todo)
      BY <1>7 DEF Released
    <3> HIDE DEF s, todo
    <3> QED BY <3>1, DoesIs
  <2>2. x.do = "store" /\ x.gen = 0 /\ x.arg = "hydrated"
    BY DEF ToStore, Effect
  <2> HIDE DEF x, f, s
  <2>3. DOMAIN todo = {1} /\ todo[1] = x
    OBVIOUS
  <2> HIDE DEF todo
  <2>4. Leads(todo, x, 1)
    BY <2>3 DEF Leads
  <2>5. Prompt(f) /\ Told(f) = {"hydrated"}
    BY <1>6, <2>1, <2>2, <2>4, LeadsFrame
  <2>6. Facts(t \cup {"hydrated"}, {}, e, store, calls, disk, over) /\ t \cap (Tracks \cup {"destroy"}) = {}
    BY <1>2, <1>4, <1>7, FactsKept
  <2>7. Sends(f, storeQ)
    BY <2>6 DEF Sends
  <2>8. Facts((Told(f) \cup ToldBy(b)) \cup Types(storeQ), Work(b), s.m.entry, store', calls', disk', over')
    <3>1. (Told(f) \cup ToldBy(b)) \cup Types(storeQ) = t \cup {"hydrated"}
      BY <1>4, <2>5
    <3> QED BY <1>1, <1>2, <2>1, <2>6, <3>1
  <2>9. BeliefHolds'
    BY <1>1, <1>2, <1>3, <1>4, <1>6, <2>1, <2>5, <2>7, <2>8, CommitTells
  <2> QED BY <1>5, <2>9
<1>8. CASE e.phase = "storing" /\ e.gen = gen
  <2> DEFINE x == IF e.registered THEN [e EXCEPT !.phase = "leaving"] ELSE Unloaded(e)
             p == Put(m, x)
             y == Close(e)
             z == IF e.registered THEN Named("leave", gen) ELSE Named("dispose", gen)
             todo == <<y, z>>
  <2>1. s = Does(p, todo)
    BY <1>8 DEF Released
  <2>2. x.phase \in {"leaving", "unloaded"}
    BY <1>2 DEF EntryType, Unloaded, Entry
  <2>3. y \in CalmEffects /\ z \in CalmEffects
    <3>1. y \in CalmEffects
      <4>1. HydrationOf(e) \in {"pending", "loaded", "failed"}
        BY DEF HydrationOf
      <4> QED BY <1>2, <4>1, CalmIn DEF Close
    <3>2. z \in CalmEffects
      <4>1. gen \in Nat
        BY <1>2, <1>8
      <4>2. Named("leave", gen) \in CalmEffects /\ Named("dispose", gen) \in CalmEffects
        BY <4>1, CalmIn DEF Dos
      <4> QED BY <4>2
    <3> QED BY <3>1, <3>2
  <2> HIDE DEF x, y, z
  <2>4. p.entry = x /\ p.hasStore = m.hasStore
    BY <1>2, PutEntry DEF Models
  <2>5. Calmly(todo)
    BY <2>3, CalmNone
  <2> HIDE DEF p, todo, s, f
  <2>6. s.m = p /\ s.effects = todo /\ ~s.refused
    BY <2>1, DoesIs
  <2>7. Prompt(f) /\ Told(f) \cap Key = {} /\ Told(f) \cap Tracks = {}
    BY <1>6, <2>5, <2>6, CalmFrame
  <2> DEFINE t2 == (Told(f) \cup ToldBy(b)) \cup Types(storeQ)
  <2>8. t2 \cap Key \subseteq t /\ Sends(f, storeQ)
    BY <1>4, <2>7 DEF Sends
  <2> HIDE DEF t2, t
  <2>9. Facts(t2, {}, x, store, calls, disk, over)
    BY <1>2, <1>4, <1>8, <2>2, <2>8, FactsReleased
  <2>10. Facts(t2, Work(b), s.m.entry, store', calls', disk', over')
    BY <1>1, <1>2, <2>4, <2>6, <2>9
  <2>11. s.m.hasStore
    BY <1>2, <2>4, <2>6
  <2>12. BeliefHolds'
    BY <1>1, <1>2, <1>3, <1>4, <1>6, <2>6, <2>7, <2>8, <2>10, <2>11, CommitTells DEF t2
  <2> QED BY <1>5, <2>12
<1>9. CASE ~(e.phase = "ready") /\ ~(e.phase = "storing" /\ e.gen = gen)
  <2>1. s = Nothing2Do(m)
    BY <1>9 DEF Released
  <2> HIDE DEF s
  <2>2. Calming(m, s)
    BY <1>2, <2>1, StaysPut
  <2> QED BY <1>1, <1>2, <1>3, <2>2, CommitStays
<1> QED BY <1>7, <1>8, <1>9

-----------------------------------------------------------------------------
(* Ends for good: a destroy, and a reset.                                  *)

\* What ends an instance.
Endings == {x \in CalmEffects : x.do \in {"close", "dispose"}}

LEMMA EndsCalmly ==
  ASSUME NEW e \in EntryType
  PROVE  When(IsHeld(e), End(e)) \in Seq(Endings) /\ Named("dispose", e.gen) \in Endings
<1> DEFINE c == Close(e)
           d == Named("dispose", e.gen)
           a == When(e.phase # "leaving", <<c>>)
           s == a \o <<d>>
<1>1. e.gen \in Nat
  BY DEF EntryType
<1>2. c \in CalmEffects /\ c.do = "close"
  <2>1. HydrationOf(e) \in {"pending", "loaded", "failed"}
    BY DEF HydrationOf
  <2> QED BY <1>1, <2>1, CalmIn DEF Close, Effect
<1>3. d \in CalmEffects /\ d.do = "dispose"
  BY <1>1, CalmIn DEF Dos, Named, Effect
<1>4. c \in Endings /\ d \in Endings
  BY <1>2, <1>3 DEF Endings
<1> HIDE DEF c, d
<1>5. a \in Seq(Endings) /\ <<d>> \in Seq(Endings)
  BY <1>4, WhenIn
<1> HIDE DEF a
<1>6. s \in Seq(Endings)
  BY <1>5, BothIn
<1>7. End(e) = s
  BY DEF End, a, c, d
<1> HIDE DEF s
<1>8. When(IsHeld(e), End(e)) \in {s, <<>>}
  BY <1>7 DEF When
<1>9. <<>> \in Seq(Endings)
  BY EmptySeq
<1> QED BY <1>4, <1>6, <1>8, <1>9 DEF d

LEMMA Lasts ==
  ASSUME NEW S, NEW a \in Seq(S), NEW x \in S, NEW r, r = a \o <<x>>
  PROVE  /\ r \in Seq(S) /\ Len(a) \in Nat /\ Len(r) = Len(a) + 1 /\ DOMAIN r = 1 .. (Len(a) + 1) /\ r[Len(a) + 1] = x
         /\ \A i \in 1 .. Len(a) : r[i] = a[i]
<1> DEFINE one == <<x>>
           l == Len(a)
<1>1. one \in Seq(S) /\ Len(one) = 1 /\ one[1] = x /\ l \in Nat /\ r = a \o one
  BY LenProperties
<1> HIDE DEF one
<1>2. a \o one \in Seq(S) /\ Len(a \o one) = l + Len(one)
      /\ \A i \in 1 .. (l + Len(one)) : (a \o one)[i] = IF i <= l THEN a[i] ELSE one[i - l]
  BY <1>1, ConcatProperties
<1> HIDE DEF l
<1>3. (a \o one)[l + 1] = x
  <2>1. l + 1 \in 1 .. (l + Len(one)) /\ ~(l + 1 <= l) /\ (l + 1) - l = 1
    BY <1>1
  <2>2. (a \o one)[l + 1] = one[(l + 1) - l]
    BY <1>2, <2>1
  <2> QED BY <1>1, <2>1, <2>2
<1>4. r \in Seq(S) /\ Len(r) = l + 1 /\ r[l + 1] = x
  BY <1>1, <1>2, <1>3
<1>5. DOMAIN r = 1 .. Len(r)
  BY <1>4, LenProperties
<1>6. \A i \in 1 .. l : r[i] = a[i]
  <2> SUFFICES ASSUME NEW i \in 1 .. l PROVE (a \o one)[i] = a[i]
    BY <1>1
  <2>1. i \in 1 .. (l + Len(one)) /\ i <= l
    BY <1>1
  <2> QED BY <1>2, <2>1
<1> QED BY <1>1, <1>4, <1>5, <1>6 DEF l

\* A destroy tells the store program of it, and no more.
LEMMA DestroyTells ==
  ASSUME NEW n \in Models, NEW s, s = Destroy(n)
  PROVE  /\ ~s.refused /\ s.m.hasStore = n.hasStore /\ s.m.entry.phase = "absent"
         /\ n.hasStore => \A f : f.kind = "step" /\ f.todo = s.effects => Prompt(f) /\ Told(f) = {"destroy"}
<1> DEFINE e == n.entry
           p == Put(n, Absent)
           none == 0
           x == ToStore("destroy", none)
           y == Notify("destroyed")
           a == When(IsHeld(e), End(e))
           b == When(~IsHeld(e) \/ n.hasStore, <<x>>)
           c == <<y>>
           ab == a \o b
           abc == ab \o c
           S == Endings \cup {x, y}
<1>1. s = Does(p, abc)
  BY DEF Destroy
<1>2. p.entry.phase = "absent" /\ p.hasStore = n.hasStore
  BY PutEntry, BaseEntries DEF Models
<1>3. x.do = "store" /\ x.gen = 0 /\ x.arg = "destroy" /\ y.do = "notify"
  BY DEF ToStore, Notify, Effect
<1>4. a \in Seq(Endings)
  BY EndsCalmly, ModelFacts
<1> HIDE DEF p, none, x, y, a
<1>5. a \in Seq(S) /\ x \in S /\ y \in S
  BY <1>4, SeqLarger
<1>6. \A z \in S : z.do = "store" => z = x
  BY <1>3 DEF Endings
<1>7. ASSUME n.hasStore, NEW f, f.kind = "step", f.todo = abc PROVE Prompt(f) /\ Told(f) = {"destroy"}
  <2> HIDE DEF S
  <2>1. ab = a \o <<x>> /\ <<x>> \in Seq(S) /\ c \in Seq(S)
    BY <1>5, <1>7 DEF When
  <2>2. /\ ab \in Seq(S) /\ Len(a) \in Nat /\ Len(ab) = Len(a) + 1 /\ DOMAIN ab = 1 .. (Len(a) + 1) /\ ab[Len(a) + 1] = x
    <3> HIDE DEF ab
    <3>1. ab = a \o <<x>> /\ a \in Seq(S) /\ x \in S
      BY <1>5, <2>1
    <3> QED BY <3>1, Lasts
  <2> HIDE DEF ab, c
  <2>3. /\ abc \in Seq(S) /\ Len(abc) = Len(ab) + Len(c) /\ Len(c) \in Nat
        /\ \A i \in 1 .. Len(ab) + Len(c) : abc[i] = IF i <= Len(ab) THEN ab[i] ELSE c[i - Len(ab)]
    BY <2>1, <2>2, ConcatProperties, LenProperties
  <2> HIDE DEF abc
  <2>4. Len(a) + 1 \in DOMAIN abc /\ abc[Len(a) + 1] = x
    BY <2>2, <2>3, LenProperties
  <2>5. \A k \in DOMAIN abc : abc[k].do = "store" => abc[k] = x
    BY <1>6, <2>3, SeqFacts
  <2>6. Prompt(f)
    BY <1>3, <1>7, <2>5 DEF Prompt, Tracks
  <2>7. Told(f) = {"destroy"}
    <3>1. "destroy" \in Told(f)
      BY <1>3, <1>7, <2>4 DEF Told
    <3>2. \A z \in Told(f) : z = "destroy"
      BY <1>3, <1>7, <2>5 DEF Told
    <3> QED BY <3>1, <3>2
  <2> QED BY <2>6, <2>7
<1> HIDE DEF abc
<1>8. s.m = p /\ s.effects = abc /\ ~s.refused
  BY <1>1, DoesIs
<1> QED BY <1>2, <1>7, <1>8

LEMMA FactsDestroyed ==
  ASSUME NEW t, NEW w, NEW e, NEW p, NEW c, NEW d, NEW closed, Facts(t, w, e, p, c, d, closed), NEW x, x.phase = "absent"
  PROVE  Facts(t \cup {"destroy"}, w, x, p, c, d, closed)
<1> DEFINE t2 == t \cup {"destroy"}
<1>1. t2 \cap Tracks = t \cap Tracks /\ "destroy" \in t2
      /\ \A y \in {"hydrated", "register", "write-succeeded"} : y \in t2 => y \in t
  BY DEF Tracks
<1> HIDE DEF t2
<1>2. Tracked(t2, w, p, c, d)
  BY <1>1 DEF Facts, Tracked
<1>3. Reading(x, t2, w, p, c) /\ Entered(x, t2, w, p, c, d, closed)
  BY <1>1 DEF Reading, Entered
<1> QED BY <1>2, <1>3 DEF Facts, t2

LEMMA CommitStoreless ==
  ASSUME LifecycleInv, BeliefHolds, ~m.hasStore, NEW b, Base(b), NEW s, StepOf(m, s), ~s.m.hasStore,
         s.m.entry.phase \in {"absent", "deferred", "ready"}, Commit(s, b), UNCHANGED <<store, calls>>
  PROVE  BeliefHolds'
<1> DEFINE f == Frame("step", s.effects, m.entry)
           u == <<f>> \o b
<1>1. m' = s.m /\ stack' \in {b, u}
  BY DEF Commit
<1>2. /\ m \in Models /\ Storeless(stack, m.entry, store, calls) /\ b \in Seq(Frames(m)) /\ ~Busy("store", b)
      /\ s.m \in Models /\ Later(m, s.m) /\ s.effects \in Todo(s.m) /\ m.entry \in EntryType
  BY Queued DEF Base, StepOf
<1>3. f \in Frames(s.m) /\ f.kind = "step"
  <2>1. f = [kind |-> "step", todo |-> s.effects, before |-> m.entry]
    BY DEF Frame
  <2> HIDE DEF f
  <2> QED BY <1>2, <2>1 DEF Frames
<1> HIDE DEF f
<1>4. IsOn(u, f, b)
  <2>1. b \in Seq(Frames(s.m))
    BY <1>2, LaterFrames
  <2> QED BY <1>3, <2>1, PushOn
<1> HIDE DEF u
<1>5. ~Busy("store", u)
  BY <1>2, <1>3, <1>4, SettledOn
<1>6. ~Busy("store", stack')
  BY <1>1, <1>2, <1>5
<1>7. Storeless(stack', s.m.entry, store, calls)
  BY <1>2, <1>6 DEF Storeless
<1> QED BY <1>1, <1>7 DEF BeliefHolds

LEMMA DestroyStays ==
  ASSUME LifecycleInv, CallsTyped, BeliefHolds, DoDestroy PROVE CallsTyped' /\ BeliefHolds'
<1> DEFINE s == Destroy(m)
           f == Frame("step", s.effects, m.entry)
<1>1. (stack = <<>> \/ OnTop("app")) /\ Commit(s, stack) /\ UNCHANGED <<storeQ, store, calls, disk, over>>
  BY DEF DoDestroy, Ask, storage, queues
<1>2. /\ m \in Models /\ m.entry \in EntryType /\ Base(stack)
      /\ m.hasStore => InOrder(storeQ) /\ Facts(ToldBy(stack) \cup Types(storeQ), Work(stack), m.entry, store, calls, disk, over)
  BY <1>1, OuterBase, Queued
<1>3. StepOf(m, s) /\ CallsKept
  BY <1>1, <1>2, DestroyStep DEF CallsKept
<1>4. s = Destroy(m) /\ f.kind = "step" /\ f.todo = s.effects /\ f = Frame("step", s.effects, m.entry)
  BY DEF Frame
<1> HIDE DEF f, s
<1>5. /\ ~s.refused /\ s.m.hasStore = m.hasStore /\ s.m.entry.phase = "absent"
      /\ m.hasStore => Prompt(f) /\ Told(f) = {"destroy"}
  BY <1>2, <1>4, DestroyTells
<1>6. CallsTyped'
  BY <1>1, <1>2, <1>3, CallsTypedLater DEF Commit
<1>7. CASE m.hasStore
  <2> DEFINE t == ToldBy(stack) \cup Types(storeQ)
             e == s.m.entry
  <2>1. Prompt(f) /\ Told(f) = {"destroy"} /\ Sends(f, storeQ)
    BY <1>5, <1>7 DEF Sends, Tracks
  <2>2. Facts(t \cup {"destroy"}, Work(stack), e, store, calls, disk, over)
    <3> HIDE DEF e, t
    <3>1. e.phase = "absent" /\ Facts(t, Work(stack), m.entry, store, calls, disk, over)
      BY <1>2, <1>5, <1>7 DEF e, t
    <3> QED BY <3>1, FactsDestroyed
  <2>3. (Told(f) \cup ToldBy(stack)) \cup Types(storeQ) = t \cup {"destroy"}
    BY <2>1
  <2>4. Facts((Told(f) \cup ToldBy(stack)) \cup Types(storeQ), Work(stack), e, store', calls', disk', over')
    BY <1>1, <2>2, <2>3
  <2>5. stack \in Seq(Frames(m)) /\ Settled(stack) /\ storeQ' = storeQ
    BY <1>1, <1>2, <1>7 DEF Base
  <2>6. s.m.hasStore
    BY <1>5, <1>7
  <2>7. BeliefHolds'
    BY <1>1, <1>2, <1>3, <1>4, <1>5, <1>7, <2>1, <2>4, <2>5, <2>6, CommitTells
  <2> QED BY <1>6, <2>7
<1>8. CASE ~m.hasStore
  <2>1. ~s.m.hasStore
    BY <1>5, <1>8
  <2>2. BeliefHolds'
    BY <1>1, <1>2, <1>3, <1>5, <1>8, <2>1, CommitStoreless
  <2> QED BY <1>6, <2>2
<1> QED BY <1>7, <1>8

LEMMA CloseAllEnds ==
  ASSUME NEW n \in Models, NEW s, s = CloseAll(n)
  PROVE  ~s.refused /\ s.m.hasStore = n.hasStore /\ s.m.entry.phase = "absent" /\ s.effects \in Seq(Endings)
<1> DEFINE e == n.entry
           p == [n EXCEPT !.entry = Absent, !.departing = {}]
           gone == SetToSeq(n.departing)
           a == When(IsHeld(e), End(e))
           b == [i \in DOMAIN gone |-> Named("dispose", gone[i])]
           ab == a \o b
<1>1. /\ e \in EntryType /\ n.nextGen \in Nat \ {0} /\ n.departing \subseteq 1 .. (n.nextGen - 1)
      /\ n \in [entry : EntryType, departing : SUBSET Nat, nextGen : Nat \ {0}, hooked : BOOLEAN, hasStore : BOOLEAN]
  BY ModelFacts DEF Models, Drafts
<1>2. p.entry = Absent /\ p.hasStore = n.hasStore
  BY <1>1
<1>3. s = Does(p, ab)
  BY DEF CloseAll
<1> HIDE DEF p
<1>4. gone \in Seq(n.departing)
  <2>1. IsFiniteSet(1 .. (n.nextGen - 1))
    BY <1>1, FS_Interval
  <2>2. IsFiniteSet(n.departing)
    BY <1>1, <2>1, FS_Subset
  <2> QED BY <2>2, SetSeq
<1> HIDE DEF gone
<1>5. Len(gone) \in Nat /\ DOMAIN gone = 1 .. Len(gone) /\ \A i \in DOMAIN gone : gone[i] \in Nat
  BY <1>1, <1>4, SeqFacts
<1>6. \A g \in Nat : Named("dispose", g) \in Endings
  <2>1. \A g \in Nat : Named("dispose", g) \in CalmEffects
    BY CalmIn DEF Dos
  <2>2. \A g \in Nat : Named("dispose", g).do = "dispose"
    BY DEF Named, Effect
  <2> QED BY <2>1, <2>2 DEF Endings
<1>7. b \in Seq(Endings)
  <2>1. b \in [1 .. Len(gone) -> Endings]
    BY <1>5, <1>6
  <2> QED BY <2>1, <1>5
<1>8. a \in Seq(Endings)
  BY <1>1, EndsCalmly
<1> HIDE DEF a, b
<1>9. ab \in Seq(Endings)
  BY <1>7, <1>8, BothIn
<1> HIDE DEF ab
<1>10. s.m = p /\ s.effects = ab /\ ~s.refused
  BY <1>3, DoesIs
<1> QED BY <1>2, <1>9, <1>10, BaseEntries

LEMMA ResetStays ==
  ASSUME LifecycleInv, CallsTyped, BeliefHolds, Reset PROVE CallsTyped' /\ BeliefHolds'
<1> DEFINE s == CloseAll(m)
           f == Frame("step", s.effects, m.entry)
<1>1. stack = <<>> /\ Commit(s, stack) /\ UNCHANGED <<storeQ, store, calls, disk>> /\ over'
  BY DEF Reset, queues
<1>2. m \in Models /\ m.entry \in EntryType /\ Base(stack)
  BY <1>1, OuterBase, Queued
<1>3. StepOf(m, s) /\ CallsKept
  BY <1>1, <1>2, CloseAllStep DEF CallsKept
<1>4. s = CloseAll(m) /\ f.kind = "step" /\ f.todo = s.effects /\ f = Frame("step", s.effects, m.entry)
  BY DEF Frame
<1> HIDE DEF f, s
<1>5. ~s.refused /\ s.m.hasStore = m.hasStore /\ s.m.entry.phase = "absent" /\ Calmly(s.effects)
  <2>1. ~s.refused /\ s.m.hasStore = m.hasStore /\ s.m.entry.phase = "absent" /\ s.effects \in Seq(Endings)
    BY <1>2, <1>4, CloseAllEnds
  <2>2. Seq(Endings) \subseteq Seq(CalmEffects)
    BY SeqLarger DEF Endings
  <2> QED BY <2>1, <2>2 DEF Calmly
<1>6. CallsTyped'
  BY <1>1, <1>2, <1>3, CallsTypedLater DEF Commit
<1>7. CASE m.hasStore
  <2> DEFINE e == s.m.entry
             none == {}
             t == Told(f)
  <2>1. Prompt(f) /\ t \cap Key = {} /\ t \cap Tracks = {}
    BY <1>4, <1>5, CalmFrame
  <2>2. /\ Types(storeQ) = {} /\ ToldBy(stack) = {} /\ Work(stack) = {} /\ Settled(stack) /\ InOrder(storeQ)
        /\ Facts(none, none, m.entry, store, calls, disk, over)
    BY <1>1, <1>7, Resting, ViewNone
  <2>3. t \cap Key \subseteq none /\ "destroy" \notin none /\ none \subseteq none
    BY <2>1
  <2> HIDE DEF none, t
  <2>4. Facts(t, none, m.entry, store, calls, disk, over)
    BY <2>2, <2>3, Calm
  <2>5. e.phase = "absent"
    BY <1>5
  <2> HIDE DEF e
  <2>6. Facts(t, none, e, store, calls, disk, over')
    BY <1>1, <2>4, <2>5 DEF Facts, Reading, Entered
  <2>7. (Told(f) \cup ToldBy(stack)) \cup Types(storeQ) = t /\ Work(stack) = none /\ Sends(f, storeQ)
    BY <2>1, <2>2 DEF t, none, Sends
  <2>8. Facts((Told(f) \cup ToldBy(stack)) \cup Types(storeQ), Work(stack), s.m.entry, store', calls', disk', over')
    BY <1>1, <2>6, <2>7 DEF e
  <2>9. stack \in Seq(Frames(m)) /\ s.m.hasStore
    BY <1>2, <1>5, <1>7 DEF Base
  <2>10. BeliefHolds'
    BY <1>1, <1>2, <1>3, <1>4, <1>5, <2>1, <2>2, <2>7, <2>8, <2>9, CommitTells
  <2> QED BY <1>6, <2>10
<1>8. CASE ~m.hasStore
  <2>1. ~s.m.hasStore
    BY <1>5, <1>8
  <2>2. BeliefHolds'
    BY <1>1, <1>2, <1>3, <1>5, <1>8, <2>1, CommitStoreless
  <2> QED BY <1>6, <2>2
<1> QED BY <1>7, <1>8

-----------------------------------------------------------------------------
(* A step tells the store program.                                         *)

\* While a dispatcher works, or a step with another effect to run, nothing was closed.
LEMMA NotClosed ==
  ASSUME LifecycleInv, ClosedOnce, stack # <<>>, Top.kind \in {"store", "sync"} \/ (Top.todo # <<>> /\ E.do \notin {"close", "dispose"})
  PROVE  ~over
<1> DEFINE f == Top
           todo == f.todo
<1>1. stack \in Seq(Frames(m)) /\ m \in Models
  BY DEF LifecycleInv, StackSound, Stacked
<1>2. IsOn(stack, f, Tail(stack)) /\ f \in Frames(m)
  BY <1>1, PopOn DEF Top
<1>3. 1 \in DOMAIN stack /\ stack[1] = f
  BY <1>2 DEF IsOn
<1>4. SUFFICES ASSUME over PROVE FALSE
  OBVIOUS
<1>5. f.kind \in {"step", "app"} /\ \A k \in DOMAIN todo : todo[k].do \in {"close", "dispose"}
  BY <1>3, <1>4 DEF ClosedOnce, Closing
<1>6. f.kind \notin {"store", "sync"}
  BY <1>5
<1>7. todo # <<>> /\ E.do \notin {"close", "dispose"} /\ E = Head(todo)
  BY <1>6 DEF E
<1> HIDE DEF f
<1>8. todo \in Todo(m)
  <2>1. f.kind = "app" => todo = <<>>
    BY <1>2 DEF Frames
  <2>2. f.kind = "step" => todo \in Todo(m)
    BY <1>1, <1>2, FrameFacts
  <2> QED BY <1>5, <1>7, <2>1, <2>2
<1>9. todo \in Seq(Effects(m))
  BY <1>1, <1>7, <1>8, TodoFacts
<1> HIDE DEF todo
<1>10. Head(todo) = todo[1] /\ 1 \in DOMAIN todo
  BY <1>7, <1>9, Popping
<1> QED BY <1>5, <1>7, <1>10

LEMMA ExecStoreStays ==
  ASSUME LifecycleInv, CallsTyped, BeliefHolds, ClosedOnce, ExecStore PROVE CallsTyped' /\ BeliefHolds'
<1> DEFINE input == StoreInput(E.arg, E.of)
           b == Rest
<1>1. /\ OnTop("step") /\ Top.todo # <<>> /\ E.do = "store" /\ ToStoreProgram(input, b)
      /\ UNCHANGED <<m, store, calls, disk, over>>
  BY DEF ExecStore, Doing, E, runtime, storage
<1>2. stack # <<>> /\ m \in Models
  BY <1>1, Queued DEF OnTop
<1>3. ~over
  BY <1>1, <1>2, NotClosed
<1>4. /\ b \in Seq(Frames(m))
      /\ m.hasStore =>
           /\ Settled(b) /\ Work(b) = Work(stack) /\ ToldBy(stack) = ToldBy(b) \cup {E.arg}
           /\ E.arg \in Tracks => Types(storeQ) \cap (Tracks \cup {"destroy"}) = {}
      /\ ~m.hasStore => ~Busy("store", b)
  BY <1>1, TakenOn
<1>5. E.arg \in {"hydrated", "register", "destroy", "keep", "state-advanced", "release"} /\ input \in StoreInputs(m) /\ input.type = E.arg
  <2>1. E \in Effects(m)
    BY <1>1, TakesEffect
  <2>2. E.arg \in {"hydrated", "register", "destroy", "keep", "state-advanced", "release"} /\ E.of \in 0 .. (m.nextGen - 1)
    BY <1>1, <1>2, <2>1, EffectTyped
  <2> QED BY <1>2, <2>2, InputTyped
<1> HIDE DEF input
<1>6. CASE m.hasStore
  <2>1. storeQ \in Seq(StoreInputs(m)) /\ InOrder(storeQ) /\ Facts(ToldBy(stack) \cup Types(storeQ), Work(stack), m.entry, store, calls, disk, over)
    BY <1>6, Queued
  <2>2. input.type # "write-succeeded" /\ (input.type \in Tracks => Types(storeQ) \cap (Tracks \cup {"destroy"}) = {})
    BY <1>4, <1>5, <1>6
  <2> HIDE DEF b
  <2>3. /\ Ordered(stack', storeQ') /\ ToldBy(stack') = ToldBy(b) /\ Work(stack') = Work(b)
        /\ Types(storeQ') = Types(storeQ) \cup {input.type}
    BY <1>1, <1>2, <1>3, <1>4, <1>5, <1>6, <2>1, <2>2, SentOn
  <2>4. ToldBy(stack') \cup Types(storeQ') = ToldBy(stack) \cup Types(storeQ) /\ Work(stack') = Work(stack)
    BY <1>4, <1>5, <1>6, <2>3
  <2>5. Belief(stack', storeQ', m.entry, store, calls, disk, over)
    BY <2>1, <2>3, <2>4 DEF Belief
  <2> QED BY <1>1, <1>6, <2>5 DEF BeliefHolds, CallsTyped
<1>7. CASE ~m.hasStore
  <2>1. stack' = b /\ Storeless(stack, m.entry, store, calls)
    BY <1>1, <1>7, Queued DEF ToStoreProgram
  <2>2. Storeless(stack', m.entry, store, calls)
    BY <1>4, <1>7, <2>1 DEF Storeless
  <2> QED BY <1>1, <1>7, <2>2 DEF BeliefHolds, CallsTyped
<1> QED BY <1>6, <1>7

-----------------------------------------------------------------------------
(* A step of the store program.                                            *)

\* The step keeps the document tracked at the version v, and writes what follows it only if there is one.
Keeps(s, v) == s.phase.status # "untracked" /\ s.phase.version = v /\ (s.write = "since" => v # Nothing)

LEMMA IgnoredKeeps ==
  ASSUME NEW p \in StorePhase PROVE Ignored(p).phase = p /\ Ignored(p).write = "none" /\ (p.status # "untracked" => Keeps(Ignored(p), p.version))
BY DEF Ignored, Step, Keeps

LEMMA StartKeeps ==
  ASSUME NEW p \in StorePhase, NEW owed PROVE Keeps(Start(p, owed), p.version)
<1> DEFINE x == [p EXCEPT !.status = "writing", !.owed = "none"]
           kind == WriteKind(p, owed)
           s == Start(p, owed)
<1>1. s.phase = x /\ s.write = kind
  BY DEF Start, Step
<1>2. x.status = "writing" /\ x.version = p.version
  BY DEF StorePhase
<1>3. kind = "since" => p.version # Nothing
  <2>1. CASE owed = "compact"
    BY <2>1 DEF WriteKind
  <2>2. CASE owed # "compact" /\ p.version = Nothing
    <3>1. kind = "register"
      BY <2>2 DEF WriteKind
    <3> HIDE DEF kind
    <3> QED BY <3>1
  <2> QED BY <2>1, <2>2
<1> HIDE DEF s, x, kind
<1> QED BY <1>1, <1>2, <1>3 DEF Keeps, s

LEMMA RequestKeeps ==
  ASSUME NEW p \in StorePhase, p.status # "untracked", NEW owed PROVE Keeps(Request(p, owed), p.version)
<1>1. CASE p.status = "writing"
  <2> DEFINE o == JoinOwed(p.owed, owed)
             x == [p EXCEPT !.owed = o]
  <2>1. x \in StorePhase /\ x.status = "writing" /\ x.version = p.version
    <3>1. o \in {"none", "advance", "compact"}
      BY DEF JoinOwed
    <3> HIDE DEF o
    <3> QED BY <1>1, <3>1 DEF StorePhase
  <2>2. Request(p, owed) = Ignored(x)
    BY <1>1 DEF Request
  <2> HIDE DEF x
  <2>3. Keeps(Ignored(x), x.version)
    BY <2>1, IgnoredKeeps
  <2> QED BY <2>1, <2>2, <2>3
<1>2. CASE p.status # "writing"
  <2>1. Request(p, owed) = Start(p, owed)
    BY <1>2 DEF Request
  <2> QED BY <2>1, StartKeeps
<1> QED BY <1>1, <1>2

LEMMA SettleKeeps ==
  ASSUME NEW p \in StorePhase, NEW v \in {Nothing, "held"}, NEW n \in Nat
  PROVE  Keeps(SettleWrite(p, SettledAt(v, n)), v)
<1> DEFINE x == SettledAt(v, n)
<1>1. x \in StorePhase /\ x.status = "settled" /\ x.version = v
  BY DEF SettledAt, StorePhase
<1> HIDE DEF x
<1>2. CASE p.owed = "none"
  <2>1. SettleWrite(p, x) = Ignored(x)
    BY <1>2 DEF SettleWrite
  <2> QED BY <1>1, <2>1, IgnoredKeeps DEF x
<1>3. CASE p.owed # "none"
  <2>1. SettleWrite(p, x) = Start(x, p.owed)
    BY <1>3 DEF SettleWrite
  <2> QED BY <1>1, <2>1, StartKeeps DEF x
<1> QED BY <1>2, <1>3

\* What a step of the store program does with an input that comes to phase p.
Answered(p, type, gen, s) ==
  /\ type = "destroy" => s.phase.status = "untracked" /\ s.phase.version = Nothing /\ s.write = "none" /\ gen = 0
  /\ type \notin Tracks \cup {"destroy"} /\ p.status = "untracked" => s.phase = p /\ s.write = "none"
  /\ type \notin Tracks \cup {"destroy"} /\ p.status # "untracked" =>
       Keeps(s, p.version) \/ (type = "write-succeeded" /\ p.status = "writing" /\ Keeps(s, "held"))
  /\ type = "hydrated" => Keeps(s, "held")
  /\ type = "register" /\ p.status = "untracked" => Keeps(s, Nothing)

LEMMA ProgramAnswers ==
  ASSUME m \in Models, StoreTyped, NEW input \in StoreInputs(m)
  PROVE  Answered(store, input.type, ReleasingAfter(input), ProgramStep(input))
<1> DEFINE s == ProgramStep(input)
           gen == ReleasingAfter(input)
           type == input.type
<1>1. store \in StorePhase
  BY DEF StoreTyped, StoreState
<1>2. type \in {"hydrated", "register", "destroy", "keep", "state-advanced", "release", "write-succeeded", "write-failed"}
  BY DEF StoreInputs
<1>3. CASE type = "register"
  <2>1. store.status = "untracked" => Keeps(s, Nothing)
    <3> SUFFICES ASSUME store.status = "untracked" PROVE Keeps(s, Nothing)
      OBVIOUS
    <3> DEFINE x == SettledAt(Nothing, 0)
    <3>1. x \in StorePhase /\ x.status # "untracked" /\ x.version = Nothing
      BY DEF SettledAt, StorePhase
    <3>2. s = Request(x, "advance")
      BY <1>3 DEF ProgramStep, OnRegister
    <3> HIDE DEF x, s
    <3> QED BY <3>1, <3>2, RequestKeeps
  <2> QED BY <1>3, <2>1 DEF Answered, Tracks
<1>4. CASE type = "hydrated"
  <2> DEFINE x == SettledAt("held", 0)
  <2>1. x \in StorePhase /\ x.status # "untracked" /\ x.version = "held"
    BY DEF SettledAt, StorePhase
  <2>2. s = Request(x, "advance")
    BY <1>4 DEF ProgramStep, OnHydrated
  <2> HIDE DEF x, s
  <2>3. Keeps(s, "held")
    BY <2>1, <2>2, RequestKeeps
  <2> QED BY <1>4, <2>3 DEF Answered, Tracks, s
<1>5. CASE type = "destroy"
  <2>1. s = Ignored(Untracked) /\ gen = 0
    BY <1>5 DEF ProgramStep, OnDestroy, ReleasingAfter
  <2>2. s.phase.status = "untracked" /\ s.phase.version = Nothing /\ s.write = "none"
    BY <2>1 DEF Ignored, Step, Untracked
  <2> QED BY <1>5, <2>1, <2>2 DEF Answered
<1>6. ASSUME type \notin Tracks \cup {"destroy"}, store.status = "untracked" PROVE s = Ignored(store)
  <2>1. type \in {"keep", "state-advanced", "release", "write-succeeded", "write-failed"} /\ store.status # "writing"
    BY <1>2, <1>6 DEF Tracks
  <2>2. CASE type = "state-advanced"
    BY <1>6, <2>2 DEF ProgramStep, OnStateAdvanced
  <2>3. CASE type \in {"release", "keep"}
    BY <2>3 DEF ProgramStep
  <2>4. CASE type = "write-succeeded"
    BY <2>1, <2>4 DEF ProgramStep, OnWriteSucceeded
  <2>5. CASE type = "write-failed"
    BY <2>1, <2>5 DEF ProgramStep, OnWriteFailed
  <2> QED BY <2>1, <2>2, <2>3, <2>4, <2>5
<1>7. ASSUME type \notin Tracks \cup {"destroy"}, store.status # "untracked"
      PROVE  Keeps(s, store.version) \/ (type = "write-succeeded" /\ store.status = "writing" /\ Keeps(s, "held"))
  <2>1. type \in {"keep", "state-advanced", "release", "write-succeeded", "write-failed"}
    BY <1>2, <1>7 DEF Tracks
  <2>2. CASE type = "state-advanced"
    <3>1. s = Request(store, "advance")
      BY <1>7, <2>2 DEF ProgramStep, OnStateAdvanced
    <3> QED BY <1>1, <1>7, <3>1, RequestKeeps
  <2>3. CASE type \in {"release", "keep"} \/ store.status # "writing"
    <3>1. CASE type = "state-advanced"
      BY <2>2, <3>1
    <3>2. CASE type # "state-advanced"
      <4>1. s = Ignored(store)
        <5>1. CASE type \in {"release", "keep"}
          BY <5>1 DEF ProgramStep
        <5>2. CASE type = "write-succeeded"
          BY <2>3, <5>2 DEF ProgramStep, OnWriteSucceeded
        <5>3. CASE type = "write-failed"
          BY <2>3, <5>3 DEF ProgramStep, OnWriteFailed
        <5> QED BY <2>1, <3>2, <5>1, <5>2, <5>3
      <4> QED BY <1>1, <1>7, <4>1, IgnoredKeeps
    <3> QED BY <3>1, <3>2
  <2>4. CASE type = "write-succeeded" /\ store.status = "writing"
    <3> DEFINE x == SettleWrite(store, SettledAt("held", 0))
    <3>1. s = [x EXCEPT !.persisted = "held"]
      BY <2>4 DEF ProgramStep, OnWriteSucceeded
    <3>2. x \in StoreSteps
      BY <1>1, SettledTyped, SettleTyped
    <3>3. Keeps(x, "held")
      BY <1>1, SettleKeeps
    <3> HIDE DEF x, s
    <3>4. s.phase = x.phase /\ s.write = x.write
      BY <3>1, <3>2 DEF StoreSteps
    <3>5. Keeps(s, "held")
      BY <3>3, <3>4 DEF Keeps
    <3> QED BY <2>4, <3>5
  <2>5. CASE type = "write-failed" /\ store.status = "writing"
    <3> DEFINE f == store.failures + 1
               v == store.version
               settled == SettledAt(v, f)
               x == SettleWrite(store, settled)
               again == store.owed = "none"
    <3>1. s = [x EXCEPT !.retry = again]
      BY <2>5 DEF ProgramStep, OnWriteFailed
    <3>2. f \in Nat /\ v \in {Nothing, "held"}
      BY <1>1 DEF StorePhase
    <3> HIDE DEF f, v
    <3>3. x \in StoreSteps /\ Keeps(x, v)
      BY <1>1, <3>2, SettledTyped, SettleTyped, SettleKeeps
    <3> HIDE DEF x, s, again
    <3>4. s.phase = x.phase /\ s.write = x.write
      BY <3>1, <3>3 DEF StoreSteps
    <3>5. Keeps(s, v)
      BY <3>3, <3>4 DEF Keeps
    <3> QED BY <3>5 DEF v, s
  <2> QED BY <2>1, <2>2, <2>3, <2>4, <2>5
<1> HIDE DEF gen
<1>8. ASSUME type \notin Tracks \cup {"destroy"} PROVE Answered(store, type, gen, s)
  <2>1. store.status = "untracked" => s.phase = store /\ s.write = "none"
    BY <1>1, <1>6, <1>8, IgnoredKeeps
  <2> HIDE DEF s
  <2> QED BY <1>7, <1>8, <2>1 DEF Answered, Tracks, s
<1> QED BY <1>2, <1>3, <1>4, <1>5, <1>8 DEF Tracks, gen

\* What is believed after the step: what is left to do is w.
LEMMA FactsAnswered ==
  ASSUME NEW p \in StorePhase, NEW type, NEW gen, NEW s, Answered(p, type, gen, s), s.phase \in StorePhase,
         NEW frees, frees => gen # 0 /\ StoredEntirely(s.phase),
         NEW q, frees => q = Untracked, ~frees => q = s.phase,
         NEW u, NEW e, NEW c, NEW d, NEW none, none = {}, NEW open, ~open, Facts(u \cup {type}, none, e, p, c, d, open),
         type \in Tracks \cup {"destroy"} => u \cap Tracks = {}, "write-succeeded" \notin u,
         NEW w, \A x \in w : x[1] = "persist" => x = <<"persist", s.write>> /\ s.write # "none",
         IsToDo(w, "delete") => type = "destroy", IsToDo(w, "released") => frees
  PROVE  Facts(u, w, e, q, c, d, open)
<1> DEFINE t == u \cup {type}
<1>1. /\ \A x : x \in u => x \in t
      /\ type \in t
      /\ \A x : x \in t => x \in u \/ x = type
      /\ u \cap Tracks # {} => t \cap Tracks # {}
      /\ type \in Tracks => t \cap Tracks # {}
  OBVIOUS
<1>2. Tracked(t, none, p, c, d) /\ Reading(e, t, none, p, c) /\ Entered(e, t, none, p, c, d, open)
  BY DEF Facts
<1>3. (\A do : ~IsToDo(none, do)) /\ (Undeleted(none, c) <=> \A i \in DOMAIN c : c[i].kind # "delete")
      /\ (Unwritten(none, c) <=> \A i \in DOMAIN c : c[i].kind # "since")
  BY DEF IsToDo, Undeleted, Unwritten
<1> HIDE DEF t
<1>4. /\ type = "destroy" => s.phase.status = "untracked" /\ s.phase.version = Nothing /\ s.write = "none" /\ gen = 0
      /\ type \notin Tracks \cup {"destroy"} /\ p.status = "untracked" => s.phase = p /\ s.write = "none"
      /\ type \notin Tracks \cup {"destroy"} /\ p.status # "untracked" =>
           Keeps(s, p.version) \/ (type = "write-succeeded" /\ p.status = "writing" /\ Keeps(s, "held"))
      /\ type = "hydrated" => Keeps(s, "held")
      /\ type = "register" /\ p.status = "untracked" => Keeps(s, Nothing)
  BY DEF Answered
<1>5. type \in Tracks => p.status = "untracked"
  BY <1>1, <1>2 DEF Tracked
<1>6. type \in Tracks \/ type = "destroy" \/ type \notin Tracks \cup {"destroy"}
  OBVIOUS
<1>7. type \in Tracks => type = "hydrated" \/ type = "register"
  BY DEF Tracks
<1>8. frees => type # "destroy" /\ s.phase.status # "untracked" /\ s.phase.version # Nothing
  BY <1>4 DEF StoredEntirely
<1>9. q.status # "untracked" => ~frees /\ q = s.phase
  BY DEF Untracked
<1>10. q.status = "untracked" => q.version = Nothing
  <2>1. frees => q.version = Nothing
    BY DEF Untracked
  <2>2. ~frees /\ s.phase.status = "untracked" => s.phase.version = Nothing
    BY <1>2, <1>4, <1>5, <1>6, <1>7 DEF Tracked, Keeps
  <2> QED BY <2>1, <2>2
<1>11. s.phase.version # Nothing => d
  <2>1. CASE type = "destroy"
    BY <1>4, <2>1
  <2>2. CASE type = "hydrated"
    BY <1>1, <1>2, <2>2 DEF Tracked
  <2>3. CASE type = "register"
    BY <1>4, <1>5, <2>3 DEF Keeps, Tracks
  <2>4. CASE type \notin Tracks \cup {"destroy"}
    <3>1. CASE p.status = "untracked"
      BY <1>2, <1>4, <2>4, <3>1 DEF Tracked
    <3>2. CASE p.status # "untracked" /\ Keeps(s, p.version)
      BY <1>2, <3>2 DEF Tracked, Keeps
    <3>3. CASE type = "write-succeeded" /\ p.status = "writing"
      BY <1>1, <1>2, <3>3 DEF Tracked
    <3> QED BY <1>4, <2>4, <3>1, <3>2, <3>3
  <2> QED BY <1>6, <1>7, <2>1, <2>2, <2>3, <2>4
<1>12. u \cap Tracks # {} => type \notin Tracks \cup {"destroy"} /\ p.status = "untracked" /\ s.phase = p /\ s.write = "none" /\ ~frees
  <2> SUFFICES ASSUME u \cap Tracks # {} PROVE type \notin Tracks \cup {"destroy"} /\ p.status = "untracked" /\ s.phase = p /\ s.write = "none" /\ ~frees
    OBVIOUS
  <2>1. type \notin Tracks \cup {"destroy"} /\ p.status = "untracked"
    BY <1>1, <1>2 DEF Tracked
  <2>2. s.phase = p /\ s.write = "none"
    BY <1>4, <2>1
  <2> QED BY <1>8, <2>1, <2>2
<1>13. q.status # "untracked" => Undeleted(none, c) /\ type # "destroy"
  <2> SUFFICES ASSUME q.status # "untracked" PROVE Undeleted(none, c) /\ type # "destroy"
    OBVIOUS
  <2>1. q = s.phase /\ type # "destroy"
    BY <1>4, <1>9
  <2>2. CASE type \in Tracks
    BY <1>1, <1>2, <2>1, <2>2 DEF Tracked
  <2>3. CASE type \notin Tracks \cup {"destroy"}
    <3>1. p.status # "untracked"
      BY <1>4, <2>1, <2>3
    <3> QED BY <1>2, <2>1, <3>1 DEF Tracked
  <2> QED BY <1>6, <2>1, <2>2, <2>3
<1>14. q.status # "untracked" \/ u \cap Tracks # {} => Undeleted(w, c)
  <2>1. u \cap Tracks # {} => Undeleted(none, c) /\ type # "destroy"
    BY <1>1, <1>2, <1>12 DEF Tracked
  <2> QED BY <1>3, <1>13, <2>1 DEF Undeleted
<1>15. q.version # Nothing \/ "hydrated" \in u \/ IsToDo(w, "released") => d
  <2>1. q.version # Nothing => s.phase.version # Nothing
    BY <1>8
  <2>2. "hydrated" \in u => d
    BY <1>1, <1>2 DEF Tracked
  <2>3. IsToDo(w, "released") => s.phase.version # Nothing
    BY <1>8
  <2> QED BY <1>11, <2>1, <2>2, <2>3
<1>16. u \cap Tracks # {} \/ IsToDo(w, "released") => q.status = "untracked"
  <2>1. frees => q.status = "untracked"
    BY DEF Untracked
  <2> QED BY <1>12, <2>1
<1>17. IsToDo(w, "released") => u \cap Tracks = {}
  BY <1>12
<1>18. ASSUME <<"persist", "since">> \in w PROVE s.write = "since" /\ s.write # "none"
  <2> DEFINE x == <<"persist", "since">>
  <2>1. x \in w /\ x[1] = "persist" /\ x[2] = "since"
    BY <1>18
  <2>2. x = <<"persist", s.write>> /\ s.write # "none"
    BY <2>1
  <2>3. x[2] = s.write
    BY <2>2
  <2> HIDE DEF x
  <2> QED BY <2>1, <2>2, <2>3
<1>19. (q.status # "untracked" /\ q.version = Nothing) \/ "register" \in u => Unwritten(w, c)
  <2>1. ASSUME "register" \in u PROVE Unwritten(w, c)
    <3>1. u \cap Tracks # {} /\ Unwritten(none, c)
      BY <1>1, <1>2, <2>1 DEF Tracked, Tracks
    <3>2. <<"persist", "since">> \notin w
      BY <1>12, <1>18, <3>1
    <3> QED BY <1>3, <3>1, <3>2 DEF Unwritten
  <2>2. ASSUME q.status # "untracked", q.version = Nothing PROVE Unwritten(w, c)
    <3>1. q = s.phase /\ type # "destroy" /\ s.phase.status # "untracked" /\ s.phase.version = Nothing
      BY <1>9, <1>13, <2>2
    <3>2. "held" # Nothing
      BY VersionAssumption
    <3>3. s.write # "since" /\ Unwritten(none, c)
      <4>1. CASE type = "hydrated"
        BY <1>4, <3>1, <3>2, <4>1 DEF Keeps
      <4>2. CASE type = "register"
        <5>1. Keeps(s, Nothing)
          BY <1>4, <1>5, <4>2 DEF Tracks
        <5>2. Unwritten(none, c)
          BY <1>1, <1>2, <4>2 DEF Tracked
        <5> QED BY <5>1, <5>2 DEF Keeps
      <4>3. CASE type \notin Tracks \cup {"destroy"}
        <5>1. p.status # "untracked"
          BY <1>4, <3>1, <4>3
        <5>2. Keeps(s, p.version)
          BY <1>4, <3>1, <3>2, <4>3, <5>1 DEF Keeps
        <5>3. p.version = Nothing /\ s.write # "since"
          BY <3>1, <5>2 DEF Keeps
        <5> QED BY <1>2, <5>1, <5>3 DEF Tracked
      <4> QED BY <1>6, <1>7, <3>1, <4>1, <4>2, <4>3
    <3>4. <<"persist", "since">> \notin w
      BY <1>18, <3>3
    <3> QED BY <1>3, <3>3, <3>4 DEF Unwritten
  <2> QED BY <2>1, <2>2
<1>20. Tracked(u, w, q, c, d)
  BY <1>10, <1>14, <1>15, <1>16, <1>17, <1>19 DEF Tracked
<1>21. Reading(e, u, w, q, c)
  <2> SUFFICES ASSUME NEW i \in DOMAIN c, c[i].kind \in {"currentMeta", "loadAll"}, e.phase = "loading", e.gen = c[i].gen
               PROVE  /\ q.status = "untracked" /\ u \cap (Tracks \cup {"destroy"}) = {}
                      /\ ~IsToDo(w, "persist") /\ ~IsToDo(w, "delete")
                      /\ \A k \in (i + 1) .. Len(c) : c[k].kind \notin {"since", "delete"}
    BY DEF Reading
  <2>1. /\ p.status = "untracked" /\ t \cap (Tracks \cup {"destroy"}) = {}
        /\ \A k \in (i + 1) .. Len(c) : c[k].kind \notin {"since", "delete"}
    BY <1>2 DEF Reading
  <2>2. type \notin Tracks \cup {"destroy"} /\ u \cap (Tracks \cup {"destroy"}) = {}
    BY <1>1, <2>1
  <2>3. s.phase = p /\ s.write = "none"
    BY <1>4, <2>1, <2>2
  <2>4. q.status = "untracked"
    BY <1>9, <2>1, <2>3
  <2>5. ~IsToDo(w, "persist") /\ ~IsToDo(w, "delete")
    BY <2>2, <2>3 DEF IsToDo
  <2> QED BY <2>1, <2>2, <2>4, <2>5
<1>22. Entered(e, u, w, q, c, d, open)
  <2>1. "destroy" \in u \/ ~Undeleted(w, c) => "destroy" \in t \/ ~Undeleted(none, c)
    BY <1>1, <1>3 DEF Undeleted
  <2>2. ASSUME e.phase \notin {"ready", "storing"} PROVE (q.status = "untracked" /\ u \cap Tracks = {}) \/ "destroy" \in u
    <3>1. (p.status = "untracked" /\ t \cap Tracks = {}) \/ "destroy" \in t
      BY <1>2, <2>2 DEF Entered
    <3>2. CASE type = "destroy"
      <4>1. s.phase.status = "untracked" /\ u \cap Tracks = {}
        BY <1>4, <3>2
      <4> QED BY <1>9, <4>1
    <3>3. CASE type # "destroy" /\ "destroy" \in t
      BY <1>1, <3>3
    <3>4. CASE type # "destroy" /\ p.status = "untracked" /\ t \cap Tracks = {}
      <4>1. type \notin Tracks \cup {"destroy"} /\ u \cap Tracks = {}
        BY <1>1, <3>4
      <4>2. s.phase = p
        BY <1>4, <3>4, <4>1
      <4> QED BY <1>9, <3>4, <4>1, <4>2
    <3> QED BY <3>1, <3>2, <3>3, <3>4
  <2> QED BY <1>2, <2>1, <2>2 DEF Entered
<1> QED BY <1>20, <1>21, <1>22 DEF Facts

\* The todo that a step of the store program leaves.
StoreTodo(s, type, gen, frees) ==
  When(s.persisted # Nothing, <<Named("persisted", 0)>>)
    \o When(s.write # "none", <<Effect("persist", 0, s.write, FALSE, 0)>>)
    \o When(s.retry, <<Named("retry", 0)>>)
    \o When(type = "destroy", <<Named("delete", 0)>>)
    \o When(frees, <<Named("released", gen)>>)

LEMMA TodoLeft ==
  ASSUME m \in Models, NEW type, NEW gen \in 0 .. (m.nextGen - 1), NEW s \in StoreSteps, NEW frees,
         NEW todo, todo = StoreTodo(s, type, gen, frees)
  PROVE  /\ todo \in Seq(StoreEffects(m))
         /\ \A k \in DOMAIN todo :
              /\ todo[k].do = "persist" => todo[k].arg = s.write /\ s.write # "none"
              /\ todo[k].do = "delete" => type = "destroy"
              /\ todo[k].do = "released" => frees /\ k = Len(todo)
<1> DEFINE A == {x \in StoreEffects(m) : /\ x.do = "persist" => x.arg = s.write /\ s.write # "none"
                                         /\ x.do = "delete" => type = "destroy"
                                         /\ x.do # "released"}
           w == Effect("persist", 0, s.write, FALSE, 0)
           z == Named("released", gen)
           a == When(s.persisted # Nothing, <<Named("persisted", 0)>>)
           b == When(s.write # "none", <<w>>)
           c == When(s.retry, <<Named("retry", 0)>>)
           e == When(type = "destroy", <<Named("delete", 0)>>)
           f == When(frees, <<z>>)
           ab == a \o b
           abc == ab \o c
           abce == abc \o e
<1>1. s.write \in WriteKinds
  BY DEF StoreSteps
<1>2. s.write # "none" => w \in A
  <2>1. s.write # "none" => w \in StoreEffects(m)
    BY <1>1, StoreEffectIn DEF WriteKinds
  <2>2. w.do = "persist" /\ w.arg = s.write
    BY DEF Effect
  <2> HIDE DEF w
  <2> QED BY <2>1, <2>2
<1>3. Named("persisted", 0) \in A /\ Named("retry", 0) \in A
  BY StoreEffectIn
<1>4. type = "destroy" => Named("delete", 0) \in A
  BY StoreEffectIn
<1>5. z \in StoreEffects(m) /\ z.do = "released"
  BY StoreEffectIn DEF Named, Effect
<1>6. todo = abce \o f
  BY DEF StoreTodo
<1>7. \A x \in A : /\ x \in StoreEffects(m)
                   /\ x.do = "persist" => x.arg = s.write /\ s.write # "none"
                   /\ x.do = "delete" => type = "destroy"
                   /\ x.do # "released"
  OBVIOUS
<1> HIDE DEF A, w, z
<1>8. a \in Seq(A)
  BY <1>3, WhenIn
<1>9. b \in Seq(A)
  BY <1>2, WhenIn
<1>10. c \in Seq(A)
  BY <1>3, WhenIn
<1>11. e \in Seq(A)
  BY <1>4, WhenIn
<1> HIDE DEF a, b, c, e
<1>12. ab \in Seq(A)
  BY <1>8, <1>9, BothIn
<1> HIDE DEF ab
<1>14. abc \in Seq(A)
  BY <1>10, <1>12, BothIn
<1> HIDE DEF abc
<1>15. abce \in Seq(A)
  BY <1>11, <1>14, BothIn
<1> HIDE DEF abce
<1>16. CASE frees
  <2> DEFINE S == A \cup {z}
  <2>1. todo = abce \o <<z>> /\ z \in S /\ abce \in Seq(S)
    <3>1. f = <<z>>
      BY <1>16 DEF When
    <3> QED BY <1>6, <1>15, <3>1, SeqLarger
  <2> HIDE DEF S
  <2>2. /\ todo \in Seq(S) /\ Len(abce) \in Nat /\ Len(todo) = Len(abce) + 1 /\ DOMAIN todo = 1 .. (Len(abce) + 1)
        /\ todo[Len(abce) + 1] = z /\ \A i \in 1 .. Len(abce) : todo[i] = abce[i]
    BY <2>1, Lasts
  <2>3. \A k \in DOMAIN abce : abce[k] \in A
    BY <1>15, SeqFacts
  <2>4. \A k \in 1 .. Len(abce) : todo[k] \in A
    BY <1>15, <2>2, <2>3, LenProperties
  <2>5. \A k \in DOMAIN todo : todo[k] \in A \/ (k = Len(todo) /\ todo[k] = z)
    <3> DEFINE l == Len(abce)
    <3>1. l \in Nat /\ Len(todo) = l + 1 /\ DOMAIN todo = 1 .. (l + 1) /\ todo[l + 1] = z /\ \A k \in 1 .. l : todo[k] \in A
      BY <2>2, <2>4
    <3> HIDE DEF l
    <3>2. \A k \in 1 .. (l + 1) : k \in 1 .. l \/ k = l + 1
      BY <3>1
    <3> QED BY <3>1, <3>2
  <2>6. S \subseteq StoreEffects(m)
    BY <1>5, <1>7 DEF S
  <2>7. todo \in Seq(StoreEffects(m))
    <3>1. todo \in Seq(S) /\ S \subseteq StoreEffects(m)
      BY <2>2, <2>6
    <3> QED BY <3>1, SeqLarger
  <2>8. \A k \in DOMAIN todo :
          /\ todo[k].do = "persist" => todo[k].arg = s.write /\ s.write # "none"
          /\ todo[k].do = "delete" => type = "destroy"
          /\ todo[k].do = "released" => frees /\ k = Len(todo)
    <3> SUFFICES ASSUME NEW k \in DOMAIN todo
                 PROVE  /\ todo[k].do = "persist" => todo[k].arg = s.write /\ s.write # "none"
                        /\ todo[k].do = "delete" => type = "destroy"
                        /\ todo[k].do = "released" => frees /\ k = Len(todo)
      OBVIOUS
    <3>1. CASE todo[k] \in A
      BY <1>7, <3>1
    <3>2. CASE k = Len(todo) /\ todo[k] = z
      BY <1>5, <1>16, <3>2
    <3> QED BY <2>5, <3>1, <3>2
  <2> QED BY <2>7, <2>8
<1>17. CASE ~frees
  <2>1. todo = abce
    <3>1. f = <<>>
      BY <1>17 DEF When
    <3> QED BY <1>6, <1>15, <3>1, ConcatEmptySeq
  <2>2. \A k \in DOMAIN todo : todo[k] \in A
    BY <1>15, <2>1, SeqFacts
  <2>3. todo \in Seq(StoreEffects(m))
    <3>1. todo \in Seq(A) /\ A \subseteq StoreEffects(m)
      BY <1>7, <1>15, <2>1
    <3> QED BY <3>1, SeqLarger
  <2>4. \A k \in DOMAIN todo :
          /\ todo[k].do = "persist" => todo[k].arg = s.write /\ s.write # "none"
          /\ todo[k].do = "delete" => type = "destroy"
          /\ todo[k].do # "released"
    BY <1>7, <2>2
  <2> QED BY <2>3, <2>4
<1> QED BY <1>16, <1>17

LEMMA NoReport ==
  ASSUME NEW n \in Models, NEW s \in Seq(Frames(n)) PROVE "write-succeeded" \notin ToldBy(s)
<1>1. ASSUME NEW f \in Frames(n), NEW k \in DOMAIN f.todo, f.kind = "step" PROVE f.todo[k].arg # "write-succeeded"
  <2>1. f.todo \in Todo(n)
    BY <1>1, FrameFacts
  <2>2. f.todo # <<>>
    <3>1. DOMAIN f.todo # {}
      BY <1>1
    <3> QED BY <3>1
  <2> DEFINE todo == f.todo
  <2>3. todo \in Seq(Effects(n))
    BY <2>1, <2>2, TodoFacts
  <2> HIDE DEF todo
  <2>4. \A j \in DOMAIN todo : todo[j] \in Effects(n)
    BY <2>3, SeqFacts
  <2>5. \A x \in Effects(n) : x.arg # "write-succeeded"
    BY DEF Effects, Args
  <2> QED BY <1>1, <2>4, <2>5 DEF todo
<1>2. \A f \in Frames(n) : "write-succeeded" \notin Told(f)
  BY <1>1 DEF Told
<1>3. \A j \in DOMAIN s : s[j] \in Frames(n)
  BY SeqFacts
<1> QED BY <1>2, <1>3 DEF ToldBy

LEMMA TransitionStays ==
  ASSUME LifecycleInv, CallsTyped, BeliefHolds, ClosedOnce, StoreTransition PROVE CallsTyped' /\ BeliefHolds'
<1> DEFINE input == Head(storeQ)
           s == ProgramStep(input)
           gen == ReleasingAfter(input)
           frees == gen # 0 /\ StoredEntirely(s.phase)
           a == When(s.persisted # Nothing, <<Named("persisted", 0)>>)
           p == When(s.write # "none", <<Effect("persist", 0, s.write, FALSE, 0)>>)
           c == When(s.retry, <<Named("retry", 0)>>)
           e == When(input.type = "destroy", <<Named("delete", 0)>>)
           f == When(frees, <<Named("released", gen)>>)
           todo == (((a \o p) \o c) \o e) \o f
           q2 == Tail(storeQ)
           h == [Top EXCEPT !.todo = todo]
           b == Tail(stack)
           top == Top
           type == input.type
<1>1. /\ OnTop("store") /\ Top.todo = <<>> /\ storeQ # <<>>
      /\ (frees => store' = Untracked) /\ (~frees => store' = s.phase)
      /\ stack' = <<h>> \o b /\ storeQ' = q2 /\ UNCHANGED <<m, calls, disk, over>>
  BY DEF StoreTransition, runtime
<1>2. stack # <<>> /\ top.kind = "store" /\ top.todo = <<>>
  BY <1>1 DEF OnTop
<1>3. ~over
  BY <1>2, NotClosed
<1>4. /\ m \in Models /\ top \in Frames(m) /\ b \in Seq(Frames(m)) /\ m.hasStore
      /\ ToldBy(stack) = Told(top) \cup ToldBy(b) /\ Work(stack) = Tasks(top) \cup Work(b)
      /\ Settled(b) /\ InOrder(storeQ) /\ ~Busy("store", b)
  BY <1>2, Now
<1>5. StoreTyped /\ store \in StorePhase /\ storeQ \in Seq(StoreInputs(m)) /\ Facts(ToldBy(stack) \cup Types(storeQ), Work(stack), m.entry, store, calls, disk, over)
  BY <1>4, Queued DEF LifecycleInv, StoreTyped, StoreState
<1>6. /\ input \in StoreInputs(m) /\ q2 \in Seq(StoreInputs(m)) /\ Types(storeQ) = Types(q2) \cup {type} /\ InOrder(q2)
      /\ "write-succeeded" \notin Types(q2) /\ (type \in Tracks \cup {"destroy"} => Types(q2) \cap Tracks = {})
  BY <1>1, <1>4, <1>5, Popping, TypesTaken
<1>7. Told(top) = {} /\ Tasks(top) = {} /\ Work(b) = {}
  <2>1. DOMAIN top.todo = {}
    BY <1>2
  <2>2. \A j \in DOMAIN b : b[j].kind # "store"
    BY <1>4 DEF Busy
  <2>3. \A j \in DOMAIN b : Tasks(b[j]) = {}
    BY <2>2 DEF Tasks
  <2> QED BY <1>2, <2>1, <2>3 DEF Told, Tasks, Work
<1> HIDE DEF input, q2, type
<1>8. /\ Answered(store, input.type, gen, s) /\ s \in StoreSteps /\ gen \in 0 .. (m.nextGen - 1)
  BY <1>4, <1>5, <1>6, ProgramAnswers, ProgramTyped
<1>9. s.phase \in StorePhase
  BY <1>8 DEF StoreSteps
<1> HIDE DEF s, gen
<1>10. frees => gen # 0 /\ StoredEntirely(s.phase)
  OBVIOUS
<1> HIDE DEF frees
<1>11. /\ todo \in Seq(StoreEffects(m))
       /\ \A k \in DOMAIN todo :
            /\ todo[k].do = "persist" => todo[k].arg = s.write /\ s.write # "none"
            /\ todo[k].do = "delete" => type = "destroy"
            /\ todo[k].do = "released" => frees /\ k = Len(todo)
  <2>1. todo = StoreTodo(s, type, gen, frees) /\ m \in Models /\ s \in StoreSteps /\ gen \in 0 .. (m.nextGen - 1)
    BY <1>4, <1>8 DEF StoreTodo, type
  <2> HIDE DEF a, p, c, e, f, todo
  <2> QED BY <2>1, TodoLeft
<1> HIDE DEF a, p, c, e, f, todo, top, b
<1>12. h \in Frames(m) /\ h.kind = "store" /\ h.todo = todo
  <2>1. top \in Frames(m) /\ m \in Models /\ top.kind = "store"
    BY <1>2, <1>4
  <2> QED BY <1>11, <2>1, StoreWith DEF top
<1> HIDE DEF h
<1>13. Told(h) = {} /\ Prompt(h) /\ Tasks(h) = {<<todo[k].do, todo[k].arg>> : k \in DOMAIN todo}
  <2>1. Prompt(h)
    BY <1>11, <1>12 DEF Prompt
  <2> QED BY <1>12, <2>1 DEF Told, Tasks
<1>14. stack' \in Seq(Frames(m)) /\ IsOn(stack', h, b)
  <2>1. <<h>> \o b \in Seq(Frames(m)) /\ IsOn(<<h>> \o b, h, b)
    BY <1>4, <1>12, PushOn
  <2> QED BY <2>1, <1>1, Zenon
<1>15. ToldBy(stack') = ToldBy(b) /\ Work(stack') = Tasks(h)
  <2>1. ToldBy(stack') = Told(h) \cup ToldBy(b) /\ Work(stack') = Tasks(h) \cup Work(b)
    BY <1>14, ViewOn
  <2> QED BY <1>7, <1>13, <2>1
<1>16. Ordered(stack', storeQ')
  <2>1. Settled(stack')
    BY <1>4, <1>12, <1>13, <1>14, SettledOn
  <2> QED BY <1>1, <1>6, <2>1, SettledOrdered
<1> DEFINE u == ToldBy(b) \cup Types(q2)
           none == {}
           w == Tasks(h)
<1>17. ToldBy(stack) \cup Types(storeQ) = u \cup {type} /\ Work(stack) = none
  BY <1>4, <1>6, <1>7
<1> HIDE DEF u, none
<1>18. \A x \in w : x[1] = "persist" => x = <<"persist", s.write>> /\ s.write # "none"
  <2> SUFFICES ASSUME NEW k \in DOMAIN todo, NEW x, x = <<todo[k].do, todo[k].arg>>, x[1] = "persist"
               PROVE  x = <<"persist", s.write>> /\ s.write # "none"
    BY <1>13
  <2>1. todo[k].do = "persist"
    OBVIOUS
  <2>2. todo[k].arg = s.write /\ s.write # "none"
    BY <1>11, <2>1
  <2> QED BY <2>1, <2>2
<1>19. (IsToDo(w, "delete") => type = "destroy") /\ (IsToDo(w, "released") => frees)
  <2>1. \A do : IsToDo(w, do) => \E k \in DOMAIN todo : todo[k].do = do
    BY <1>13 DEF IsToDo
  <2> QED BY <1>11, <2>1
<1> HIDE DEF w
<1>20. (type \in Tracks \cup {"destroy"} => u \cap Tracks = {}) /\ "write-succeeded" \notin u
  <2>1. "write-succeeded" \notin ToldBy(b)
    BY <1>4, NoReport
  <2>2. ToldBy(b) \cap Tracks = {}
    <3>1. \A j \in DOMAIN b : Told(b[j]) \cap Tracks = {}
      BY <1>4 DEF Settled
    <3> QED BY <3>1 DEF ToldBy
  <2> QED BY <1>6, <2>1, <2>2 DEF u
<1>21. Facts(u \cup {type}, none, m.entry, store, calls, disk, over) /\ none = {}
  BY <1>5, <1>17 DEF none
<1>22. Answered(store, type, gen, s)
  BY <1>8 DEF type
<1>23. Facts(u, w, m.entry, store', calls, disk, over)
  <2> DEFINE q == store'
             x == m.entry
  <2>1. /\ store \in StorePhase /\ Answered(store, type, gen, s) /\ s.phase \in StorePhase
        /\ (frees => gen # 0 /\ StoredEntirely(s.phase)) /\ (frees => q = Untracked) /\ (~frees => q = s.phase)
        /\ none = {} /\ ~over /\ Facts(u \cup {type}, none, x, store, calls, disk, over)
        /\ (type \in Tracks \cup {"destroy"} => u \cap Tracks = {}) /\ "write-succeeded" \notin u
        /\ (IsToDo(w, "delete") => type = "destroy") /\ (IsToDo(w, "released") => frees)
    BY <1>1, <1>3, <1>5, <1>9, <1>10, <1>19, <1>20, <1>21, <1>22
  <2> HIDE DEF q, x
  <2>2. Facts(u, w, x, q, calls, disk, over)
    BY <1>18, <2>1, FactsAnswered
  <2> QED BY <2>2 DEF q, x
<1>24. Belief(stack', storeQ', m.entry, store', calls, disk, over)
  BY <1>1, <1>15, <1>16, <1>23 DEF Belief, u, w
<1> QED BY <1>1, <1>4, <1>24 DEF BeliefHolds, CallsTyped

-----------------------------------------------------------------------------
(* A write and a delete that end.                                          *)

\* The write that ended: it was a register, or it started from a version the store had.
LEMMA FactsWritten ==
  ASSUME NEW S, NEW c \in Seq(S), c # <<>>, NEW e, NEW p, NEW d, NEW closed, NEW none, none = {}, Facts(none, none, e, p, c, d, closed),
         NEW d2, d => d2, Head(c).kind = "since" \/ d2
  PROVE  Facts({"write-succeeded"}, none, e, p, Tail(c), d2, closed) /\ Facts(none, none, e, p, Tail(c), d2, closed)
<1> DEFINE b == Tail(c)
           t == {"write-succeeded"}
<1>1. Facts(none, none, e, p, b, d, closed)
  BY FactsTaken
<1>2. Head(c) = c[1] /\ 1 \in DOMAIN c
  BY Popping
<1> HIDE DEF b
<1>3. \A x \in Tracks \cup {"destroy"} : x \notin t
  BY DEF Tracks
<1>4. t \cap Tracks = {} /\ t \cap (Tracks \cup {"destroy"}) = {} /\ "hydrated" \notin t /\ "register" \notin t /\ "destroy" \notin t
  BY <1>3 DEF Tracks
<1> HIDE DEF t
<1>5. (\A do : ~IsToDo(none, do)) /\ none \cap Tracks = {}
  BY DEF IsToDo
<1>6. p.status = "writing" => d2
  <2> SUFFICES ASSUME p.status = "writing", Head(c).kind = "since" PROVE d2
    OBVIOUS
  <2>1. ~Unwritten(none, c)
    BY <1>2 DEF Unwritten
  <2>2. p.version # Nothing
    BY <2>1 DEF Facts, Tracked
  <2> QED BY <2>2 DEF Facts, Tracked
<1>7. Tracked(t, none, p, b, d2) /\ Tracked(none, none, p, b, d2)
  BY <1>1, <1>4, <1>5, <1>6 DEF Facts, Tracked
<1>8. Reading(e, t, none, p, b) /\ Reading(e, none, none, p, b)
  BY <1>1, <1>4, <1>5 DEF Facts, Reading
<1>9. Entered(e, t, none, p, b, d2, closed) /\ Entered(e, none, none, p, b, d2, closed)
  BY <1>1, <1>4, <1>5 DEF Facts, Entered
<1> QED BY <1>7, <1>8, <1>9 DEF Facts, b, t

LEMMA WriteEndsStays ==
  ASSUME LifecycleInv, CallsTyped, BeliefHolds, WriteEnds PROVE CallsTyped' /\ BeliefHolds'
<1> DEFINE input == StoreInput("write-succeeded", 0)
           c == Tail(calls)
           none == {}
<1>1. /\ stack = <<>> /\ calls # <<>> /\ Head(calls).kind \in {"register", "since"} /\ calls' = c
      /\ disk' = (disk \/ Head(calls).kind = "register" \/ Head(calls).carries)
      /\ ToStoreProgram(input, stack) /\ UNCHANGED <<m, store, over>>
  BY DEF WriteEnds, CallEnds, Writes, runtime
<1>2. /\ m \in Models /\ m.hasStore \in BOOLEAN /\ storeQ \in Seq(StoreInputs(m)) /\ storeQ = <<>>
      /\ (~m.hasStore => Storeless(stack, m.entry, store, calls)) /\ calls \in Seq(Calls(m))
  BY <1>1, Queued, Resting DEF CallsTyped
<1>3. calls' \in Seq(Calls(m)) /\ CallsTyped'
  BY <1>1, <1>2, Popping DEF CallsTyped
<1>4. (disk => disk') /\ (Head(calls).kind = "since" \/ disk')
  BY <1>1
<1>5. CASE m.hasStore
  <2>1. Facts(none, none, m.entry, store, calls, disk, over) /\ none = {}
    BY <1>1, <1>5, Resting
  <2>2. ToldBy(stack) = {} /\ Work(stack) = {} /\ Types(storeQ) = {} /\ Settled(stack) /\ InOrder(storeQ) /\ stack \in Seq(Frames(m))
    BY <1>1, <1>2, ViewNone DEF LifecycleInv, StackSound, Stacked
  <2> DEFINE e == m.entry
             d2 == disk'
  <2>3. Facts({"write-succeeded"}, none, e, store, c, d2, over) /\ Facts(none, none, e, store, c, d2, over)
    <3>1. Facts(none, none, e, store, calls, disk, over) /\ none = {} /\ (disk => d2) /\ (Head(calls).kind = "since" \/ d2)
      BY <1>4, <2>1
    <3> HIDE DEF none, e, d2
    <3> QED BY <1>1, <1>2, <3>1, FactsWritten
  <2> HIDE DEF c, e, d2
  <2>4. CASE over
    <3>1. storeQ' = storeQ /\ stack' = stack
      BY <1>1, <2>4 DEF ToStoreProgram
    <3>2. Ordered(stack', storeQ')
      BY <2>2, <3>1, SettledOrdered
    <3>3. ToldBy(stack') \cup Types(storeQ') = none /\ Work(stack') = none
      BY <2>2, <3>1
    <3>4. Belief(stack', storeQ', e, store, c, d2, over)
      BY <2>3, <3>2, <3>3 DEF Belief
    <3> QED BY <1>1, <1>3, <1>5, <3>4 DEF BeliefHolds, e, d2
  <2>5. CASE ~over
    <3>1. input \in StoreInputs(m) /\ input.type = "write-succeeded"
      <4>1. 0 \in 0 .. (m.nextGen - 1)
        BY <1>2, ModelFacts
      <4> QED BY <1>2, <4>1, InputTyped
    <3>2. "write-succeeded" \notin Tracks
      BY DEF Tracks
    <3> HIDE DEF input
    <3>3. /\ Ordered(stack', storeQ') /\ ToldBy(stack') = ToldBy(stack) /\ Work(stack') = Work(stack)
          /\ Types(storeQ') = Types(storeQ) \cup {"write-succeeded"}
      BY <1>1, <1>2, <1>5, <2>2, <2>5, <3>1, <3>2, SentOn
    <3>4. ToldBy(stack') \cup Types(storeQ') = {"write-succeeded"} /\ Work(stack') = none
      BY <2>2, <3>3
    <3>5. Belief(stack', storeQ', e, store, c, d2, over)
      BY <2>3, <3>3, <3>4 DEF Belief
    <3> QED BY <1>1, <1>3, <1>5, <3>5 DEF BeliefHolds, e, d2
  <2> QED BY <2>4, <2>5
<1>6. CASE ~m.hasStore
  <2>1. stack' = stack /\ Storeless(stack, m.entry, store, calls)
    BY <1>1, <1>2, <1>6 DEF ToStoreProgram
  <2>2. Storeless(stack', m.entry, store, c)
    BY <1>1, <1>2, <2>1, NoDelete DEF Storeless
  <2> QED BY <1>1, <1>3, <1>6, <2>2 DEF BeliefHolds
<1> QED BY <1>2, <1>5, <1>6

\* The delete that ended: nothing was tracked.
LEMMA FactsDeleted ==
  ASSUME NEW S, NEW c \in Seq(S), c # <<>>, NEW e, NEW p, NEW d, NEW closed, NEW none, none = {}, Facts(none, none, e, p, c, d, closed),
         Head(c).kind = "delete", NEW d2
  PROVE  Facts(none, none, e, p, Tail(c), d2, closed)
<1> DEFINE b == Tail(c)
<1>1. Facts(none, none, e, p, b, d, closed)
  BY FactsTaken
<1>2. Head(c) = c[1] /\ 1 \in DOMAIN c
  BY Popping
<1> HIDE DEF b
<1>3. ~Undeleted(none, c) /\ (\A do : ~IsToDo(none, do)) /\ "hydrated" \notin none /\ "write-succeeded" \notin none
  BY <1>2 DEF IsToDo, Undeleted
<1>4. p.status = "untracked" /\ p.version = Nothing
  BY <1>3 DEF Facts, Tracked
<1>5. e.phase \in {"absent", "deferred", "loading", "failed"}
  BY <1>3 DEF Facts, Entered
<1>6. Tracked(none, none, p, b, d2)
  BY <1>1, <1>3, <1>4 DEF Facts, Tracked
<1>7. Reading(e, none, none, p, b)
  BY <1>1 DEF Facts
<1>8. Entered(e, none, none, p, b, d2, closed)
  BY <1>1, <1>5 DEF Facts, Entered
<1> QED BY <1>6, <1>7, <1>8 DEF Facts, b

LEMMA DeleteEndsStays ==
  ASSUME LifecycleInv, CallsTyped, BeliefHolds, DeleteEnds PROVE CallsTyped' /\ BeliefHolds'
<1> DEFINE c == Tail(calls)
           none == {}
           e == m.entry
           d2 == disk'
<1>1. stack = <<>> /\ calls # <<>> /\ Head(calls).kind = "delete" /\ calls' = c /\ UNCHANGED <<m, stack, storeQ, store, over>>
  BY DEF DeleteEnds, CallEnds, runtime, queues
<1>2. /\ m \in Models /\ m.hasStore \in BOOLEAN /\ (~m.hasStore => Storeless(stack, m.entry, store, calls)) /\ calls \in Seq(Calls(m))
  BY <1>1, Queued DEF CallsTyped
<1>3. calls' \in Seq(Calls(m)) /\ CallsTyped'
  BY <1>1, <1>2, Popping DEF CallsTyped
<1>4. CASE m.hasStore
  <2>1. /\ Facts(none, none, e, store, calls, disk, over) /\ none = {}
        /\ ToldBy(stack) \cup Types(storeQ) = none /\ Work(stack) = none
    BY <1>1, <1>4, Resting
  <2>2. Ordered(stack, storeQ)
    BY <1>4 DEF BeliefHolds, Belief
  <2> HIDE DEF none, e, d2
  <2>3. Facts(none, none, e, store, c, d2, over)
    BY <1>1, <1>2, <2>1, FactsDeleted
  <2> HIDE DEF c
  <2>4. Belief(stack, storeQ, e, store, c, d2, over)
    BY <2>1, <2>2, <2>3 DEF Belief
  <2> QED BY <1>1, <1>3, <1>4, <2>4 DEF BeliefHolds, e, d2
<1>5. CASE ~m.hasStore
  <2>1. Storeless(stack, m.entry, store, c)
    BY <1>1, <1>2, <1>5, NoDelete DEF Storeless
  <2> QED BY <1>1, <1>3, <1>5, <2>1 DEF BeliefHolds
<1> QED BY <1>2, <1>4, <1>5

-----------------------------------------------------------------------------
(* After a reset.                                                          *)

Shut(f) == f.kind \in {"step", "app"} /\ \A k \in DOMAIN f.todo : f.todo[k].do \in {"close", "dispose"}

LEMMA ClosingOn ==
  ASSUME NEW s, NEW f, NEW b, IsOn(s, f, b) PROVE Closing(s) <=> Shut(f) /\ Closing(b)
<1>1. /\ 1 \in DOMAIN s /\ s[1] = f
      /\ \A j \in DOMAIN b : j + 1 \in DOMAIN s /\ s[j + 1] = b[j]
      /\ \A j \in DOMAIN s : j = 1 \/ (j - 1 \in DOMAIN b /\ s[j] = b[j - 1])
  BY DEF IsOn
<1> QED BY <1>1 DEF Closing, Shut

LEMMA ClosingNone == Closing(<<>>)
<1> DEFINE none == <<>>
<1>1. DOMAIN none = {}
  OBVIOUS
<1> HIDE DEF none
<1> QED BY <1>1 DEF Closing, none

\* A frame without a todo, of a step or of the application, leaves nothing to run.
LEMMA ShutNone ==
  ASSUME NEW f, f.kind \in {"step", "app"}, f.todo = <<>> PROVE Shut(f)
<1>1. DOMAIN f.todo = {}
  OBVIOUS
<1> QED BY <1>1 DEF Shut

LEMMA ClosingCall ==
  ASSUME NEW n \in Models, NEW b \in Seq(Frames(n)), Closing(b), NEW place, NEW tier PROVE Closing(CallBack(place, tier, b))
<1> DEFINE f == Frame("app", <<>>, Absent)
           s == <<f>> \o b
<1>1. f \in Frames(n) /\ Shut(f)
  <2>1. f = [kind |-> "app", todo |-> <<>>, before |-> Absent]
    BY DEF Frame
  <2>2. f.kind = "app" /\ f.todo = <<>>
    BY <2>1
  <2> HIDE DEF f
  <2> QED BY <2>1, <2>2, ShutNone, BaseEntries DEF Frames
<1>2. CallBack(place, tier, b) \in {s, b}
  BY DEF CallBack
<1> HIDE DEF f
<1>3. IsOn(s, f, b)
  BY <1>1, PushOn
<1> HIDE DEF s
<1>4. Closing(s)
  BY <1>1, <1>3, ClosingOn
<1> QED BY <1>2, <1>4

\* The stack of now, with the innermost frame ended or its next effect taken.
LEMMA ClosingLeft ==
  ASSUME LifecycleInv, Closing(stack), stack # <<>>
  PROVE  /\ Tail(stack) \in Seq(Frames(m)) /\ Closing(Tail(stack)) /\ m \in Models
         /\ Top.kind = "step" /\ Top.todo # <<>> => Rest \in Seq(Frames(m)) /\ Closing(Rest)
<1> DEFINE f == Top
           b == Tail(stack)
<1>1. stack \in Seq(Frames(m)) /\ m \in Models
  BY DEF LifecycleInv, StackSound, Stacked
<1>2. IsOn(stack, f, b) /\ f \in Frames(m) /\ b \in Seq(Frames(m))
  BY <1>1, PopOn DEF Top
<1>3. Rest = <<[f EXCEPT !.todo = Tail(@)]>> \o b
  BY DEF Rest
<1> HIDE DEF f, b
<1>4. Shut(f) /\ Closing(b)
  BY <1>2, ClosingOn
<1>5. ASSUME f.kind = "step", f.todo # <<>> PROVE Rest \in Seq(Frames(m)) /\ Closing(Rest)
  <2> DEFINE todo == f.todo
             t == Tail(todo)
             h == [f EXCEPT !.todo = t]
             r == <<h>> \o b
  <2>1. todo \in Todo(m)
    BY <1>1, <1>2, <1>5, FrameFacts
  <2>2. t \in Todo(m) /\ todo \in Seq(Effects(m))
    BY <1>1, <1>5, <2>1, TodoFacts
  <2>3. /\ Len(todo) \in Nat /\ DOMAIN todo = 1 .. Len(todo) /\ DOMAIN t = 1 .. (Len(todo) - 1)
        /\ \A i \in 1 .. (Len(todo) - 1) : t[i] = todo[i + 1]
    BY <1>5, <2>2, Popping
  <2>4. r = Rest
    BY <1>3
  <2> HIDE DEF t
  <2>5. h \in Frames(m) /\ h.kind = "step" /\ h.todo = t
    BY <1>1, <1>2, <1>5, <2>2, StepWith
  <2>6. \A k \in DOMAIN todo : todo[k].do \in {"close", "dispose"}
    BY <1>4 DEF Shut
  <2> HIDE DEF h, todo
  <2>7. \A k \in DOMAIN t : k + 1 \in DOMAIN todo /\ t[k] = todo[k + 1]
    BY <2>3
  <2>8. Shut(h)
    BY <2>5, <2>6, <2>7 DEF Shut
  <2>9. r \in Seq(Frames(m)) /\ IsOn(r, h, b)
    BY <1>2, <2>5, PushOn
  <2> HIDE DEF r
  <2>10. Closing(r)
    BY <1>4, <2>8, <2>9, ClosingOn
  <2> QED BY <2>4, <2>9, <2>10
<1> QED BY <1>1, <1>2, <1>4, <1>5 DEF f, b

\* A completion that a closed document ignores.
LEMMA ClosingIdle ==
  ASSUME LifecycleInv, stack = <<>>, NEW s, s = Nothing2Do(m), Commit(s, stack) PROVE m' = m /\ Closing(stack')
<1> DEFINE f == Frame("step", s.effects, m.entry)
           b == stack
           r == <<f>> \o b
<1>1. s.m = m /\ s.effects = <<>> /\ ~s.refused /\ m \in Models
  BY DoesIs DEF Nothing2Do, LifecycleInv
<1>2. m' = m /\ stack' = r
  BY <1>1 DEF Commit
<1>3. f.kind = "step" /\ f.todo = <<>>
  BY <1>1 DEF Frame
<1>4. b \in Seq({f}) /\ Closing(b)
  BY ClosingNone, EmptySeq
<1> HIDE DEF f, b
<1>5. Shut(f) /\ f \in {f}
  BY <1>3, ShutNone
<1>6. IsOn(r, f, b)
  BY <1>4, <1>5, PushOn
<1> HIDE DEF r
<1>7. Closing(r)
  BY <1>4, <1>5, <1>6, ClosingOn
<1> QED BY <1>2, <1>7

\* Once all was closed nothing but the reset's own effects is run, and nothing is asked.
LEMMA ClosedStays ==
  ASSUME LifecycleInv, ClosedOnce, over, Next PROVE m' = m /\ Closing(stack')
<1>1. m.entry.phase = "absent" /\ Closing(stack)
  BY DEF ClosedOnce
<1>2. CASE SkipStale \/ ExecDispose \/ ExecClose
  <2>1. stack # <<>> /\ Top.kind = "step" /\ Top.todo # <<>> /\ m' = m
    BY <1>2 DEF SkipStale, ExecDispose, ExecClose, Doing, OnTop, runtime
  <2>2. stack' = Rest \/ \E place, tier : stack' = CallBack(place, tier, Rest)
    BY <1>2 DEF SkipStale, ExecDispose, ExecClose
  <2>3. Rest \in Seq(Frames(m)) /\ Closing(Rest) /\ m \in Models
    BY <1>1, <2>1, ClosingLeft
  <2> QED BY <2>1, <2>2, <2>3, ClosingCall
<1>3. CASE EndStep \/ AppReturns
  <2>1. stack # <<>> /\ m' = m
    BY <1>3 DEF EndStep, AppReturns, OnTop, runtime
  <2>2. stack' = Tail(stack) \/ \E place, tier : stack' = CallBack(place, tier, Tail(stack))
    BY <1>3 DEF EndStep, AppReturns
  <2>3. Tail(stack) \in Seq(Frames(m)) /\ Closing(Tail(stack)) /\ m \in Models
    BY <1>1, <2>1, ClosingLeft
  <2> QED BY <2>1, <2>2, <2>3, ClosingCall
<1>4. CASE DrainLocalChanges \/ RetryFires \/ WriteEnds \/ WriteFails \/ DeleteEnds
  <2>1. m' = m /\ stack' = stack
    BY <1>4 DEF DrainLocalChanges, Drained, RetryFires, WriteEnds, WriteFails, DeleteEnds, ToStoreProgram, runtime
  <2> QED BY <1>1, <2>1
<1>5. CASE ReadEnds \/ ReadFails
  <2>1. stack = <<>>
    BY <1>5 DEF ReadEnds, ReadFails, CallEnds
  <2>2. \A gen, outcome : Loaded(m, gen, outcome) = Nothing2Do(m) /\ LoadFailed(m, gen) = Nothing2Do(m)
    BY <1>1 DEF Loaded, LoadFailed
  <2>3. (m' = m /\ stack' = stack) \/ Commit(Nothing2Do(m), stack)
    BY <1>5, <2>2 DEF ReadEnds, ReadFails
  <2> QED BY <1>1, <2>1, <2>3, ClosingIdle
<1>6. CASE \/ ExecDrain \/ ExecLocal \/ ExecLoad \/ ExecStore \/ ExecRegister \/ ExecWire \/ ExecLeaving \/ ExecLeave
           \/ ExecNotifyLeave \/ ExecNotifyResume
  <2>1. stack # <<>> /\ Top.todo # <<>> /\ E.do \notin {"close", "dispose"}
    BY <1>6 DEF ExecDrain, ExecLocal, ExecLoad, ExecStore, ExecRegister, ExecWire, ExecLeaving, ExecLeave, ExecNotifyLeave,
                ExecNotifyResume, Doing, OnTop, E
  <2> QED BY <2>1, NotClosed
<1>7. CASE Routed \/ QueueTick \/ Tick \/ DocLeft \/ ReloadDoc \/ EnsureDoc \/ EndSync
  <2>1. stack # <<>> /\ Top.kind = "sync"
    BY <1>7 DEF Routed, QueueTick, Tick, DocLeft, ReloadDoc, EnsureDoc, EndSync, SyncFrame, SyncDoes, OnTop
  <2> QED BY <2>1, NotClosed
<1>8. CASE StoreTransition \/ Persist \/ Persisted \/ ArmRetry \/ Delete \/ Release \/ EndStore
  <2>1. stack # <<>> /\ Top.kind = "store"
    BY <1>8 DEF StoreTransition, Persist, Persisted, ArmRetry, Delete, Release, EndStore, StoreDoes, OnTop
  <2> QED BY <2>1, NotClosed
<1>9. CASE Asks
  BY <1>9 DEF Asks, DoGet, DoReplicate, DoDestroy, DoWrite, DoSuspend, DoResume, DoUnload, Ask, SetHooks, Reset, PeerAsks
<1> QED BY <1>2, <1>3, <1>4, <1>5, <1>6, <1>7, <1>8, <1>9 DEF Next, Runs, Answers

\* Only a reset closes all.
LEMMA OverStays == ASSUME Next PROVE over' = over \/ Reset
<1>1. CASE Runs
  <2>1. CASE \/ SkipStale \/ ExecDrain \/ DrainLocalChanges \/ ExecLocal \/ ExecLoad \/ ExecStore \/ ExecRegister \/ ExecWire
             \/ ExecLeaving \/ ExecLeave
    BY <2>1 DEF SkipStale, ExecDrain, DrainLocalChanges, ExecLocal, ExecLoad, ExecStore, ExecRegister, ExecWire, ExecLeaving,
                ExecLeave, runtime
  <2>2. CASE ExecClose \/ ExecDispose \/ ExecNotifyLeave \/ ExecNotifyResume \/ EndStep
    BY <2>2 DEF ExecClose, ExecDispose, ExecNotifyLeave, ExecNotifyResume, EndStep, runtime
  <2>3. CASE Routed \/ QueueTick \/ Tick \/ DocLeft \/ ReloadDoc \/ EnsureDoc \/ EndSync
    BY <2>3 DEF Routed, QueueTick, Tick, DocLeft, ReloadDoc, EnsureDoc, EndSync, runtime
  <2>4. CASE StoreTransition \/ Persist \/ Persisted \/ ArmRetry \/ Delete \/ Release \/ EndStore \/ AppReturns
    BY <2>4 DEF StoreTransition, Persist, Persisted, ArmRetry, Delete, Release, EndStore, AppReturns, runtime
  <2> QED BY <1>1, <2>1, <2>2, <2>3, <2>4 DEF Runs
<1>2. CASE Answers
  BY <1>2 DEF Answers, ReadEnds, ReadFails, WriteEnds, WriteFails, DeleteEnds, RetryFires, runtime
<1>3. CASE Asks
  BY <1>3 DEF Asks, DoGet, DoReplicate, DoDestroy, DoWrite, DoSuspend, DoResume, DoUnload, Ask, SetHooks, PeerAsks, runtime
<1> QED BY <1>1, <1>2, <1>3 DEF Next

LEMMA ResetCloses == ASSUME LifecycleInv, Reset PROVE m'.entry.phase = "absent" /\ Closing(stack')
<1> DEFINE s == CloseAll(m)
           f == Frame("step", s.effects, m.entry)
           b == stack
           r == <<f>> \o b
<1>1. stack = <<>> /\ Commit(s, stack) /\ m \in Models
  BY DEF Reset, LifecycleInv
<1>2. ~s.refused /\ s.m.entry.phase = "absent" /\ s.effects \in Seq(Endings)
  BY <1>1, CloseAllEnds
<1>3. m' = s.m /\ stack' = r
  BY <1>1, <1>2 DEF Commit
<1>4. f.kind = "step" /\ f.todo = s.effects
  BY DEF Frame
<1>5. b \in Seq({f}) /\ Closing(b)
  BY <1>1, ClosingNone, EmptySeq
<1> HIDE DEF f, b, s
<1>6. Shut(f) /\ f \in {f}
  <2>1. \A k \in DOMAIN s.effects : s.effects[k] \in Endings
    BY <1>2, SeqFacts
  <2> QED BY <1>4, <2>1 DEF Shut, Endings
<1>7. IsOn(r, f, b)
  BY <1>5, <1>6, PushOn
<1> HIDE DEF r
<1>8. Closing(r)
  BY <1>5, <1>6, <1>7, ClosingOn
<1> QED BY <1>2, <1>3, <1>8

LEMMA ClosedOnceStays == ASSUME LifecycleInv, ClosedOnce, Next PROVE ClosedOnce'
<1>1. CASE over
  BY <1>1, ClosedStays DEF ClosedOnce
<1>2. CASE Reset
  BY <1>2, ResetCloses DEF ClosedOnce
<1>3. CASE ~over /\ ~Reset
  BY <1>3, OverStays DEF ClosedOnce
<1> QED BY <1>1, <1>2, <1>3

-----------------------------------------------------------------------------
(* The inductive invariant of what is believed.                            *)

LEMMA InitBelief == Init => BeliefInv
<1> SUFFICES ASSUME Init PROVE BeliefInv
  OBVIOUS
<1>1. PICK s \in Stores, h \in BOOLEAN : m = [InitialLifecycle(s) EXCEPT !.hooked = h]
  BY DEF Init
<1>2. m.entry = Absent
  BY <1>1 DEF InitialLifecycle
<1>3. stack = <<>> /\ storeQ = <<>> /\ store = Untracked /\ calls = <<>> /\ ~over
  BY DEF Init
<1>4. store.status = "untracked" /\ store.version = Nothing
  BY <1>3 DEF Untracked
<1>5. Absent.phase = "absent"
  BY BaseEntries
<1> DEFINE none == {}
<1>6. ToldBy(stack) \cup Types(storeQ) = none /\ Work(stack) = none /\ Settled(stack) /\ ~Busy("store", stack) /\ InOrder(storeQ)
  BY <1>3, ViewNone
<1>7. DOMAIN calls = none /\ CallsTyped
  BY <1>3, EmptySeq DEF CallsTyped
<1>8. none \cap Tracks = none /\ (\A x : x \notin none) /\ \A do : ~IsToDo(none, do)
  BY DEF IsToDo
<1> HIDE DEF none
<1>9. Undeleted(none, calls) /\ Unwritten(none, calls)
  BY <1>7, <1>8 DEF Undeleted, Unwritten
<1>10. Tracked(none, none, store, calls, disk)
  BY <1>4, <1>8, <1>9 DEF Tracked
<1>11. Reading(Absent, none, none, store, calls)
  BY <1>7, <1>8 DEF Reading
<1>12. Entered(Absent, none, none, store, calls, disk, over)
  BY <1>4, <1>5, <1>8, <1>9 DEF Entered
<1>13. Belief(stack, storeQ, m.entry, store, calls, disk, over)
  BY <1>2, <1>6, <1>10, <1>11, <1>12, SettledOrdered DEF Belief, Facts
<1>14. Storeless(stack, m.entry, store, calls)
  BY <1>2, <1>4, <1>5, <1>6, <1>7, <1>8 DEF Storeless
<1> QED BY <1>3, <1>7, <1>13, <1>14 DEF BeliefInv, BeliefHolds, ClosedOnce

LEMMA NextBelief == LifecycleInv /\ BeliefInv /\ [Next]_vars => BeliefInv'
<1> SUFFICES ASSUME LifecycleInv, CallsTyped, BeliefHolds, ClosedOnce, [Next]_vars PROVE BeliefInv'
  BY DEF BeliefInv
<1>1. ASSUME Runs PROVE CallsTyped' /\ BeliefHolds'
  <2>1. CASE SkipStale \/ ExecLocal \/ ExecWire \/ ExecDispose \/ ExecClose \/ ExecRegister \/ ExecLeaving \/ ExecNotifyLeave
    BY <2>1, EffectsStay
  <2>2. CASE ExecDrain \/ DrainLocalChanges
    BY <2>2, DrainsStay
  <2>3. CASE ExecLoad \/ ExecStore \/ ExecLeave \/ ExecNotifyResume
    BY <2>3, LoadStays, ExecStoreStays, LeaveStays, ResumeStays
  <2>4. CASE EndStep \/ EndSync \/ EndStore \/ AppReturns
    BY <2>4, EndsStay
  <2>5. CASE Routed \/ QueueTick \/ Tick
    BY <2>5, SyncsStay
  <2>6. CASE DocLeft \/ ReloadDoc \/ EnsureDoc
    BY <2>6, DocLeftStays, AskedStay
  <2>7. CASE StoreTransition \/ Persist \/ Persisted \/ ArmRetry \/ Delete \/ Release
    BY <2>7, TransitionStays, PersistStays, StoredStay, DeleteStays, ReleaseStays
  <2> QED BY <1>1, <2>1, <2>2, <2>3, <2>4, <2>5, <2>6, <2>7 DEF Runs
<1>2. ASSUME Answers PROVE CallsTyped' /\ BeliefHolds'
  BY <1>2, ReadEndsStays, ReadFailsStays, WriteEndsStays, FailuresStay, DeleteEndsStays DEF Answers
<1>3. ASSUME Asks PROVE CallsTyped' /\ BeliefHolds'
  <2>1. CASE DoGet \/ DoReplicate \/ DoSuspend \/ DoResume \/ DoUnload \/ SetHooks
    BY <2>1, DoorsStay
  <2>2. CASE DoDestroy \/ DoWrite \/ Reset \/ PeerAsks
    BY <2>2, DestroyStays, WriteStays, ResetStays, SyncsStay
  <2> QED BY <1>3, <2>1, <2>2 DEF Asks
<1>4. CASE UNCHANGED vars
  <2>1. UNCHANGED <<m, stack, store, storeQ, calls, disk, over>>
    BY <1>4 DEF vars, runtime, storage, queues
  <2>2. CallsTyped'
    BY <2>1 DEF CallsTyped
  <2>3. BeliefHolds'
    BY <2>1 DEF BeliefHolds
  <2>4. ClosedOnce'
    BY <2>1 DEF ClosedOnce
  <2> QED BY <2>2, <2>3, <2>4 DEF BeliefInv
<1>5. CASE Next
  BY <1>1, <1>2, <1>3, <1>5, ClosedOnceStays DEF Next, BeliefInv
<1> QED BY <1>4, <1>5

LEMMA BelievedThen == LifecycleInv /\ BeliefInv => BelievedIsStored
<1> SUFFICES ASSUME LifecycleInv, CallsTyped, BeliefHolds PROVE BelievedIsStored
  BY DEF BeliefInv
<1> DEFINE t == ToldBy(stack) \cup Types(storeQ)
           w == Work(stack)
<1>1. /\ m.hasStore => Facts(t, w, m.entry, store, calls, disk, over)
      /\ ~m.hasStore => Storeless(stack, m.entry, store, calls)
  BY Queued
<1> HIDE DEF t, w
<1>2. CASE m.hasStore
  <2>1. Tracked(t, w, store, calls, disk) /\ Entered(m.entry, t, w, store, calls, disk, over)
    BY <1>1, <1>2 DEF Facts
  <2>2. BeliefIsStored
    BY <2>1 DEF Tracked, Undeleted, BeliefIsStored
  <2>3. UnloadedIsStored
    BY <2>1 DEF Entered, Undeleted, UnloadedIsStored
  <2> QED BY <2>2, <2>3 DEF BelievedIsStored
<1>3. CASE ~m.hasStore
  BY <1>1, <1>3 DEF Storeless, BelievedIsStored, BeliefIsStored, UnloadedIsStored
<1> QED BY <1>2, <1>3

\* What the lifecycle and the store program believe stored, the store holds, and no delete that was queued before will take
\* it away, whatever doors are used from within whatever callbacks, and whichever store calls fail: a document out of
\* memory can be loaded again, and the next write may start from the version last confirmed (released, lifecycle-program.ts:917).
THEOREM BelievedCorrect == Spec => []BelievedIsStored
<1>1. Init => LifecycleInv /\ BeliefInv
  BY InitInv, InitBelief
<1>2. LifecycleInv /\ BeliefInv /\ [Next]_vars => LifecycleInv' /\ BeliefInv'
  BY NextInv, NextBelief
<1> QED BY <1>1, <1>2, BelievedThen, PTL DEF Spec
=============================================================================
