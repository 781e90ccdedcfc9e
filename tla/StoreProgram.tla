---------------------------- MODULE StoreProgram ----------------------------
(***************************************************************************)
(* The store program of a Runtime: the pure machine that decides which     *)
(* write a document owes and from what base.  It holds no payload and no   *)
(* clock; its executor is in module Persistence.  The program keeps one    *)
(* phase per document and its documents meet only in `seat-lost`, so the   *)
(* operators here are on the phase of ONE document.                        *)
(*                                                                         *)
(* A DocPhase of the code is `unwritten`, `idle` at a version, or `writing`*)
(* with the settled phase it falls back to.  A write in flight keeps the   *)
(* version and the failures of its `revertTo`, so one record stands for    *)
(* all three:                                                              *)
(*   unwritten = settled with version Nothing;   idle = settled with one;  *)
(*   writing   = the same fields, those of revertTo, plus the write owed.  *)
(***************************************************************************)
EXTENDS Naturals

CONSTANT Nothing      \* JavaScript's `undefined`: no version

Untracked == [status |-> "untracked", version |-> Nothing, failures |-> 0, owed |-> "none"]

SettledAt(v, f) == [status |-> "settled", version |-> v, failures |-> f, owed |-> "none"]

(***************************************************************************)
(* A step of the program: the next phase, and its effects.  `write` is the *)
(* kind of the `persist` effect, `persisted` the version of the effect of  *)
(* that name, `retry` whether a retry is asked for.                        *)
(***************************************************************************)
Step(p, w) == [phase |-> p, write |-> w, persisted |-> Nothing, retry |-> FALSE]

Ignored(p) == Step(p, "none")

\* The version the store has confirmed, in flight or not.
ConfirmedVersion(p) == p.version

\* Faulty variant: a write waiting for its retry counts as stored.
StoredDespiteFailures(p) == p.status = "settled" /\ p.version # Nothing

\* The store holds everything: nothing in flight, owed or failed.
StoredEntirely(p) == p.status = "settled" /\ p.version # Nothing /\ p.failures = 0

IsSettled(p) == p.status # "writing"

\* Least upper bound of two requests.
JoinOwed(a, b) == IF "compact" \in {a, b} THEN "compact" ELSE "advance"

\* The one place a write starts, so the one place that decides its kind.
WriteKind(p, owed) ==
  CASE owed = "compact"                        -> "compact"
    [] owed # "compact" /\ p.version # Nothing -> "since"
    [] owed # "compact" /\ p.version = Nothing -> "register"

Start(p, owed) ==
  Step([p EXCEPT !.status = "writing", !.owed = "none"], WriteKind(p, owed))

\* Faulty variant: a request during a write is forgotten.
RequestDropsOwed(p, owed) ==
  IF p.status = "writing" THEN Ignored(p) ELSE Start(p, owed)
\* Start a write if none is in flight, otherwise owe it.
Request(p, owed) ==
  IF p.status = "writing"
  THEN Ignored([p EXCEPT !.owed = JoinOwed(p.owed, owed)])
  ELSE Start(p, owed)

\* The write in flight has ended: start what is owed in the same transition.
SettleWrite(p, settled) ==
  IF p.owed = "none" THEN Ignored(settled) ELSE Start(settled, p.owed)

OnRegister(p) ==
  Request(IF p.status = "untracked" THEN SettledAt(Nothing, 0) ELSE p, "advance")

OnHydrated(p, v) == Request(SettledAt(v, 0), "advance")

OnStateAdvanced(p) ==
  IF p.status = "untracked" THEN Ignored(p) ELSE Request(p, "advance")

OnCompact(p) ==
  IF p.status = "untracked" THEN Ignored(p) ELSE Request(p, "compact")

OnWriteSucceeded(p, v) ==
  IF p.status # "writing"
  THEN Ignored(p)
  ELSE [SettleWrite(p, SettledAt(v, 0)) EXCEPT !.persisted = v]

\* Faulty variant: no retry is asked for.
OnWriteFailedNoRetry(p) ==
  IF p.status # "writing"
  THEN Ignored(p)
  ELSE SettleWrite(p, SettledAt(p.version, p.failures + 1))

OnWriteFailed(p) ==
  IF p.status # "writing"
  THEN Ignored(p)
  ELSE [SettleWrite(p, SettledAt(p.version, p.failures + 1))
          EXCEPT !.retry = (p.owed = "none")]

=============================================================================
