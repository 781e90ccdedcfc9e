---------------------------- MODULE SessionProofs ----------------------------
(* The invariant of Session, for every number of peers and channels.       *)
EXTENDS Session, TLAPS

-----------------------------------------------------------------------------
(* What each handler of the session program does to one peer.              *)

\* The session tables of p agree: LinksMatchChannels for one peer and any session.
TablesOK(p, s) ==
  \A q \in Peer :
    /\ s.links[q] = {c \in Conn : /\ s.channels[c] = "established"
                                  /\ p \in Between[c] /\ q = Other(p, c)}
    /\ s.links[q] # {} => q \in s.peers
    /\ q \in s.departing => q \in s.peers /\ s.links[q] # {}

\* A step tells of q exactly what it did to q, and does nothing to anyone else.
Tells(s, q, step) ==
  /\ step.session \in Session
  /\ step.change \in Transition
  /\ step.says \in BOOLEAN
  /\ step.change = "disconnected" => Grace
  /\ \A r \in Peer \ {q} : Status(step.session, r) = Status(s, r)
  /\ Status(step.session, q) = Fold(Status(s, q), step.change)

\* A peer with a channel does not depart by way of its timer, nor the other way round.
TellsConnected(s, q, step) ==
  /\ Tells(s, q, step)
  /\ step.change = "departed" => Status(s, q) = "connected"

\* The other end of a channel of p is a peer, and not p.
LEMMA OtherIsPeer == ASSUME NEW p \in Peer, NEW c \in Conn, p \in Between[c]
                     PROVE  Other(p, c) \in Peer /\ Other(p, c) # p /\ Between[c] = {p, Other(p, c)}
<1>1. PICK x, y \in Peer : x # y /\ Between[c] = {x, y}
  BY NetworkAssumption
<1>2. \E q \in Between[c] : q # p
  BY <1>1
<1>3. Other(p, c) \in Between[c] /\ Other(p, c) # p
  BY <1>2 DEF Other
<1> QED BY <1>1, <1>3

\* What the changes a handler may report make of a peer.
LEMMA FoldFacts ==
  /\ \A known : Fold(known, "none") = known
  /\ Fold("absent", "established") = "connected"
  /\ Fold("disconnected", "reconnected") = "connected"
  /\ Fold("connected", "disconnected") = "disconnected"
  /\ Fold("connected", "departed") = "absent"
  /\ Fold("disconnected", "departed") = "absent"
BY DEF Fold

\* An added channel is not established, so the tables are what they were.
LEMMA AddedKeeps ==
  ASSUME NEW p \in Peer, NEW c \in Conn, p \in Between[c],
         NEW s \in Session, TablesOK(p, s), s.channels[c] # "established"
  PROVE  /\ TellsConnected(s, Other(p, c), OnChannelAdded(s, c))
         /\ TablesOK(p, OnChannelAdded(s, c).session)
BY OtherIsPeer DEF OnChannelAdded, Quiet, Step, TellsConnected, Tells, TablesOK, Status, Fold, Session,
   ChannelState, Transition

\* Our own establish does not complete a channel.
LEMMA EstablishKeeps ==
  ASSUME NEW p \in Peer, NEW c \in Conn, p \in Between[c],
         NEW s \in Session, TablesOK(p, s)
  PROVE  /\ TellsConnected(s, Other(p, c), OnChannelEstablish(s, c))
         /\ TablesOK(p, OnChannelEstablish(s, c).session)
BY OtherIsPeer DEF OnChannelEstablish, Quiet, Says, Step, TellsConnected, Tells, TablesOK, Status, Fold, Session,
   ChannelState, Transition

\* A channel that becomes established joins its peer's channels.
LEMMA CompleteKeeps ==
  ASSUME NEW p \in Peer, NEW c \in Conn, p \in Between[c],
         NEW s \in Session, TablesOK(p, s), s.channels[c] # "established"
  PROVE  LET step == CompleteEstablish([s EXCEPT !.channels[c] = "established"], c, Other(p, c))
         IN TellsConnected(s, Other(p, c), step) /\ TablesOK(p, step.session)
<1> DEFINE q == Other(p, c)
           e == [s EXCEPT !.channels[c] = "established"]
           linked == [e EXCEPT !.links[q] = @ \cup {c}, !.peers = @ \cup {q}]
           step == CompleteEstablish(e, c, q)
<1>1. q \in Peer /\ e \in Session /\ linked \in Session
  <2>1. q \in Peer
    BY OtherIsPeer
  <2>2. e \in Session
    BY DEF Session, ChannelState
  <2>3. linked \in Session
    BY <2>1, <2>2 DEF Session
  <2> QED BY <2>1, <2>2, <2>3
<1>2. /\ e.peers = s.peers /\ e.links = s.links /\ e.departing = s.departing
      /\ linked.peers = s.peers \cup {q}
      /\ linked.departing = s.departing
      /\ \A r \in Peer : linked.links[r] = IF r = q THEN s.links[q] \cup {c} ELSE s.links[r]
      /\ \A d \in Conn : linked.channels[d] = IF d = c THEN "established" ELSE s.channels[d]
  BY <1>1 DEF Session
<1>3. TablesOK(p, linked)
  BY <1>1, <1>2 DEF TablesOK
<1>4. /\ \A r \in Peer \ {q} : Status(linked, r) = Status(s, r)
      /\ Status(linked, q) = "connected"
  BY <1>1, <1>2 DEF Status
<1>5. CASE q \notin s.peers
  BY <1>1, <1>2, <1>3, <1>4, <1>5
     DEF CompleteEstablish, Step, TellsConnected, Tells, Status, Fold, Transition
<1>6. CASE q \in s.peers /\ s.links[q] # {}
  BY <1>1, <1>2, <1>3, <1>4, <1>6
     DEF CompleteEstablish, Quiet, Step, TellsConnected, Tells, Status, Fold, Transition
<1>7. CASE q \in s.peers /\ s.links[q] = {}
  <2>0. Status(s, q) = "disconnected"
    BY <1>7 DEF Status
  <2> DEFINE back == [linked EXCEPT !.departing = @ \ {q}]
  <2>1. step = Step(back, "reconnected")
    BY <1>2, <1>7 DEF CompleteEstablish
  <2>2. /\ back \in Session /\ back.peers = linked.peers /\ back.links = linked.links
        /\ back.channels = linked.channels /\ back.departing = linked.departing \ {q}
    BY <1>1 DEF Session
  <2>3. TablesOK(p, back)
    BY <1>3, <2>2 DEF TablesOK
  <2>4. \A r \in Peer : Status(back, r) = Status(linked, r)
    BY <2>2 DEF Status
  <2>5. /\ \A r \in Peer \ {q} : Status(back, r) = Status(s, r)
        /\ Status(back, q) = "connected"
        /\ back \in Session
    BY <1>1, <1>4, <2>2, <2>4
  <2> HIDE DEF back, step
  <2>6. TellsConnected(s, q, step)
    BY <2>0, <2>1, <2>5, FoldFacts DEF Quiet, Step, TellsConnected, Tells, Transition
  <2> QED BY <2>1, <2>3, <2>6 DEF Step, step
<1> QED BY <1>5, <1>6, <1>7

\* A peer that loses its last channel is disconnected, or departed; one that keeps
\* another channel notices nothing.
LEMMA RemovedKeeps ==
  ASSUME NEW p \in Peer, NEW c \in Conn, p \in Between[c],
         NEW s \in Session, TablesOK(p, s)
  PROVE  LET step == OnChannelRemoved(s, c, Other(p, c))
         IN TellsConnected(s, Other(p, c), step) /\ TablesOK(p, step.session)
<1> DEFINE q == Other(p, c)
           gone == [s EXCEPT !.channels[c] = "none", !.links[q] = @ \ {c}]
           step == OnChannelRemoved(s, c, q)
<1>1. q \in Peer /\ gone \in Session
  BY OtherIsPeer DEF Session, ChannelState
<1>2. /\ gone.peers = s.peers
      /\ gone.departing = s.departing
      /\ \A r \in Peer : gone.links[r] = IF r = q THEN s.links[q] \ {c} ELSE s.links[r]
      /\ \A d \in Conn : gone.channels[d] = IF d = c THEN "none" ELSE s.channels[d]
  BY <1>1 DEF Session
<1>3. c \in s.links[q] <=> s.channels[c] = "established"
  BY <1>1 DEF TablesOK
<1>4. CASE s.channels[c] # "established"
  <2> DEFINE shut == [s EXCEPT !.channels[c] = "none"]
  <2>1. step = Quiet(shut)
    BY <1>4 DEF OnChannelRemoved
  <2>2. /\ shut \in Session /\ shut.peers = s.peers /\ shut.links = s.links /\ shut.departing = s.departing
        /\ \A d \in Conn : shut.channels[d] = IF d = c THEN "none" ELSE s.channels[d]
    BY DEF Session, ChannelState
  <2>3. TablesOK(p, shut)
    BY <1>4, <2>2 DEF TablesOK
  <2>4. \A r \in Peer : Status(shut, r) = Status(s, r)
    BY <2>2 DEF Status
  <2> QED BY <1>1, <2>1, <2>2, <2>3, <2>4, FoldFacts DEF Quiet, Step, TellsConnected, Tells, Transition
<1>5. CASE s.channels[c] = "established"
  <2>1. c \in s.links[q] /\ q \in s.peers /\ Status(s, q) = "connected"
    BY <1>1, <1>3, <1>5 DEF TablesOK, Status
  <2>2. \A r \in Peer \ {q} : Status(gone, r) = Status(s, r)
    BY <1>2 DEF Status
  <2>3. CASE gone.links[q] # {}
    <3>1. step = Quiet(gone)
      BY <1>5, <2>1, <2>3 DEF OnChannelRemoved
    <3>2. TablesOK(p, gone)
      BY <1>1, <1>2, <2>3 DEF TablesOK
    <3>3. Status(gone, q) = "connected"
      BY <1>2, <2>1, <2>3 DEF Status
    <3> QED BY <1>1, <2>1, <2>2, <3>1, <3>2, <3>3, FoldFacts DEF Quiet, Step, TellsConnected, Tells, Transition
  <2>4. CASE gone.links[q] = {} /\ (q \in s.departing \/ ~Grace)
    <3> DEFINE left == Without(gone, q)
    <3>1. step = Step(left, "departed")
      BY <1>5, <2>1, <2>4 DEF OnChannelRemoved
    <3> HIDE DEF gone
    <3>2. /\ left \in Session
          /\ left.peers = s.peers \ {q} /\ left.departing = s.departing \ {q}
          /\ left.channels = gone.channels /\ left.links = gone.links
      <4>1. gone.links[q] = {} /\ gone \in Session /\ gone.peers = s.peers /\ gone.departing = s.departing
        BY <1>1, <1>2, <2>4
      <4>2. [gone.links EXCEPT ![q] = {}] = gone.links
        BY <4>1 DEF Session
      <4> QED BY <4>1, <4>2 DEF Without, Session
    <3>3. TablesOK(p, left)
      BY <1>1, <1>2, <2>4, <3>2 DEF TablesOK
    <3>4. \A r \in Peer \ {q} : Status(left, r) = Status(s, r)
      BY <2>2, <3>2, <1>2 DEF Status
    <3>5. Status(left, q) = "absent"
      BY <3>2 DEF Status
    <3> QED BY <2>1, <3>1, <3>2, <3>3, <3>4, <3>5, FoldFacts DEF Quiet, Step, TellsConnected, Tells, Transition
  <2>5. CASE gone.links[q] = {} /\ q \notin s.departing /\ Grace
    <3>1. step = Step(gone, "disconnected")
      BY <1>5, <2>1, <2>5 DEF OnChannelRemoved
    <3>2. TablesOK(p, gone)
      BY <1>1, <1>2, <2>5 DEF TablesOK
    <3>3. Status(gone, q) = "disconnected"
      BY <1>2, <2>1, <2>5 DEF Status
    <3> QED BY <1>1, <2>1, <2>2, <2>5, <3>1, <3>2, <3>3,
            FoldFacts DEF Step, TellsConnected, Tells, Transition
  <2> QED BY <2>3, <2>4, <2>5
<1> QED BY <1>4, <1>5

\* An establish from the peer establishes the channel, removes it, or changes nothing.
LEMMA ReceivedKeeps ==
  ASSUME NEW p \in Peer, NEW c \in Conn, p \in Between[c], NEW refused \in BOOLEAN,
         NEW s \in Session, TablesOK(p, s)
  PROVE  LET step == OnEstablishReceived(s, c, Other(p, c), refused)
         IN TellsConnected(s, Other(p, c), step) /\ TablesOK(p, step.session)
<1> DEFINE q == Other(p, c)
           step == OnEstablishReceived(s, c, q, refused)
<1>1. s.channels[c] \in ChannelState
  BY DEF Session
<1>2. CASE s.channels[c] # "none" /\ refused
  BY <1>2, RemovedKeeps DEF OnEstablishReceived
<1>3. CASE s.channels[c] \in {"added", "sent"} /\ ~refused
  <2> DEFINE done == CompleteEstablish([s EXCEPT !.channels[c] = "established"], c, q)
  <2>1. step = Says(done)
    BY <1>3 DEF OnEstablishReceived
  <2>2. TellsConnected(s, q, done) /\ TablesOK(p, done.session)
    BY <1>3, CompleteKeeps
  <2>3. /\ step.session = done.session /\ step.change = done.change /\ step.says
    BY <2>1 DEF Says, CompleteEstablish, Quiet, Step
  <2> QED BY <2>2, <2>3 DEF TellsConnected, Tells
<1>4. CASE s.channels[c] = "none" \/ (s.channels[c] = "established" /\ ~refused)
  <2>1. step = Quiet(s)
    BY <1>4 DEF OnEstablishReceived
  <2> QED BY <2>1, FoldFacts DEF Quiet, Step, TellsConnected, Tells, Transition
<1> QED BY <1>1, <1>2, <1>3, <1>4 DEF ChannelState

\* The handlers of an establish leave every other channel alone.
LEMMA ReceivedTouchesOne ==
  ASSUME NEW s \in Session, NEW c \in Conn, NEW q \in Peer, NEW refused \in BOOLEAN
  PROVE  \A d \in Conn \ {c} :
           OnEstablishReceived(s, c, q, refused).session.channels[d] = s.channels[d]
<1> DEFINE step == OnEstablishReceived(s, c, q, refused)
           up   == [s EXCEPT !.channels[c] = "established"]
<1>1. s.channels[c] \in ChannelState
  BY DEF Session
<1>2. CASE s.channels[c] # "none" /\ refused
  <2>1. step = OnChannelRemoved(s, c, q)
    BY <1>2 DEF OnEstablishReceived
  <2> QED BY <2>1 DEF OnChannelRemoved, Without, Quiet, Step, Session
<1>3. CASE s.channels[c] \in {"added", "sent"} /\ ~refused
  <2>1. step.session = CompleteEstablish(up, c, q).session
    BY <1>3 DEF OnEstablishReceived, Says, CompleteEstablish, Quiet, Step
  <2>2. up \in Session
    BY DEF Session, ChannelState
  <2>3. \A e \in Session : CompleteEstablish(e, c, q).session.channels = e.channels
    BY DEF CompleteEstablish, Quiet, Step, Session
  <2>4. \A d \in Conn \ {c} : up.channels[d] = s.channels[d]
    BY DEF Session
  <2> QED BY <2>1, <2>2, <2>3, <2>4
<1>4. CASE s.channels[c] = "none" \/ (s.channels[c] = "established" /\ ~refused)
  BY <1>4 DEF OnEstablishReceived, Quiet, Step
<1> QED BY <1>1, <1>2, <1>3, <1>4 DEF ChannelState

\* A depart marks a peer that has a channel.  One without a channel cannot send it.
LEMMA DepartKeeps ==
  ASSUME NEW p \in Peer, NEW c \in Conn, p \in Between[c],
         NEW s \in Session, TablesOK(p, s)
  PROVE  LET step == OnDepartReceived(s, c, Other(p, c))
         IN TellsConnected(s, Other(p, c), step) /\ TablesOK(p, step.session)
<1> DEFINE q == Other(p, c)
           step == OnDepartReceived(s, c, q)
           marked == [s EXCEPT !.departing = @ \cup {q}]
<1>1. q \in Peer
  BY OtherIsPeer
<1>2. s.channels[c] = "established" => c \in s.links[q]
  BY <1>1 DEF TablesOK
<1>3. CASE s.channels[c] # "established" \/ q \notin s.peers
  BY <1>3 DEF OnDepartReceived, Quiet, Step, TellsConnected, Tells, Fold, Transition
<1>4. CASE s.channels[c] = "established" /\ q \in s.peers
  <2>1. step = Quiet(marked)
    BY <1>2, <1>4 DEF OnDepartReceived
  <2>2. /\ marked \in Session /\ marked.peers = s.peers /\ marked.links = s.links
        /\ marked.channels = s.channels /\ marked.departing = s.departing \cup {q}
    BY <1>1 DEF Session
  <2>3. TablesOK(p, marked)
    BY <1>1, <1>2, <1>4, <2>2 DEF TablesOK
  <2>4. \A r \in Peer : Status(marked, r) = Status(s, r)
    BY <2>2 DEF Status
  <2> QED BY <1>1, <2>1, <2>2, <2>3, <2>4, FoldFacts DEF Quiet, Step, TellsConnected, Tells, Transition
<1> QED BY <1>3, <1>4

\* A timer that fires deletes a peer still without a channel, and no other.
LEMMA TimerKeeps ==
  ASSUME NEW p \in Peer, NEW q \in Peer, NEW s \in Session, TablesOK(p, s)
  PROVE  LET step == OnDepartureTimerExpired(s, q)
         IN /\ Tells(s, q, step) /\ TablesOK(p, step.session)
            /\ step.change = IF Status(s, q) = "disconnected" THEN "departed" ELSE "none"
<1> DEFINE step == OnDepartureTimerExpired(s, q)
           left == Without(s, q)
<1>1. CASE q \in s.peers /\ s.links[q] = {}
  <2>1. step = Step(left, "departed")
    BY <1>1 DEF OnDepartureTimerExpired
  <2>2. /\ left \in Session
        /\ left.peers = s.peers \ {q} /\ left.departing = s.departing \ {q}
        /\ left.channels = s.channels /\ left.links = s.links
    BY <1>1 DEF Without, Session
  <2>3. TablesOK(p, left)
    BY <1>1, <2>2 DEF TablesOK
  <2>4. \A r \in Peer \ {q} : Status(left, r) = Status(s, r)
    BY <2>2 DEF Status
  <2>5. Status(left, q) = "absent" /\ Status(s, q) = "disconnected"
    BY <1>1, <2>2 DEF Status
  <2> QED BY <2>1, <2>2, <2>3, <2>4, <2>5, FoldFacts DEF Step, Tells, Transition
<1>2. CASE ~(q \in s.peers /\ s.links[q] = {})
  BY <1>2 DEF OnDepartureTimerExpired, Quiet, Step, Tells, Status, Fold, Transition
<1> QED BY <1>1, <1>2

-----------------------------------------------------------------------------
(* The inductive invariant.                                                *)

\* A channel no transport of p has added has no entry in the session.
NotYetAdded ==
  \A p \in Peer, c \in Conn : end[p][c] = "unused" => session[p].channels[c] = "none"

Inv == TypeOK /\ SessionInv /\ NotYetAdded

\* LinksMatchChannels is TablesOK of every peer's session.
LEMMA TablesEverywhere == LinksMatchChannels <=> \A p \in Peer : TablesOK(p, session[p])
BY DEF LinksMatchChannels, TablesOK

\* The peers of a session are those with a status.
LEMMA KnownHaveStatus ==
  ASSUME NEW s \in Session
  PROVE  s.peers = {r \in Peer : Status(s, r) # "absent"}
BY DEF Status, Session

\* The departure timers after a step: those of the peers then disconnected.
LEMMA TimersFollow ==
  ASSUME NEW s \in Session, NEW q \in Peer, NEW step, TellsConnected(s, q, step),
         NEW timers, timers = {r \in Peer : Status(s, r) = "disconnected"}
  PROVE  TimerAfter(timers, q, step.change) = {r \in Peer : Status(step.session, r) = "disconnected"}
<1>1. /\ step.change \in Transition
      /\ \A r \in Peer \ {q} : Status(step.session, r) = Status(s, r)
      /\ Status(step.session, q) = Fold(Status(s, q), step.change)
      /\ step.change = "departed" => Status(s, q) = "connected"
  BY DEF TellsConnected, Tells
<1>2. /\ Status(s, q) \in {"absent", "disconnected", "connected"}
      /\ Status(step.session, q) \in {"absent", "disconnected", "connected"}
  BY DEF Status
<1>3. CASE step.change = "none"
  BY <1>1, <1>3 DEF TimerAfter, Fold
<1>4. CASE step.change = "established"
  BY <1>1, <1>2, <1>4 DEF TimerAfter, Fold
<1>5. CASE step.change = "reconnected"
  BY <1>1, <1>2, <1>5 DEF TimerAfter, Fold
<1>6. CASE step.change = "disconnected"
  BY <1>1, <1>2, <1>6 DEF TimerAfter, Fold
<1>7. CASE step.change = "departed"
  BY <1>1, <1>2, <1>7 DEF TimerAfter, Fold
<1> QED BY <1>1, <1>3, <1>4, <1>5, <1>6, <1>7 DEF Transition

\* The sync program's peers after a step: those the session then has.
LEMMA TrackedFollows ==
  ASSUME NEW s \in Session, NEW q \in Peer, NEW step, Tells(s, q, step)
  PROVE  TrackedAfter(s.peers, q, step.change) = step.session.peers
<1>1. /\ step.change \in Transition
      /\ step.session \in Session
      /\ \A r \in Peer \ {q} : Status(step.session, r) = Status(s, r)
      /\ Status(step.session, q) = Fold(Status(s, q), step.change)
  BY DEF Tells
<1>2. /\ s.peers = {r \in Peer : Status(s, r) # "absent"}
      /\ step.session.peers = {r \in Peer : Status(step.session, r) # "absent"}
  BY <1>1, KnownHaveStatus
<1>3. /\ Status(s, q) \in {"absent", "disconnected", "connected"}
      /\ Status(step.session, q) \in {"absent", "disconnected", "connected"}
  BY DEF Status
<1>4. CASE step.change = "none"
  BY <1>1, <1>2, <1>4 DEF TrackedAfter, Fold
<1>5. CASE step.change = "established"
  BY <1>1, <1>2, <1>3, <1>5 DEF TrackedAfter, Fold
<1>6. CASE step.change = "reconnected"
  BY <1>1, <1>2, <1>3, <1>6 DEF TrackedAfter, Fold
<1>7. CASE step.change = "disconnected"
  BY <1>1, <1>2, <1>3, <1>7 DEF TrackedAfter, Fold
<1>8. CASE step.change = "departed"
  BY <1>1, <1>2, <1>3, <1>8 DEF TrackedAfter, Fold
<1> QED BY <1>1, <1>4, <1>5, <1>6, <1>7, <1>8 DEF Transition

\* The programs' variables, as TypeOK has them.
ProgramsTyped ==
  /\ session \in [Peer -> Session]
  /\ timer \in [Peer -> SUBSET Peer]
  /\ tracked \in [Peer -> SUBSET Peer]
  /\ heard \in [Peer -> [Peer -> Nat]]
  /\ feed \in [Peer -> [Peer -> Known]]

\* Any step that tells what it did, and leaves the timers right, keeps the invariant.
LEMMA CommitsKeeps ==
  ASSUME TypeOK, SessionInv, NEW p \in Peer, NEW q \in Peer, NEW step, NEW timers, NEW r \in Nat,
         Tells(session[p], q, step), TablesOK(p, step.session),
         TimerAfter(timers, q, step.change) = {x \in Peer : Status(step.session, x) = "disconnected"},
         ~Grace => TimerAfter(timers, q, step.change) = {},
         Commits(p, q, step, timers, r)
  PROVE  SessionInv' /\ ProgramsTyped' /\ session' = [session EXCEPT ![p] = step.session]
<1>1. /\ session[p] \in Session /\ step.session \in Session
      /\ tracked[p] = session[p].peers
  BY DEF TypeOK, Tells, SessionInv, SyncFollowsSession
<1>2. /\ session' = [session EXCEPT ![p] = step.session]
      /\ timer' = [timer EXCEPT ![p] = {x \in Peer : Status(step.session, x) = "disconnected"}]
      /\ tracked' = [tracked EXCEPT ![p] = step.session.peers]
      /\ heard' = [heard EXCEPT ![p][q] = HeardAfter(heard[p][q], step.change, r)]
      /\ feed' = [feed EXCEPT ![p][q] = Status(step.session, q)]
  <2>1. tracked' = [tracked EXCEPT ![p] = TrackedAfter(tracked[p], q, step.change)]
    BY DEF Commits
  <2>2. TrackedAfter(tracked[p], q, step.change) = step.session.peers
    BY <1>1, TrackedFollows
  <2>3. feed' = [feed EXCEPT ![p][q] = Fold(feed[p][q], step.change)]
    BY DEF Commits
  <2>4. Fold(feed[p][q], step.change) = Status(step.session, q)
    BY DEF SessionInv, FeedFollowsSession, Tells
  <2> QED BY <2>1, <2>2, <2>3, <2>4 DEF Commits
<1>3. step.session.peers \in SUBSET Peer
  BY <1>1 DEF Session
<1>4. Status(step.session, q) \in Known
  BY DEF Status, Known
<1>5. HeardAfter(heard[p][q], step.change, r) \in Nat
  BY DEF HeardAfter, TypeOK
<1>6. ProgramsTyped'
  BY <1>1, <1>2, <1>3, <1>4, <1>5 DEF ProgramsTyped, TypeOK
<1>7. LinksMatchChannels'
  <2>1. \A x \in Peer : TablesOK(x, session[x])
    BY TablesEverywhere DEF SessionInv
  <2>2. \A x \in Peer : TablesOK(x, session'[x])
    BY <1>2, <2>1 DEF TypeOK
  <2> QED BY <2>2 DEF LinksMatchChannels, TablesOK
<1>8. TimerWhileDisconnected'
  BY <1>2 DEF TypeOK, SessionInv, TimerWhileDisconnected
<1>9. SyncFollowsSession'
  BY <1>2 DEF TypeOK, SessionInv, SyncFollowsSession
<1>10. FeedFollowsSession'
  BY <1>2 DEF TypeOK, SessionInv, FeedFollowsSession, Tells
<1> QED BY <1>2, <1>6, <1>7, <1>8, <1>9, <1>10 DEF SessionInv

\* A step on a channel: its peer is disconnected by losing it, never by its timer.
LEMMA ChannelStepKeeps ==
  ASSUME TypeOK, SessionInv, NEW p \in Peer, NEW q \in Peer, NEW step, NEW r \in Nat,
         TellsConnected(session[p], q, step), TablesOK(p, step.session),
         Commits(p, q, step, timer[p], r)
  PROVE  SessionInv' /\ ProgramsTyped' /\ session' = [session EXCEPT ![p] = step.session]
<1>1. /\ session[p] \in Session
      /\ timer[p] = {x \in Peer : Status(session[p], x) = "disconnected"}
  BY DEF TypeOK, SessionInv, TimerWhileDisconnected
<1>2. TimerAfter(timer[p], q, step.change) = {x \in Peer : Status(step.session, x) = "disconnected"}
  BY <1>1, TimersFollow
<1>3. ~Grace => TimerAfter(timer[p], q, step.change) = {}
  BY DEF SessionInv, TimerWhileDisconnected, TellsConnected, Tells, TimerAfter
<1> QED BY <1>2, <1>3, CommitsKeeps DEF TellsConnected

-----------------------------------------------------------------------------
(* One step per action.                                                    *)

\* The transport's variables, and those of the shell around the programs.
ShellTyped ==
  /\ said \in [Peer -> [Peer -> Nat]]
  /\ mode \in [Peer -> Modes]
  /\ run \in [Peer -> Nat]
  /\ end \in [Peer -> [Conn -> Ends]]
  /\ madeBy \in [Peer -> [Conn -> Nat]]
  /\ wire \in [Peer -> [Conn -> Seq({"establish", "depart"})]]

LEMMA TypesSplit == TypeOK <=> ProgramsTyped /\ ShellTyped
BY DEF TypeOK, ProgramsTyped, ShellTyped

\* An end that is open, or about to be, joins two peers.
LEMMA OpenEnds ==
  ASSUME TypeOK, NEW p \in Peer, NEW c \in Conn, p \in Between[c]
  PROVE  /\ Other(p, c) \in Peer
         /\ madeBy[Other(p, c)][c] \in Nat
         /\ session[p] \in Session
BY OtherIsPeer DEF TypeOK

\* Sending keeps the wires typed.
LEMMA SendsTyped ==
  ASSUME NEW p \in Peer, NEW c \in Conn, p \in Between[c], NEW step,
         NEW w \in [Peer -> [Conn -> Seq({"establish", "depart"})]], Sends(p, c, step, w)
  PROVE  wire' \in [Peer -> [Conn -> Seq({"establish", "depart"})]]
<1>1. Other(p, c) \in Peer
  BY OtherIsPeer
<1>2. Append(w[Other(p, c)][c], "establish") \in Seq({"establish", "depart"})
  BY <1>1
<1> QED BY <1>1, <1>2 DEF Sends

LEMMA AddedInv == ASSUME Inv, NEW p \in Peer, NEW c \in Conn, ChannelAdded(p, c) PROVE Inv'
<1> DEFINE q == Other(p, c)
           step == OnChannelAdded(session[p], c)
<1>1. /\ TypeOK /\ SessionInv /\ p \in Between[c] /\ end[p][c] = "unused"
      /\ Commits(p, q, step, timer[p], 0)
  BY DEF Inv, ChannelAdded
<1>2. q \in Peer /\ session[p] \in Session
  BY <1>1, OpenEnds
<1>3. TablesOK(p, session[p]) /\ session[p].channels[c] # "established"
  BY <1>1, TablesEverywhere DEF Inv, NotYetAdded, SessionInv
<1>4. TellsConnected(session[p], q, step) /\ TablesOK(p, step.session)
  BY <1>1, <1>2, <1>3, AddedKeeps
<1>5. SessionInv' /\ ProgramsTyped' /\ session' = [session EXCEPT ![p] = step.session]
  BY <1>1, <1>2, <1>4, ChannelStepKeeps
<1>6. ShellTyped'
  BY <1>1 DEF ChannelAdded, TypeOK, ShellTyped, Ends
<1>7. step.session.channels = [session[p].channels EXCEPT ![c] = "added"]
  BY <1>2 DEF OnChannelAdded, Quiet, Step, Session
<1>8. NotYetAdded'
  <2>1. session' = [session EXCEPT ![p] = step.session] /\ session \in [Peer -> Session] /\ NotYetAdded
    BY <1>1, <1>5 DEF Inv, TypeOK
  <2>2. \A x \in Peer, d \in Conn :
          /\ end'[x][d] = IF x = p /\ d = c THEN "open" ELSE end[x][d]
          /\ x # p \/ d # c => session'[x].channels[d] = session[x].channels[d]
    BY <1>1, <1>7, <2>1 DEF ChannelAdded, TypeOK, Session
  <2> QED BY <2>1, <2>2 DEF NotYetAdded
<1> QED BY <1>5, <1>6, <1>8, TypesSplit DEF Inv, TypeOK, ProgramsTyped, ShellTyped

LEMMA EstablishInv == ASSUME Inv, NEW p \in Peer, NEW c \in Conn, ChannelEstablish(p, c) PROVE Inv'
<1> DEFINE q == Other(p, c)
           step == OnChannelEstablish(session[p], c)
<1>1. /\ TypeOK /\ SessionInv /\ p \in Between[c] /\ end[p][c] = "open" /\ end' = end
      /\ Commits(p, q, step, timer[p], 0) /\ Sends(p, c, step, wire)
  BY DEF Inv, ChannelEstablish, Open
<1>2. q \in Peer /\ session[p] \in Session
  BY <1>1, OpenEnds
<1>3. TablesOK(p, session[p])
  BY <1>1, TablesEverywhere DEF SessionInv
<1>4. TellsConnected(session[p], q, step) /\ TablesOK(p, step.session)
  BY <1>1, <1>2, <1>3, EstablishKeeps
<1>5. SessionInv' /\ ProgramsTyped' /\ session' = [session EXCEPT ![p] = step.session]
  BY <1>1, <1>2, <1>4, ChannelStepKeeps
<1>6. ShellTyped'
  BY <1>1, SendsTyped DEF ChannelEstablish, TypeOK, ShellTyped
<1>7. \A d \in Conn \ {c} : step.session.channels[d] = session[p].channels[d]
  BY <1>2 DEF OnChannelEstablish, Says, Quiet, Step, Session
<1>8. NotYetAdded'
  BY <1>1, <1>2, <1>5, <1>7 DEF Inv, NotYetAdded, TypeOK
<1> QED BY <1>5, <1>6, <1>8 DEF Inv, TypeOK, ProgramsTyped, ShellTyped

LEMMA ReceivedInv ==
  ASSUME Inv, NEW p \in Peer, NEW c \in Conn, NEW refused \in BOOLEAN, EstablishReceived(p, c, refused)
  PROVE  Inv'
<1> DEFINE q == Other(p, c)
           step == OnEstablishReceived(session[p], c, q, refused)
<1>1. /\ TypeOK /\ SessionInv /\ p \in Between[c] /\ end[p][c] = "open" /\ end' = end
      /\ wire[p][c] # <<>>
      /\ Commits(p, q, step, timer[p], madeBy[q][c])
      /\ Sends(p, c, step, [wire EXCEPT ![p][c] = Tail(@)])
  BY DEF Inv, EstablishReceived, Open
<1>2. q \in Peer /\ session[p] \in Session /\ madeBy[q][c] \in Nat
  BY <1>1, OpenEnds
<1>3. TablesOK(p, session[p])
  BY <1>1, TablesEverywhere DEF SessionInv
<1>4. TellsConnected(session[p], q, step) /\ TablesOK(p, step.session)
  BY <1>1, <1>2, <1>3, ReceivedKeeps
<1>5. SessionInv' /\ ProgramsTyped' /\ session' = [session EXCEPT ![p] = step.session]
  BY <1>1, <1>2, <1>4, ChannelStepKeeps
<1>6. ShellTyped'
  <2>1. Tail(wire[p][c]) \in Seq({"establish", "depart"})
    BY <1>1 DEF TypeOK
  <2> DEFINE w == [wire EXCEPT ![p][c] = Tail(@)]
  <2>2. w \in [Peer -> [Conn -> Seq({"establish", "depart"})]]
    <3>1. [wire[p] EXCEPT ![c] = Tail(@)] \in [Conn -> Seq({"establish", "depart"})]
      BY <1>1, <2>1 DEF TypeOK
    <3> QED BY <1>1, <3>1 DEF TypeOK
  <2>3. Sends(p, c, step, w)
    BY <1>1
  <2> HIDE DEF w, step
  <2>4. wire' \in [Peer -> [Conn -> Seq({"establish", "depart"})]]
    BY <1>1, <2>2, <2>3, SendsTyped
  <2> QED BY <1>1, <2>4 DEF EstablishReceived, TypeOK, ShellTyped
<1>7. \A d \in Conn \ {c} : step.session.channels[d] = session[p].channels[d]
  BY <1>2, ReceivedTouchesOne
<1>8. NotYetAdded'
  BY <1>1, <1>2, <1>5, <1>7 DEF Inv, NotYetAdded, TypeOK
<1> QED BY <1>5, <1>6, <1>8 DEF Inv, TypeOK, ProgramsTyped, ShellTyped

LEMMA DepartInv == ASSUME Inv, NEW p \in Peer, NEW c \in Conn, DepartReceived(p, c) PROVE Inv'
<1> DEFINE q == Other(p, c)
           step == OnDepartReceived(session[p], c, q)
<1>1. /\ TypeOK /\ SessionInv /\ p \in Between[c] /\ end[p][c] = "open" /\ end' = end
      /\ wire[p][c] # <<>>
      /\ Commits(p, q, step, timer[p], 0)
  BY DEF Inv, DepartReceived, Open
<1>2. q \in Peer /\ session[p] \in Session /\ madeBy[q][c] \in Nat
  BY <1>1, OpenEnds
<1>3. TablesOK(p, session[p])
  BY <1>1, TablesEverywhere DEF SessionInv
<1>4. TellsConnected(session[p], q, step) /\ TablesOK(p, step.session)
  BY <1>1, <1>2, <1>3, DepartKeeps
<1>5. SessionInv' /\ ProgramsTyped' /\ session' = [session EXCEPT ![p] = step.session]
  BY <1>1, <1>2, <1>4, ChannelStepKeeps
<1>6. ShellTyped'
  <2>1. Tail(wire[p][c]) \in Seq({"establish", "depart"})
    BY <1>1 DEF TypeOK
  <2>2. said' \in [Peer -> [Peer -> Nat]]
    BY <1>1, <1>2 DEF DepartReceived, TypeOK
  <2> QED BY <1>1, <2>1, <2>2 DEF DepartReceived, TypeOK, ShellTyped
<1>7. \A d \in Conn : step.session.channels[d] = session[p].channels[d]
  BY <1>2 DEF OnDepartReceived, Without, Quiet, Step, Session
<1>8. NotYetAdded'
  BY <1>1, <1>2, <1>5, <1>7 DEF Inv, NotYetAdded, TypeOK
<1> QED BY <1>5, <1>6, <1>8 DEF Inv, TypeOK, ProgramsTyped, ShellTyped

LEMMA RemovedInv == ASSUME Inv, NEW p \in Peer, NEW c \in Conn, ChannelRemoved(p, c) PROVE Inv'
<1> DEFINE q == Other(p, c)
           step == OnChannelRemoved(session[p], c, q)
<1>1. /\ TypeOK /\ SessionInv /\ p \in Between[c] /\ end[p][c] = "open"
      /\ end' = [end EXCEPT ![p][c] = "closed"]
      /\ Commits(p, q, step, timer[p], 0)
  BY DEF Inv, ChannelRemoved, Open
<1>2. q \in Peer /\ session[p] \in Session
  BY <1>1, OpenEnds
<1>3. TablesOK(p, session[p])
  BY <1>1, TablesEverywhere DEF SessionInv
<1>4. TellsConnected(session[p], q, step) /\ TablesOK(p, step.session)
  BY <1>1, <1>2, <1>3, RemovedKeeps
<1>5. SessionInv' /\ ProgramsTyped' /\ session' = [session EXCEPT ![p] = step.session]
  BY <1>1, <1>2, <1>4, ChannelStepKeeps
<1>6. ShellTyped'
  BY <1>1 DEF ChannelRemoved, TypeOK, ShellTyped, Ends
<1>7. \A d \in Conn \ {c} : step.session.channels[d] = session[p].channels[d]
  BY <1>2 DEF OnChannelRemoved, Without, Quiet, Step, Session
<1>8. NotYetAdded'
  BY <1>1, <1>2, <1>5, <1>7 DEF Inv, NotYetAdded, TypeOK
<1> QED BY <1>5, <1>6, <1>8 DEF Inv, TypeOK, ProgramsTyped, ShellTyped

\* A timer fires for a peer that is disconnected: TimerWhileDisconnected.
LEMMA TimerInv == ASSUME Inv, NEW p \in Peer, NEW q \in Peer, DepartureTimerExpired(p, q) PROVE Inv'
<1> DEFINE step == OnDepartureTimerExpired(session[p], q)
<1>1. /\ TypeOK /\ SessionInv /\ end' = end /\ session[p] \in Session
      /\ Commits(p, q, step, timer[p] \ {q}, 0)
  BY DEF Inv, DepartureTimerExpired, transport, TypeOK
<1>2. /\ timer[p] = {x \in Peer : Status(session[p], x) = "disconnected"}
      /\ Status(session[p], q) = "disconnected" /\ Grace
  BY DEF Inv, SessionInv, TimerWhileDisconnected, DepartureTimerExpired
<1>3. TablesOK(p, session[p])
  BY <1>1, TablesEverywhere DEF SessionInv
<1>4. Tells(session[p], q, step) /\ TablesOK(p, step.session) /\ step.change = "departed"
  BY <1>1, <1>2, <1>3, TimerKeeps
<1>5. TimerAfter(timer[p] \ {q}, q, step.change) = {x \in Peer : Status(step.session, x) = "disconnected"}
  BY <1>2, <1>4 DEF TimerAfter, Tells, Fold
<1>6. SessionInv' /\ ProgramsTyped' /\ session' = [session EXCEPT ![p] = step.session]
  BY <1>1, <1>2, <1>4, <1>5, CommitsKeeps
<1>7. ShellTyped'
  BY <1>1 DEF DepartureTimerExpired, transport, TypeOK, ShellTyped
<1>8. \A d \in Conn : step.session.channels[d] = session[p].channels[d]
  BY <1>1 DEF OnDepartureTimerExpired, Without, Quiet, Step, Session
<1>9. NotYetAdded'
  BY <1>1, <1>6, <1>8 DEF Inv, NotYetAdded, TypeOK
<1> QED BY <1>6, <1>7, <1>9 DEF Inv, TypeOK, ProgramsTyped, ShellTyped

-----------------------------------------------------------------------------
(* Shutdown, reset, restart.                                               *)

\* Programs built anew know nobody, and their tables agree.
LEMMA FreshSession ==
  /\ initSession \in Session
  /\ \A p \in Peer : TablesOK(p, initSession)
  /\ \A q \in Peer : Status(initSession, q) = "absent"
BY DEF initSession, Session, ChannelState, TablesOK, Status

\* Where p forgets everybody and its feed shows it, the four tables agree again.
LEMMA FreshKeeps ==
  ASSUME TypeOK, SessionInv, NEW p \in Peer,
         session' = [session EXCEPT ![p] = initSession],
         timer' = [timer EXCEPT ![p] = {}],
         tracked' = [tracked EXCEPT ![p] = {}],
         heard' = [heard EXCEPT ![p] = [q \in Peer |-> 0]],
         feed' = [feed EXCEPT ![p] = [q \in Peer |-> "absent"]]
  PROVE  SessionInv' /\ ProgramsTyped'
<1>1. ProgramsTyped'
  <2>1. [q \in Peer |-> "absent"] \in [Peer -> Known] /\ [q \in Peer |-> 0] \in [Peer -> Nat]
    BY DEF Known
  <2> QED BY <2>1, FreshSession DEF ProgramsTyped, TypeOK
<1>2. LinksMatchChannels'
  <2>1. \A x \in Peer : TablesOK(x, session[x])
    BY TablesEverywhere DEF SessionInv
  <2>2. \A x \in Peer : TablesOK(x, session'[x])
    BY <2>1, FreshSession DEF TypeOK
  <2> QED BY <2>2 DEF LinksMatchChannels, TablesOK
<1>3. TimerWhileDisconnected'
  <2> SUFFICES ASSUME NEW x \in Peer
               PROVE  /\ timer'[x] = {q \in Peer : Status(session'[x], q) = "disconnected"}
                      /\ ~Grace => timer'[x] = {}
    BY DEF TimerWhileDisconnected
  <2>1. CASE x = p
    BY <2>1, FreshSession DEF TypeOK
  <2>2. CASE x # p
    BY <2>2 DEF TypeOK, SessionInv, TimerWhileDisconnected
  <2> QED BY <2>1, <2>2
<1>4. SyncFollowsSession'
  BY DEF TypeOK, SessionInv, SyncFollowsSession, initSession
<1>5. FeedFollowsSession'
  <2> SUFFICES ASSUME NEW x \in Peer, NEW q \in Peer
               PROVE  feed'[x][q] = Status(session'[x], q)
    BY DEF FeedFollowsSession
  <2>1. CASE x = p
    BY <2>1, FreshSession DEF TypeOK
  <2>2. CASE x # p
    BY <2>2 DEF TypeOK, SessionInv, FeedFollowsSession
  <2> QED BY <2>1, <2>2
<1> QED BY <1>1, <1>2, <1>3, <1>4, <1>5 DEF SessionInv

\* The departs of a rebuild leave nobody in the feed, which had exactly the peers known.
LEMMA RebuildsKeeps ==
  ASSUME TypeOK, SessionInv, NEW p \in Peer, Rebuilds(p)
  PROVE  /\ SessionInv' /\ ProgramsTyped'
         /\ session' = [session EXCEPT ![p] = initSession]
         /\ said' \in [Peer -> [Peer -> Nat]]
<1> DEFINE left == [q \in Peer |-> IF q \in session[p].peers THEN Fold(feed[p][q], "departed")
                                                           ELSE feed[p][q]]
<1>1. left = [q \in Peer |-> "absent"]
  <2> SUFFICES ASSUME NEW q \in Peer PROVE left[q] = "absent"
    OBVIOUS
  <2>1. feed[p][q] = Status(session[p], q)
    BY DEF SessionInv, FeedFollowsSession
  <2>2. CASE q \in session[p].peers
    <3>1. Status(session[p], q) \in {"connected", "disconnected"}
      BY <2>2 DEF Status
    <3> QED BY <2>1, <2>2, <3>1, FoldFacts
  <2>3. CASE q \notin session[p].peers
    BY <2>1, <2>3 DEF Status
  <2> QED BY <2>2, <2>3
<1>2. feed' = [feed EXCEPT ![p] = left]
  BY DEF Rebuilds, TypeOK
<1> HIDE DEF left
<1>3. feed' = [feed EXCEPT ![p] = [q \in Peer |-> "absent"]]
  BY <1>1, <1>2
<1>4. said' \in [Peer -> [Peer -> Nat]]
  BY DEF Rebuilds, TypeOK
<1> QED BY <1>3, <1>4, FreshKeeps DEF Rebuilds

\* A session without entries agrees with every transport.
LEMMA FreshUnadded ==
  ASSUME Inv, NEW p \in Peer, session' = [session EXCEPT ![p] = initSession],
         \A x \in Peer, c \in Conn : end'[x][c] = "unused" => end[x][c] = "unused"
  PROVE  NotYetAdded'
BY DEF Inv, TypeOK, NotYetAdded, initSession

LEMMA ShutdownInv == ASSUME Inv, NEW p \in Peer, Shutdown(p) PROVE Inv'
<1>1. TypeOK /\ wire' = Departs(p) /\ mode' = [mode EXCEPT ![p] = "stopping"]
      /\ UNCHANGED <<session, timer, tracked, heard, feed, said, run, end, madeBy>>
  BY DEF Inv, Shutdown, programs
<1>2. wire' \in [Peer -> [Conn -> Seq({"establish", "depart"})]]
  <2>1. \A q \in Peer, c \in Conn : Append(wire[q][c], "depart") \in Seq({"establish", "depart"})
    BY <1>1 DEF TypeOK
  <2> QED BY <1>1, <2>1 DEF Departs, TypeOK
<1>3. TypeOK'
  BY <1>1, <1>2 DEF TypeOK, Modes
<1>4. SessionInv'
  BY <1>1 DEF Inv, SessionInv, LinksMatchChannels, TimerWhileDisconnected, SyncFollowsSession,
              FeedFollowsSession
<1>5. NotYetAdded'
  BY <1>1 DEF Inv, NotYetAdded
<1> QED BY <1>3, <1>4, <1>5 DEF Inv

LEMMA TeardownInv == ASSUME Inv, NEW p \in Peer, Teardown(p) PROVE Inv'
<1>1. TypeOK /\ SessionInv /\ Rebuilds(p) /\ mode' = [mode EXCEPT ![p] = "closing"]
      /\ UNCHANGED <<run, end, madeBy, wire>>
  BY DEF Inv, Teardown, transport
<1>2. /\ SessionInv' /\ ProgramsTyped' /\ said' \in [Peer -> [Peer -> Nat]]
      /\ session' = [session EXCEPT ![p] = initSession]
  BY <1>1, RebuildsKeeps
<1>3. ShellTyped'
  BY <1>1, <1>2 DEF TypeOK, ShellTyped, Modes
<1>4. NotYetAdded'
  BY <1>1, <1>2, FreshUnadded
<1> QED BY <1>2, <1>3, <1>4 DEF Inv, TypeOK, ProgramsTyped, ShellTyped

\* Closing every end keeps the transport's variables typed and opens none.
LEMMA ClosesFacts ==
  ASSUME TypeOK, NEW p \in Peer, Closes(p)
  PROVE  /\ mode' \in [Peer -> Modes]
         /\ end' \in [Peer -> [Conn -> Ends]]
         /\ wire' \in [Peer -> [Conn -> Seq({"establish", "depart"})]]
         /\ \A x \in Peer, c \in Conn : end'[x][c] = "unused" => end[x][c] = "unused"
<1>1. [c \in Conn |-> IF end[p][c] = "open" THEN "closed" ELSE end[p][c]] \in [Conn -> Ends]
  BY DEF TypeOK, Ends
<1>2. [c \in Conn |-> IF end[p][c] = "open" THEN <<>> ELSE wire[p][c]]
        \in [Conn -> Seq({"establish", "depart"})]
  BY DEF TypeOK
<1>3. mode' \in [Peer -> Modes]
  BY DEF Closes, TypeOK, Modes
<1>4. end' \in [Peer -> [Conn -> Ends]] /\ wire' \in [Peer -> [Conn -> Seq({"establish", "depart"})]]
  BY <1>1, <1>2 DEF Closes, TypeOK
<1>5. \A x \in Peer, c \in Conn : end'[x][c] = "unused" => end[x][c] = "unused"
  BY DEF Closes, TypeOK
<1> QED BY <1>3, <1>4, <1>5

LEMMA StopInv == ASSUME Inv, NEW p \in Peer, Stop(p) PROVE Inv'
<1>1. TypeOK /\ Closes(p) /\ UNCHANGED <<session, timer, tracked, heard, feed, said, run, madeBy>>
  BY DEF Inv, Stop, programs
<1>2. TypeOK'
  BY <1>1, ClosesFacts DEF TypeOK
<1>3. SessionInv'
  BY <1>1 DEF Inv, SessionInv, LinksMatchChannels, TimerWhileDisconnected, SyncFollowsSession,
              FeedFollowsSession
<1>4. NotYetAdded'
  BY <1>1, ClosesFacts DEF Inv, NotYetAdded
<1> QED BY <1>2, <1>3, <1>4 DEF Inv

LEMMA ResetInv == ASSUME Inv, NEW p \in Peer, Reset(p) PROVE Inv'
<1>1. TypeOK /\ SessionInv /\ Rebuilds(p) /\ Closes(p) /\ UNCHANGED <<run, madeBy>>
  BY DEF Inv, Reset
<1>2. /\ SessionInv' /\ ProgramsTyped' /\ said' \in [Peer -> [Peer -> Nat]]
      /\ session' = [session EXCEPT ![p] = initSession]
  BY <1>1, RebuildsKeeps
<1>3. ShellTyped'
  BY <1>1, <1>2, ClosesFacts DEF TypeOK, ShellTyped
<1>4. NotYetAdded'
  BY <1>1, <1>2, ClosesFacts, FreshUnadded
<1> QED BY <1>2, <1>3, <1>4 DEF Inv, TypeOK, ProgramsTyped, ShellTyped

LEMMA RestartInv == ASSUME Inv, NEW p \in Peer, Restart(p) PROVE Inv'
<1>1. TypeOK /\ SessionInv /\ UNCHANGED <<end, madeBy, wire>>
  BY DEF Inv, Restart, transport
<1>2. SessionInv' /\ ProgramsTyped' /\ session' = [session EXCEPT ![p] = initSession]
  BY <1>1, FreshKeeps DEF Restart
<1>3. ShellTyped'
  BY <1>1 DEF Restart, TypeOK, ShellTyped, Modes
<1>4. NotYetAdded'
  BY <1>1, <1>2, FreshUnadded
<1> QED BY <1>2, <1>3, <1>4 DEF Inv, TypeOK, ProgramsTyped, ShellTyped

-----------------------------------------------------------------------------
(* The theorems.                                                           *)

LEMMA InitInv == Init => Inv
<1> SUFFICES ASSUME Init PROVE Inv
  OBVIOUS
<1>1. TypeOK
  BY FreshSession DEF Init, TypeOK, Known, Modes, Ends
<1>2. LinksMatchChannels
  BY FreshSession, TablesEverywhere DEF Init
<1>3. TimerWhileDisconnected /\ SyncFollowsSession /\ FeedFollowsSession
  BY FreshSession DEF Init, TimerWhileDisconnected, SyncFollowsSession, FeedFollowsSession, initSession
<1>4. NotYetAdded
  BY DEF Init, NotYetAdded, initSession
<1> QED BY <1>1, <1>2, <1>3, <1>4 DEF Inv, SessionInv

LEMMA StutterInv == Inv /\ UNCHANGED vars => Inv'
BY DEF Inv, vars, programs, transport, TypeOK, SessionInv, LinksMatchChannels, TimerWhileDisconnected,
   SyncFollowsSession, FeedFollowsSession, NotYetAdded

LEMMA NextInv == Inv /\ Next => Inv'
<1> SUFFICES ASSUME Inv, Next PROVE Inv'
  OBVIOUS
<1>1. CASE \E p \in Peer, c \in Conn :
             \/ ChannelAdded(p, c) \/ ChannelEstablish(p, c)
             \/ \E refused \in BOOLEAN : EstablishReceived(p, c, refused)
             \/ DepartReceived(p, c) \/ ChannelRemoved(p, c)
  BY <1>1, AddedInv, EstablishInv, ReceivedInv, DepartInv, RemovedInv
<1>2. CASE \E p, q \in Peer : DepartureTimerExpired(p, q)
  BY <1>2, TimerInv
<1>3. CASE \E p \in Peer : Shutdown(p) \/ Teardown(p) \/ Stop(p) \/ Reset(p) \/ Restart(p)
  BY <1>3, ShutdownInv, TeardownInv, StopInv, ResetInv, RestartInv
<1> QED BY <1>1, <1>2, <1>3 DEF Next

\* The inductive invariant: types, the agreement of the four tables, and that a channel
\* its transport has not added has no entry.
THEOREM InvCorrect == Spec => []Inv
<1>1. Init => Inv
  BY InitInv
<1>2. Inv /\ [Next]_vars => Inv'
  BY NextInv, StutterInv
<1> QED BY <1>1, <1>2, PTL DEF Spec

\* Type correctness of the Exchanges, their programs and their channels.
THEOREM TypeCorrect == Spec => []TypeOK
<1>1. Inv => TypeOK
  BY DEF Inv
<1> QED BY <1>1, InvCorrect, PTL

\* The session's tables, the departure timers, the sync program's peers and the feed of
\* peers agree at every moment, whatever channels come, go and overlap, whoever refuses,
\* departs, times out, shuts down, resets or restarts (session-program.ts and the
\* Synchronizer's execution of its effects).
THEOREM SessionCorrect == Spec => []SessionInv
<1>1. Inv => SessionInv
  BY DEF Inv
<1> QED BY <1>1, InvCorrect, PTL

-----------------------------------------------------------------------------
(* Where connections do not overlap, what is believed of a peer is current.*)

\* An open end belongs to the present run of its peer.
OpenIsCurrent ==
  \A p \in Peer, c \in Conn : end[p][c] = "open" => mode[p] # "down" /\ madeBy[p][c] = run[p]

\* What a session has an entry for is an open end of its peer.
EntriesOpen ==
  \A p \in Peer, c \in Conn :
    session[p].channels[c] # "none" /\ mode[p] # "down" => p \in Between[c] /\ end[p][c] = "open"

\* Nothing comes from an end that was never opened.
SaidFirst ==
  \A p \in Peer, c \in Conn :
    p \in Between[c] /\ (wire[p][c] # <<>> \/ session[p].channels[c] = "established") =>
      end[Other(p, c)][c] # "unused"

\* Channels open at one peer were opened by one run of the other.
OneRun ==
  \A p \in Peer, c, d \in Conn :
    LET q == Other(p, c)
    IN  /\ p \in Between[c] /\ Between[d] = Between[c]
        /\ end[p][c] = "open" /\ end[p][d] = "open"
        /\ end[q][c] # "unused" /\ end[q][d] # "unused"
        => madeBy[q][c] = madeBy[q][d]

\* That run is the one last heard of, and the one that said it departs.
HeardIsMade == \A p, q \in Peer, c \in Conn : c \in session[p].links[q] => heard[p][q] = madeBy[q][c]

SaidIsHeard == \A p, q \in Peer : q \in session[p].departing => said[p][q] = heard[p][q]

FreshInv == OpenIsCurrent /\ EntriesOpen /\ SaidFirst /\ OneRun /\ HeardIsMade /\ SaidIsHeard

\* The ends of a channel are each other's.
LEMMA OtherBack ==
  ASSUME NEW p \in Peer, NEW c \in Conn, p \in Between[c]
  PROVE  LET q == Other(p, c) IN q \in Peer /\ q # p /\ q \in Between[c] /\ Other(q, c) = p /\ Between[c] = {p, q}
<1> DEFINE q == Other(p, c)
<1>1. q \in Peer /\ q # p /\ Between[c] = {p, q}
  BY OtherIsPeer
<1>2. Other(q, c) \in Peer /\ Other(q, c) # q /\ Between[c] = {q, Other(q, c)}
  BY <1>1, OtherIsPeer
<1> QED
  BY <1>1, <1>2

LEMMA SameEnds ==
  ASSUME NEW p \in Peer, NEW c \in Conn, NEW d \in Conn, p \in Between[c], Between[d] = Between[c]
  PROVE  p \in Between[d] /\ Other(p, d) = Other(p, c)
BY OtherBack

\* A peer is heard of when it becomes connected, and not while it is.
LEMMA HearsOnce ==
  ASSUME NEW s \in Session, NEW q \in Peer, NEW step, Tells(s, q, step)
  PROVE  /\ Status(s, q) = "connected" => step.change \notin {"established", "reconnected"}
         /\ Status(s, q) # "connected" /\ Status(step.session, q) = "connected" =>
              step.change \in {"established", "reconnected"}
<1>1. /\ Status(step.session, q) = Fold(Status(s, q), step.change) /\ step.change \in Transition
      /\ Status(step.session, q) \in {"absent", "disconnected", "connected"}
  BY DEF Tells, Status
<1>2. CASE Status(s, q) = "connected"
  BY <1>1, <1>2 DEF Fold
<1>3. CASE Status(s, q) # "connected" /\ Status(step.session, q) = "connected"
  BY <1>1, <1>3 DEF Fold, Transition
<1> QED
  BY <1>2, <1>3

LEMMA LinkedIsConnected ==
  ASSUME NEW p \in Peer, NEW q \in Peer, NEW s, TablesOK(p, s)
  PROVE  s.links[q] # {} <=> Status(s, q) = "connected"
BY DEF TablesOK, Status

\* What a step changes of p's session and of what p heard.
LEMMA CommitsIs ==
  ASSUME Inv, NEW p \in Peer, NEW q \in Peer, NEW step, NEW timers, NEW r, Commits(p, q, step, timers, r)
  PROVE  /\ session'[p] = step.session /\ \A x \in Peer \ {p} : session'[x] = session[x] /\ heard'[x] = heard[x]
         /\ heard'[p][q] = HeardAfter(heard[p][q], step.change, r)
         /\ \A y \in Peer \ {q} : heard'[p][y] = heard[p][y]
BY DEF Commits, Inv, TypeOK

\* Every step that establishes a channel has just heard the run that opened its other end, or had heard it before.
LEMMA HeardKept ==
  ASSUME Inv, FreshInv, NEW p \in Peer, NEW q \in Peer, NEW step, NEW timers, NEW r,
         Commits(p, q, step, timers, r), Tells(session[p], q, step), TablesOK(p, step.session),
         \A d \in Conn : step.session.channels[d] = "established" /\ session[p].channels[d] # "established" =>
           /\ p \in Between[d] /\ q = Other(p, d) /\ r = madeBy[q][d]
           /\ mode[p] # "down" /\ end[p][d] = "open" /\ end[q][d] # "unused"
  PROVE  \A x, y \in Peer, d \in Conn : d \in session'[x].links[y] => heard'[x][y] = madeBy[y][d]
<1> DEFINE s == session[p]
           t == step.session
<1>1. /\ session'[p] = t /\ (\A x \in Peer \ {p} : session'[x] = session[x] /\ heard'[x] = heard[x])
      /\ heard'[p][q] = HeardAfter(heard[p][q], step.change, r)
      /\ \A y \in Peer \ {q} : heard'[p][y] = heard[p][y]
  BY CommitsIs
<1>2. s \in Session /\ TablesOK(p, s)
  BY TablesEverywhere DEF Inv, TypeOK, SessionInv
<1>3. HeardIsMade
  BY DEF FreshInv
<1> SUFFICES ASSUME NEW x \in Peer, NEW y \in Peer, NEW d \in Conn, d \in session'[x].links[y]
             PROVE  heard'[x][y] = madeBy[y][d]
  OBVIOUS
<1>4. CASE x # p
  BY <1>1, <1>3, <1>4 DEF HeardIsMade
<1>5. CASE x = p
  <2>1. d \in t.links[y] /\ t.channels[d] = "established" /\ p \in Between[d] /\ y = Other(p, d)
    BY <1>1, <1>5 DEF TablesOK
  <2>2. CASE s.channels[d] = "established"
    <3>1. d \in s.links[y]
      BY <1>2, <2>1, <2>2 DEF TablesOK
    <3>2. heard[p][y] = madeBy[y][d]
      BY <1>3, <3>1 DEF HeardIsMade
    <3>3. CASE y # q
      BY <1>1, <1>5, <3>2, <3>3
    <3>4. CASE y = q
      <4>1. Status(s, q) = "connected"
        BY <1>2, <3>1, <3>4, LinkedIsConnected
      <4>2. step.change \notin {"established", "reconnected"}
        BY <1>2, <4>1, HearsOnce
      <4> QED
        BY <1>1, <1>5, <3>2, <3>4, <4>2 DEF HeardAfter
    <3> QED
      BY <3>3, <3>4
  <2>3. CASE s.channels[d] # "established"
    <3>1. y = q /\ r = madeBy[q][d] /\ mode[p] # "down" /\ end[p][d] = "open" /\ end[q][d] # "unused"
      BY <2>1, <2>3
    <3>2. Status(t, q) = "connected"
      BY <2>1, <3>1, LinkedIsConnected
    <3>3. CASE s.links[q] = {}
      <4>1. step.change \in {"established", "reconnected"}
        BY <1>2, <3>2, <3>3, HearsOnce, LinkedIsConnected
      <4> QED
        BY <1>1, <1>5, <3>1, <4>1 DEF HeardAfter
    <3>4. CASE s.links[q] # {}
      <4>1. step.change \notin {"established", "reconnected"}
        BY <1>2, <3>4, HearsOnce, LinkedIsConnected
      <4>2. PICK e \in Conn : e \in s.links[q] /\ s.channels[e] = "established" /\ p \in Between[e] /\ q = Other(p, e)
        BY <1>2, <3>4 DEF TablesOK
      <4>3. Between[d] = {p, q} /\ Between[e] = {p, q} /\ Other(p, d) = q
        <5>1. Between[d] = {p, Other(p, d)} /\ Other(p, d) = q
          BY <2>1, <3>1, OtherBack
        <5>2. Between[e] = {p, Other(p, e)}
          BY <4>2, OtherBack
        <5> QED
          BY <4>2, <5>1, <5>2
      <4>4. end[p][e] = "open" /\ end[q][e] # "unused"
        BY <3>1, <4>2 DEF FreshInv, EntriesOpen, SaidFirst
      <4>5. madeBy[q][d] = madeBy[q][e]
        <5>1. OneRun
          BY DEF FreshInv
        <5>2. end[Other(p, d)][d] # "unused" /\ end[Other(p, d)][e] # "unused" /\ Between[e] = Between[d]
          BY <3>1, <4>3, <4>4
        <5>3. madeBy[Other(p, d)][d] = madeBy[Other(p, d)][e]
          BY <2>1, <3>1, <4>4, <5>1, <5>2 DEF OneRun
        <5> QED
          BY <4>3, <5>3
      <4>6. heard[p][q] = madeBy[q][e]
        BY <1>3, <4>2 DEF HeardIsMade
      <4> QED
        BY <1>1, <1>5, <3>1, <4>1, <4>5, <4>6 DEF HeardAfter
    <3> QED
      BY <3>3, <3>4
  <2> QED
    BY <2>2, <2>3
<1> QED
  BY <1>4, <1>5

\* No peer is marked as departing but by a depart, and one that is marked is not heard of anew.
LEMMA SaidKept ==
  ASSUME Inv, SaidIsHeard, NEW p \in Peer, NEW q \in Peer, NEW step, NEW timers, NEW r,
         Commits(p, q, step, timers, r), Tells(session[p], q, step),
         step.session.departing \subseteq session[p].departing, said' = said
  PROVE  SaidIsHeard'
<1>1. /\ session'[p] = step.session /\ (\A x \in Peer \ {p} : session'[x] = session[x] /\ heard'[x] = heard[x])
      /\ heard'[p][q] = HeardAfter(heard[p][q], step.change, r)
      /\ \A y \in Peer \ {q} : heard'[p][y] = heard[p][y]
  BY CommitsIs
<1>2. session[p] \in Session /\ TablesOK(p, session[p])
  BY TablesEverywhere DEF Inv, TypeOK, SessionInv
<1> SUFFICES ASSUME NEW x \in Peer, NEW y \in Peer, y \in session'[x].departing
             PROVE  said[x][y] = heard'[x][y]
  BY DEF SaidIsHeard
<1>3. CASE x # p
  BY <1>1, <1>3 DEF SaidIsHeard
<1>4. CASE x = p
  <2>1. y \in session[p].departing /\ said[p][y] = heard[p][y]
    BY <1>1, <1>4 DEF SaidIsHeard
  <2>2. CASE y # q
    BY <1>1, <1>4, <2>1, <2>2
  <2>3. CASE y = q
    <3>1. session[p].links[q] # {}
      BY <1>2, <2>1, <2>3 DEF TablesOK
    <3>2. step.change \notin {"established", "reconnected"}
      BY <1>2, <3>1, HearsOnce, LinkedIsConnected
    <3> QED
      BY <1>1, <1>4, <2>1, <2>3, <3>2 DEF HeardAfter
  <2> QED
    BY <2>2, <2>3
<1> QED
  BY <1>3, <1>4

LEMMA SaidFirstKept ==
  ASSUME SaidFirst, \A x \in Peer, d \in Conn : end[x][d] # "unused" => end'[x][d] # "unused",
         \A x \in Peer, d \in Conn : x \in Between[d] =>
           /\ wire'[x][d] # <<>> => wire[x][d] # <<>> \/ end[Other(x, d)][d] # "unused"
           /\ session'[x].channels[d] = "established" =>
                session[x].channels[d] = "established" \/ end[Other(x, d)][d] # "unused"
  PROVE  SaidFirst'
<1> SUFFICES ASSUME NEW x \in Peer, NEW d \in Conn, x \in Between[d],
                    wire'[x][d] # <<>> \/ session'[x].channels[d] = "established"
             PROVE  end'[Other(x, d)][d] # "unused"
  BY DEF SaidFirst
<1>1. end[Other(x, d)][d] # "unused"
  BY DEF SaidFirst
<1> QED
  BY <1>1, OtherBack

\* A peer sends on ends that it has opened.
LEMMA SendsFirst ==
  ASSUME NEW p \in Peer, NEW c \in Conn, p \in Between[c], end[p][c] = "open", NEW step, NEW w,
         w \in [Peer -> [Conn -> Seq({"establish", "depart"})]], Sends(p, c, step, w)
  PROVE  \A x \in Peer, d \in Conn : x \in Between[d] /\ wire'[x][d] # <<>> => w[x][d] # <<>> \/ end[Other(x, d)][d] # "unused"
<1>1. Other(p, c) \in Peer /\ Other(Other(p, c), c) = p
  BY OtherBack
<1> SUFFICES ASSUME NEW x \in Peer, NEW d \in Conn, wire'[x][d] # <<>>, w[x][d] = <<>>
             PROVE  end[Other(x, d)][d] # "unused"
  OBVIOUS
<1>2. x = Other(p, c) /\ d = c
  BY <1>1 DEF Sends
<1> QED
  BY <1>1, <1>2

\* Ends that close open nothing that another run opened.
LEMMA ClosingKeeps ==
  ASSUME OneRun, madeBy' = madeBy,
         \A x \in Peer, d \in Conn : /\ end'[x][d] = "open" => end[x][d] = "open"
                                     /\ end'[x][d] # "unused" => end[x][d] # "unused"
  PROVE  OneRun'
<1> SUFFICES ASSUME NEW p \in Peer, NEW c \in Conn, NEW d \in Conn, p \in Between[c], Between[d] = Between[c],
                    end'[p][c] = "open", end'[p][d] = "open",
                    end'[Other(p, c)][c] # "unused", end'[Other(p, c)][d] # "unused"
             PROVE  madeBy[Other(p, c)][c] = madeBy[Other(p, c)][d]
  BY DEF OneRun
<1> QED
  BY OtherBack DEF OneRun

-----------------------------------------------------------------------------
(* One step per action. *)

\* The handlers of a channel and of a timer mark nobody as departing.
LEMMA HandlersMark ==
  ASSUME NEW s \in Session, NEW c \in Conn, NEW q \in Peer, NEW refused \in BOOLEAN
  PROVE  /\ OnChannelAdded(s, c).session.departing = s.departing
         /\ OnChannelEstablish(s, c).session.departing = s.departing
         /\ OnChannelRemoved(s, c, q).session.departing \subseteq s.departing
         /\ OnEstablishReceived(s, c, q, refused).session.departing \subseteq s.departing
         /\ OnDepartureTimerExpired(s, q).session.departing \subseteq s.departing
<1>1. /\ OnChannelAdded(s, c).session.departing = s.departing
      /\ OnChannelEstablish(s, c).session.departing = s.departing
  BY DEF OnChannelAdded, OnChannelEstablish, Quiet, Says, Step, Session
<1>2. OnChannelRemoved(s, c, q).session.departing \subseteq s.departing
  BY DEF OnChannelRemoved, Without, Quiet, Step, Session
<1>3. OnDepartureTimerExpired(s, q).session.departing \subseteq s.departing
  BY DEF OnDepartureTimerExpired, Without, Quiet, Step, Session
<1>4. OnEstablishReceived(s, c, q, refused).session.departing \subseteq s.departing
  <2> DEFINE step == OnEstablishReceived(s, c, q, refused)
             up   == [s EXCEPT !.channels[c] = "established"]
  <2>1. s.channels[c] \in ChannelState
    BY DEF Session
  <2>2. CASE s.channels[c] # "none" /\ refused
    <3>1. step = OnChannelRemoved(s, c, q)
      BY <2>2 DEF OnEstablishReceived
    <3> QED
      BY <3>1, <1>2
  <2>3. CASE s.channels[c] \in {"added", "sent"} /\ ~refused
    <3>1. step.session = CompleteEstablish(up, c, q).session
      BY <2>3 DEF OnEstablishReceived, Says, CompleteEstablish, Quiet, Step
    <3>2. up \in Session /\ up.departing = s.departing
      BY DEF Session, ChannelState
    <3>3. \A e \in Session : CompleteEstablish(e, c, q).session.departing \subseteq e.departing
      BY DEF CompleteEstablish, Quiet, Step, Session
    <3> QED
      BY <3>1, <3>2, <3>3
  <2>4. CASE s.channels[c] = "none" \/ (s.channels[c] = "established" /\ ~refused)
    BY <2>4 DEF OnEstablishReceived, Quiet, Step
  <2> QED
    BY <2>1, <2>2, <2>3, <2>4 DEF ChannelState
<1> QED
  BY <1>1, <1>2, <1>3, <1>4

LEMMA AddedFresh ==
  ASSUME ~Overlaps, Inv, FreshInv, Inv', NEW p \in Peer, NEW c \in Conn, ChannelAdded(p, c)
  PROVE  FreshInv'
<1> DEFINE q == Other(p, c)
           step == OnChannelAdded(session[p], c)
<1>1. /\ p \in Between[c] /\ end[p][c] = "unused" /\ mode[p] # "down" /\ ~Stale(c)
      /\ Commits(p, q, step, timer[p], 0)
      /\ end' = [end EXCEPT ![p][c] = "open"] /\ madeBy' = [madeBy EXCEPT ![p][c] = run[p]]
      /\ UNCHANGED <<said, mode, run, wire>>
  BY DEF ChannelAdded
<1>2. q \in Peer /\ q # p /\ q \in Between[c] /\ Other(q, c) = p /\ Between[c] = {p, q}
  BY <1>1, OtherBack
<1>3. session[p] \in Session /\ TablesOK(p, session[p]) /\ session[p].channels[c] = "none"
  BY <1>1, TablesEverywhere DEF Inv, NotYetAdded, SessionInv, TypeOK
<1>4. Tells(session[p], q, step) /\ TablesOK(p, step.session)
  BY <1>1, <1>3, AddedKeeps DEF TellsConnected
<1>5. /\ step.session.channels[c] = "added" /\ (\A d \in Conn \ {c} : step.session.channels[d] = session[p].channels[d])
      /\ step.session.departing \subseteq session[p].departing
  BY <1>3 DEF OnChannelAdded, Quiet, Step, Session
<1>6. /\ session'[p] = step.session /\ \A x \in Peer \ {p} : session'[x] = session[x]
  BY <1>1, <1>2, CommitsIs
<1>7. /\ end'[p][c] = "open" /\ madeBy'[p][c] = run[p]
      /\ \A x \in Peer, d \in Conn : x # p \/ d # c => end'[x][d] = end[x][d] /\ madeBy'[x][d] = madeBy[x][d]
  <2>1. end'[p][c] = "open" /\ \A x \in Peer, d \in Conn : x # p \/ d # c => end'[x][d] = end[x][d]
    BY <1>1 DEF Inv, TypeOK
  <2>2. madeBy'[p][c] = run[p] /\ \A x \in Peer, d \in Conn : x # p \/ d # c => madeBy'[x][d] = madeBy[x][d]
    BY <1>1 DEF Inv, TypeOK
  <2> QED
    BY <2>1, <2>2
<1> HIDE DEF step, q
<1>8. HeardIsMade'
  <2>1. \A x, y \in Peer, d \in Conn : d \in session'[x].links[y] => heard'[x][y] = madeBy[y][d]
    BY <1>1, <1>2, <1>4, <1>5, HeardKept
  <2> SUFFICES ASSUME NEW x \in Peer, NEW y \in Peer, NEW d \in Conn, d \in session'[x].links[y]
               PROVE  heard'[x][y] = madeBy'[y][d]
    BY DEF HeardIsMade
  <2>2. CASE y # p \/ d # c
    BY <2>1, <2>2, <1>7
  <2>3. CASE y = p /\ d = c
    <3>1. session'[x].channels[c] = "established" /\ x \in Between[c] /\ p = Other(x, c)
      BY <2>3 DEF Inv, SessionInv, LinksMatchChannels
    <3>2. x # p
      BY <3>1, OtherBack
    <3>3. end[p][c] # "unused"
      BY <1>6, <3>1, <3>2 DEF FreshInv, SaidFirst
    <3> QED
      BY <1>1, <3>3
  <2> QED
    BY <2>2, <2>3
<1>9. SaidIsHeard'
  BY <1>1, <1>2, <1>4, <1>5, SaidKept DEF FreshInv
<1>10. SaidFirst'
  <2>1. \A x \in Peer, d \in Conn : session'[x].channels[d] = "established" => session[x].channels[d] = "established"
    BY <1>5, <1>6
  <2>2. \A x \in Peer, d \in Conn : end[x][d] # "unused" => end'[x][d] # "unused"
    BY <1>1, <1>7
  <2> QED
    BY <1>1, <2>1, <2>2, SaidFirstKept DEF FreshInv
<1>11. OpenIsCurrent'
  BY <1>1, <1>7 DEF FreshInv, OpenIsCurrent
<1>12. EntriesOpen'
  <2> SUFFICES ASSUME NEW x \in Peer, NEW d \in Conn, session'[x].channels[d] # "none", mode[x] # "down"
               PROVE  x \in Between[d] /\ end'[x][d] = "open"
    BY <1>1 DEF EntriesOpen
  <2>1. CASE x = p /\ d = c
    BY <1>1, <1>7, <2>1
  <2>2. CASE x # p \/ d # c
    <3>1. session[x].channels[d] # "none"
      BY <1>5, <1>6, <2>2
    <3> QED
      BY <1>7, <2>2, <3>1 DEF FreshInv, EntriesOpen
  <2> QED
    BY <2>1, <2>2
<1>13. ASSUME NEW x \in Between[c], NEW d \in Conn, Between[d] = Between[c],
              end'[x][d] = "open", end'[Other(x, c)][d] # "unused"
       PROVE  madeBy'[Other(x, c)][d] = run[Other(x, c)]
  <2> DEFINE y == Other(x, c)
  <2>1. x \in Peer /\ y \in Peer /\ y # x /\ y \in Between[c] /\ Other(x, d) = y /\ (x = p \/ y = p)
    BY <1>2, <1>13, OtherBack, SameEnds
  <2>2. CASE y = p /\ d = c
    BY <1>7, <2>2
  <2>3. CASE ~(y = p /\ d = c)
    <3>1. end[y][d] # "unused" /\ madeBy'[y][d] = madeBy[y][d]
      BY <1>7, <1>13, <2>1, <2>3
    <3>2. end[x][d] = "open" \/ (d = c /\ end[x][d] = "unused")
      BY <1>1, <1>7, <1>13, <2>1
    <3>3. end[y][d] # "closed"
      BY <1>1, <1>13, <2>1, <3>2 DEF Stale
    <3>4. end[y][d] = "open"
      BY <2>1, <3>1, <3>3 DEF Inv, TypeOK, Ends
    <3> QED
      BY <2>1, <3>1, <3>4 DEF FreshInv, OpenIsCurrent
  <2> QED
    BY <2>2, <2>3
<1>14. OneRun'
  <2> SUFFICES ASSUME NEW x \in Peer, NEW d \in Conn, NEW e \in Conn, x \in Between[d], Between[e] = Between[d],
                      end'[x][d] = "open", end'[x][e] = "open",
                      end'[Other(x, d)][d] # "unused", end'[Other(x, d)][e] # "unused"
               PROVE  madeBy'[Other(x, d)][d] = madeBy'[Other(x, d)][e]
    BY DEF OneRun
  <2>1. CASE Between[d] = Between[c]
    <3>1. x \in Between[c] /\ Other(x, d) = Other(x, c)
      BY <2>1, SameEnds
    <3> QED
      BY <1>13, <2>1, <3>1
  <2>2. CASE Between[d] # Between[c]
    <3>1. d # c /\ e # c /\ Other(x, d) \in Peer
      BY <2>2, OtherBack
    <3> QED
      BY <1>7, <3>1 DEF FreshInv, OneRun
  <2> QED
    BY <2>1, <2>2
<1> QED
  BY <1>8, <1>9, <1>10, <1>11, <1>12, <1>14 DEF FreshInv

LEMMA EstablishFresh ==
  ASSUME Inv, FreshInv, NEW p \in Peer, NEW c \in Conn, ChannelEstablish(p, c)
  PROVE  FreshInv'
<1> DEFINE q == Other(p, c)
           step == OnChannelEstablish(session[p], c)
<1>1. /\ p \in Between[c] /\ end[p][c] = "open" /\ Commits(p, q, step, timer[p], 0) /\ Sends(p, c, step, wire)
      /\ UNCHANGED <<said, mode, run, end, madeBy>>
  BY DEF ChannelEstablish, Open
<1>2. q \in Peer
  BY <1>1, OtherBack
<1>3. session[p] \in Session /\ TablesOK(p, session[p]) /\ wire \in [Peer -> [Conn -> Seq({"establish", "depart"})]]
  BY TablesEverywhere DEF Inv, SessionInv, TypeOK
<1>4. Tells(session[p], q, step) /\ TablesOK(p, step.session)
  BY <1>1, <1>3, EstablishKeeps DEF TellsConnected
<1>5. /\ step.session.channels[c] # "established" \/ session[p].channels[c] = "established"
      /\ \A d \in Conn \ {c} : step.session.channels[d] = session[p].channels[d]
      /\ step.session.departing \subseteq session[p].departing
  BY <1>3 DEF OnChannelEstablish, Says, Quiet, Step, Session
<1>6. session'[p] = step.session /\ \A x \in Peer \ {p} : session'[x] = session[x]
  BY <1>1, <1>2, CommitsIs
<1>7. \A x \in Peer, d \in Conn : x \in Between[d] /\ wire'[x][d] # <<>> => wire[x][d] # <<>> \/ end[Other(x, d)][d] # "unused"
  BY <1>1, <1>3, SendsFirst
<1> HIDE DEF step, q
<1>8. HeardIsMade'
  BY <1>1, <1>2, <1>4, <1>5, HeardKept DEF HeardIsMade
<1>9. SaidIsHeard'
  BY <1>1, <1>2, <1>4, <1>5, SaidKept DEF FreshInv
<1>10. SaidFirst'
  BY <1>1, <1>5, <1>6, <1>7, SaidFirstKept DEF FreshInv
<1>11. EntriesOpen'
  BY <1>1, <1>5, <1>6 DEF FreshInv, EntriesOpen
<1>12. OpenIsCurrent' /\ OneRun'
  BY <1>1, ClosingKeeps DEF FreshInv, OpenIsCurrent
<1> QED
  BY <1>8, <1>9, <1>10, <1>11, <1>12 DEF FreshInv

LEMMA ReceivedFresh ==
  ASSUME Inv, FreshInv, NEW p \in Peer, NEW c \in Conn, NEW refused \in BOOLEAN, EstablishReceived(p, c, refused)
  PROVE  FreshInv'
<1> DEFINE q == Other(p, c)
           step == OnEstablishReceived(session[p], c, q, refused)
           w == [wire EXCEPT ![p][c] = Tail(@)]
<1>1. /\ p \in Between[c] /\ end[p][c] = "open" /\ Commits(p, q, step, timer[p], madeBy[q][c]) /\ Sends(p, c, step, w)
      /\ wire[p][c] # <<>> /\ UNCHANGED <<said, mode, run, end, madeBy>>
  BY DEF EstablishReceived, Open
<1>2. q \in Peer /\ mode[p] # "down" /\ end[q][c] # "unused"
  BY <1>1, OtherBack DEF FreshInv, OpenIsCurrent, SaidFirst
<1>3. session[p] \in Session /\ TablesOK(p, session[p]) /\ wire \in [Peer -> [Conn -> Seq({"establish", "depart"})]]
  BY TablesEverywhere DEF Inv, SessionInv, TypeOK
<1>4. Tells(session[p], q, step) /\ TablesOK(p, step.session)
  BY <1>1, <1>3, ReceivedKeeps DEF TellsConnected
<1>5. (\A d \in Conn \ {c} : step.session.channels[d] = session[p].channels[d])
      /\ step.session.departing \subseteq session[p].departing
  BY <1>2, <1>3, ReceivedTouchesOne, HandlersMark
<1>6. session'[p] = step.session /\ \A x \in Peer \ {p} : session'[x] = session[x]
  BY <1>1, <1>2, CommitsIs
<1>7. \A x \in Peer, d \in Conn : x \in Between[d] /\ wire'[x][d] # <<>> => wire[x][d] # <<>> \/ end[Other(x, d)][d] # "unused"
  <2>1. w \in [Peer -> [Conn -> Seq({"establish", "depart"})]]
    <3>1. Tail(wire[p][c]) \in Seq({"establish", "depart"})
      BY <1>1, <1>3
    <3>2. [wire[p] EXCEPT ![c] = Tail(@)] \in [Conn -> Seq({"establish", "depart"})]
      BY <1>3, <3>1
    <3> QED
      BY <1>3, <3>2
  <2>2. \A x \in Peer, d \in Conn : w[x][d] # <<>> => wire[x][d] # <<>>
    BY <1>1, <1>3
  <2> HIDE DEF w
  <2>3. \A x \in Peer, d \in Conn : x \in Between[d] /\ wire'[x][d] # <<>> => w[x][d] # <<>> \/ end[Other(x, d)][d] # "unused"
    BY <1>1, <2>1, SendsFirst
  <2> QED
    BY <2>2, <2>3
<1> HIDE DEF step
<1>8. HeardIsMade'
  <2>1. \A d \in Conn : step.session.channels[d] = "established" /\ session[p].channels[d] # "established" => d = c
    BY <1>5
  <2> QED
    BY <1>1, <1>2, <1>4, <2>1, HeardKept DEF HeardIsMade
<1> HIDE DEF q, w
<1>9. SaidIsHeard'
  BY <1>1, <1>2, <1>4, <1>5, SaidKept DEF FreshInv
<1>10. SaidFirst'
  <2>1. \A x \in Peer, d \in Conn : x \in Between[d] /\ session'[x].channels[d] = "established" =>
          session[x].channels[d] = "established" \/ end[Other(x, d)][d] # "unused"
    BY <1>2, <1>5, <1>6 DEF q
  <2> QED
    BY <1>1, <1>7, <2>1, SaidFirstKept DEF FreshInv
<1>11. EntriesOpen'
  BY <1>1, <1>5, <1>6 DEF FreshInv, EntriesOpen
<1>12. OpenIsCurrent' /\ OneRun'
  BY <1>1, ClosingKeeps DEF FreshInv, OpenIsCurrent
<1> QED
  BY <1>8, <1>9, <1>10, <1>11, <1>12 DEF FreshInv

LEMMA DepartFresh ==
  ASSUME Inv, FreshInv, NEW p \in Peer, NEW c \in Conn, DepartReceived(p, c)
  PROVE  FreshInv'
<1> DEFINE q == Other(p, c)
           s == session[p]
           step == OnDepartReceived(s, c, q)
<1>1. /\ p \in Between[c] /\ end[p][c] = "open" /\ Commits(p, q, step, timer[p], 0)
      /\ wire[p][c] # <<>> /\ wire' = [wire EXCEPT ![p][c] = Tail(@)]
      /\ said' = IF s.channels[c] = "established" /\ q \in s.peers THEN [said EXCEPT ![p][q] = madeBy[q][c]] ELSE said
      /\ UNCHANGED <<mode, run, end, madeBy>>
  BY DEF DepartReceived, Open
<1>2. q \in Peer
  BY <1>1, OtherBack
<1>3. s \in Session /\ TablesOK(p, s) /\ said \in [Peer -> [Peer -> Nat]]
  BY TablesEverywhere DEF Inv, SessionInv, TypeOK
<1>4. Tells(s, q, step) /\ TablesOK(p, step.session)
  BY <1>1, <1>3, DepartKeeps DEF TellsConnected
<1>5. \A d \in Conn : step.session.channels[d] = s.channels[d]
  BY <1>2, <1>3 DEF OnDepartReceived, Without, Quiet, Step, Session
<1>6. session'[p] = step.session /\ \A x \in Peer \ {p} : session'[x] = session[x]
  BY <1>1, <1>2, CommitsIs
<1>7. HeardIsMade'
  BY <1>1, <1>2, <1>4, <1>5, HeardKept DEF HeardIsMade
<1>8. SaidIsHeard'
  <2>1. CASE s.channels[c] = "established" /\ q \in s.peers
    <3>1. c \in s.links[q] /\ s.links[q] # {}
      BY <1>1, <1>2, <1>3, <2>1 DEF TablesOK
    <3>2. step.session = [s EXCEPT !.departing = @ \cup {q}] /\ step.change = "none"
      BY <2>1, <3>1 DEF OnDepartReceived, Quiet, Step
    <3>3. step.session.departing = s.departing \cup {q}
      BY <1>3, <3>2 DEF Session
    <3>4. heard[p][q] = madeBy[q][c]
      BY <1>2, <3>1 DEF FreshInv, HeardIsMade
    <3>5. \A x, y \in Peer : heard'[x][y] = heard[x][y]
      BY <1>1, <1>2, <3>2, CommitsIs DEF HeardAfter
    <3>6. \A x, y \in Peer : said'[x][y] = IF x = p /\ y = q THEN madeBy[q][c] ELSE said[x][y]
      BY <1>1, <1>2, <1>3, <2>1
    <3> HIDE DEF q, s, step
    <3> SUFFICES ASSUME NEW x \in Peer, NEW y \in Peer, y \in session'[x].departing
                 PROVE  said'[x][y] = heard'[x][y]
      BY DEF SaidIsHeard
    <3>7. CASE x = p /\ y = q
      BY <3>4, <3>5, <3>6, <3>7
    <3>8. CASE ~(x = p /\ y = q)
      <4>1. y \in session[x].departing
        BY <1>6, <3>3, <3>8 DEF s
      <4> QED
        BY <3>5, <3>6, <3>8, <4>1 DEF FreshInv, SaidIsHeard
    <3> QED
      BY <3>7, <3>8
  <2>2. CASE ~(s.channels[c] = "established" /\ q \in s.peers)
    <3>1. step.session = s /\ said' = said
      BY <1>1, <2>2 DEF OnDepartReceived, Quiet, Step
    <3> QED
      BY <1>1, <1>2, <1>4, <3>1, SaidKept DEF FreshInv
  <2> QED
    BY <2>1, <2>2
<1> HIDE DEF step, q, s
<1>9. SaidFirst'
  <2>1. \A x \in Peer, d \in Conn : wire'[x][d] # <<>> => wire[x][d] # <<>>
    BY <1>1 DEF Inv, TypeOK
  <2>2. \A x \in Peer, d \in Conn : session'[x].channels[d] = "established" => session[x].channels[d] = "established"
    BY <1>5, <1>6 DEF s
  <2> QED
    BY <1>1, <2>1, <2>2, SaidFirstKept DEF FreshInv
<1>10. EntriesOpen'
  BY <1>1, <1>5, <1>6 DEF FreshInv, EntriesOpen, s
<1>11. OpenIsCurrent' /\ OneRun'
  BY <1>1, ClosingKeeps DEF FreshInv, OpenIsCurrent
<1> QED
  BY <1>7, <1>8, <1>9, <1>10, <1>11 DEF FreshInv

LEMMA RemovedFresh ==
  ASSUME Inv, FreshInv, NEW p \in Peer, NEW c \in Conn, ChannelRemoved(p, c)
  PROVE  FreshInv'
<1> DEFINE q == Other(p, c)
           step == OnChannelRemoved(session[p], c, q)
<1>1. /\ p \in Between[c] /\ end[p][c] = "open" /\ Commits(p, q, step, timer[p], 0)
      /\ end' = [end EXCEPT ![p][c] = "closed"] /\ wire' = [wire EXCEPT ![p][c] = <<>>]
      /\ UNCHANGED <<said, mode, run, madeBy>>
  BY DEF ChannelRemoved, Open
<1>2. q \in Peer
  BY <1>1, OtherBack
<1>3. session[p] \in Session /\ TablesOK(p, session[p])
  BY TablesEverywhere DEF Inv, SessionInv, TypeOK
<1>4. Tells(session[p], q, step) /\ TablesOK(p, step.session)
  BY <1>1, <1>3, RemovedKeeps DEF TellsConnected
<1>5. /\ step.session.channels[c] = "none" /\ \A d \in Conn \ {c} : step.session.channels[d] = session[p].channels[d]
      /\ step.session.departing \subseteq session[p].departing
  BY <1>3 DEF OnChannelRemoved, Without, Quiet, Step, Session
<1>6. session'[p] = step.session /\ \A x \in Peer \ {p} : session'[x] = session[x]
  BY <1>1, <1>2, CommitsIs
<1>7. end'[p][c] = "closed" /\ \A x \in Peer, d \in Conn : x # p \/ d # c => end'[x][d] = end[x][d]
  BY <1>1 DEF Inv, TypeOK
<1>8. \A x \in Peer, d \in Conn : /\ end'[x][d] = "open" => end[x][d] = "open"
                                  /\ end[x][d] # "unused" <=> end'[x][d] # "unused"
  BY <1>1, <1>7
<1> HIDE DEF step, q
<1>9. HeardIsMade'
  BY <1>1, <1>2, <1>4, <1>5, HeardKept DEF HeardIsMade
<1>10. SaidIsHeard'
  BY <1>1, <1>2, <1>4, <1>5, SaidKept DEF FreshInv
<1>11. SaidFirst'
  <2>1. \A x \in Peer, d \in Conn : wire'[x][d] # <<>> => wire[x][d] # <<>>
    BY <1>1 DEF Inv, TypeOK
  <2>2. \A x \in Peer, d \in Conn : session'[x].channels[d] = "established" => session[x].channels[d] = "established"
    BY <1>5, <1>6
  <2> QED
    BY <1>8, <2>1, <2>2, SaidFirstKept DEF FreshInv
<1>12. EntriesOpen'
  BY <1>1, <1>5, <1>6, <1>7 DEF FreshInv, EntriesOpen
<1>13. OpenIsCurrent' /\ OneRun'
  BY <1>1, <1>8, ClosingKeeps DEF FreshInv, OpenIsCurrent
<1> QED
  BY <1>9, <1>10, <1>11, <1>12, <1>13 DEF FreshInv

LEMMA TimerFresh ==
  ASSUME Inv, FreshInv, NEW p \in Peer, NEW q \in Peer, DepartureTimerExpired(p, q)
  PROVE  FreshInv'
<1> DEFINE step == OnDepartureTimerExpired(session[p], q)
<1>1. Commits(p, q, step, timer[p] \ {q}, 0) /\ UNCHANGED <<said, mode, run, end, madeBy, wire>>
  BY DEF DepartureTimerExpired, transport
<1>2. session[p] \in Session /\ TablesOK(p, session[p])
  BY TablesEverywhere DEF Inv, SessionInv, TypeOK
<1>3. Tells(session[p], q, step) /\ TablesOK(p, step.session)
  BY <1>2, TimerKeeps
<1>4. /\ \A d \in Conn : step.session.channels[d] = session[p].channels[d]
      /\ step.session.departing \subseteq session[p].departing
  BY <1>2 DEF OnDepartureTimerExpired, Without, Quiet, Step, Session
<1>5. session'[p] = step.session /\ \A x \in Peer \ {p} : session'[x] = session[x]
  BY <1>1, CommitsIs
<1> HIDE DEF step
<1>6. HeardIsMade'
  BY <1>1, <1>3, <1>4, HeardKept DEF HeardIsMade
<1>7. SaidIsHeard'
  BY <1>1, <1>3, <1>4, SaidKept DEF FreshInv
<1>8. SaidFirst'
  BY <1>1, <1>4, <1>5, SaidFirstKept DEF FreshInv
<1>9. EntriesOpen' /\ OpenIsCurrent' /\ OneRun'
  BY <1>1, <1>4, <1>5, ClosingKeeps DEF FreshInv, EntriesOpen, OpenIsCurrent
<1> QED
  BY <1>6, <1>7, <1>8, <1>9 DEF FreshInv

LEMMA ShutdownFresh ==
  ASSUME Inv, FreshInv, NEW p \in Peer, Shutdown(p)
  PROVE  FreshInv'
<1>1. /\ mode[p] = "up" /\ mode' = [mode EXCEPT ![p] = "stopping"] /\ wire' = Departs(p)
      /\ UNCHANGED <<session, heard, said, run, end, madeBy>>
  BY DEF Shutdown, programs
<1>2. \A x \in Peer : mode'[x] = "down" <=> mode[x] = "down"
  BY <1>1 DEF Inv, TypeOK
<1>3. SaidFirst'
  <2>1. ASSUME NEW x \in Peer, NEW d \in Conn, x \in Between[d], wire'[x][d] # <<>>, wire[x][d] = <<>>
        PROVE  end[Other(x, d)][d] # "unused"
    <3>1. Between[d] = {p, x} /\ p # x /\ d \in session[p].links[x]
      BY <1>1, <2>1 DEF Departs
    <3>2. session[p].channels[d] = "established" /\ Other(x, d) = p
      BY <2>1, <3>1, OtherBack DEF Inv, SessionInv, LinksMatchChannels
    <3>3. end[p][d] = "open"
      BY <1>1, <3>2 DEF FreshInv, EntriesOpen
    <3> QED
      BY <3>2, <3>3
  <2> QED
    BY <1>1, <2>1, SaidFirstKept DEF FreshInv
<1>4. EntriesOpen' /\ OpenIsCurrent' /\ OneRun'
  BY <1>1, <1>2, ClosingKeeps DEF FreshInv, EntriesOpen, OpenIsCurrent
<1>5. HeardIsMade' /\ SaidIsHeard'
  BY <1>1 DEF FreshInv, HeardIsMade, SaidIsHeard
<1> QED
  BY <1>3, <1>4, <1>5 DEF FreshInv

\* Programs built anew have heard of nobody, and nobody of what they open later.
LEMMA AnewFresh ==
  ASSUME Inv, FreshInv, NEW p \in Peer, session' = [session EXCEPT ![p] = initSession],
         heard' = [heard EXCEPT ![p] = [q \in Peer |-> 0]], said' = [said EXCEPT ![p] = [q \in Peer |-> 0]],
         madeBy' = madeBy,
         \A x \in Peer, d \in Conn : /\ end'[x][d] = "open" => end[x][d] = "open"
                                     /\ end[x][d] # "unused" <=> end'[x][d] # "unused"
                                     /\ wire'[x][d] # <<>> => wire[x][d] # <<>>
  PROVE  SaidFirst' /\ OneRun' /\ HeardIsMade' /\ SaidIsHeard'
<1>1. session'[p] = initSession /\ \A x \in Peer \ {p} : session'[x] = session[x] /\ heard'[x] = heard[x] /\ said'[x] = said[x]
  BY DEF Inv, TypeOK
<1>2. /\ \A d \in Conn : initSession.channels[d] = "none"
      /\ \A y \in Peer : initSession.links[y] = {} /\ y \notin initSession.departing
  BY DEF initSession
<1>3. SaidFirst'
  <2>1. \A x \in Peer, d \in Conn : session'[x].channels[d] = "established" => session[x].channels[d] = "established"
    BY <1>1, <1>2
  <2> QED
    BY <2>1, SaidFirstKept DEF FreshInv
<1>4. OneRun'
  BY ClosingKeeps DEF FreshInv
<1>5. HeardIsMade' /\ SaidIsHeard'
  BY <1>1, <1>2 DEF FreshInv, HeardIsMade, SaidIsHeard
<1> QED
  BY <1>3, <1>4, <1>5

LEMMA TeardownFresh ==
  ASSUME Inv, FreshInv, NEW p \in Peer, Teardown(p)
  PROVE  FreshInv'
<1>1. /\ session' = [session EXCEPT ![p] = initSession]
      /\ heard' = [heard EXCEPT ![p] = [q \in Peer |-> 0]] /\ said' = [said EXCEPT ![p] = [q \in Peer |-> 0]]
      /\ mode[p] = "stopping" /\ mode' = [mode EXCEPT ![p] = "closing"] /\ UNCHANGED <<run, end, madeBy, wire>>
  BY DEF Teardown, Rebuilds, transport
<1>2. \A x \in Peer : mode'[x] = "down" <=> mode[x] = "down"
  BY <1>1 DEF Inv, TypeOK
<1>3. SaidFirst' /\ OneRun' /\ HeardIsMade' /\ SaidIsHeard'
  BY <1>1, AnewFresh
<1>4. OpenIsCurrent'
  BY <1>1, <1>2 DEF FreshInv, OpenIsCurrent
<1>5. EntriesOpen'
  BY <1>1, <1>2 DEF FreshInv, EntriesOpen, initSession, Inv, TypeOK
<1> QED
  BY <1>3, <1>4, <1>5 DEF FreshInv

\* All ends of p close, and no end else.
LEMMA ClosesEnds ==
  ASSUME Inv, NEW p \in Peer, Closes(p)
  PROVE  /\ mode'[p] = "down" /\ \A x \in Peer \ {p} : mode'[x] = mode[x]
         /\ \A d \in Conn : end'[p][d] # "open"
         /\ \A x \in Peer \ {p} : end'[x] = end[x]
         /\ \A x \in Peer, d \in Conn : /\ end'[x][d] = "open" => end[x][d] = "open"
                                        /\ end[x][d] # "unused" <=> end'[x][d] # "unused"
                                        /\ wire'[x][d] # <<>> => wire[x][d] # <<>>
<1>1. mode'[p] = "down" /\ \A x \in Peer \ {p} : mode'[x] = mode[x] /\ end'[x] = end[x] /\ wire'[x] = wire[x]
  BY DEF Closes, Inv, TypeOK
<1>2. \A d \in Conn : end'[p][d] = IF end[p][d] = "open" THEN "closed" ELSE end[p][d]
  BY DEF Closes, Inv, TypeOK
<1>3. \A d \in Conn : wire'[p][d] = IF end[p][d] = "open" THEN <<>> ELSE wire[p][d]
  BY DEF Closes, Inv, TypeOK
<1> QED
  BY <1>1, <1>2, <1>3

LEMMA StopFresh ==
  ASSUME Inv, FreshInv, NEW p \in Peer, Stop(p)
  PROVE  FreshInv'
<1>1. Closes(p) /\ UNCHANGED <<session, heard, said, run, madeBy>>
  BY DEF Stop, programs
<1>2. SaidFirst'
  BY <1>1, ClosesEnds, SaidFirstKept DEF FreshInv
<1>3. OneRun'
  BY <1>1, ClosesEnds, ClosingKeeps DEF FreshInv
<1>4. HeardIsMade' /\ SaidIsHeard'
  BY <1>1 DEF FreshInv, HeardIsMade, SaidIsHeard
<1>5. OpenIsCurrent'
  BY <1>1, ClosesEnds DEF FreshInv, OpenIsCurrent
<1>6. EntriesOpen'
  BY <1>1, ClosesEnds DEF FreshInv, EntriesOpen
<1> QED
  BY <1>2, <1>3, <1>4, <1>5, <1>6 DEF FreshInv

LEMMA ResetFresh ==
  ASSUME Inv, FreshInv, NEW p \in Peer, Reset(p)
  PROVE  FreshInv'
<1>1. /\ session' = [session EXCEPT ![p] = initSession]
      /\ heard' = [heard EXCEPT ![p] = [q \in Peer |-> 0]] /\ said' = [said EXCEPT ![p] = [q \in Peer |-> 0]]
      /\ Closes(p) /\ UNCHANGED <<run, madeBy>>
  BY DEF Reset, Rebuilds
<1>2. SaidFirst' /\ OneRun' /\ HeardIsMade' /\ SaidIsHeard'
  BY <1>1, ClosesEnds, AnewFresh
<1>3. OpenIsCurrent'
  BY <1>1, ClosesEnds DEF FreshInv, OpenIsCurrent
<1>4. EntriesOpen'
  <2>1. mode'[p] = "down" /\ \A x \in Peer \ {p} : mode'[x] = mode[x] /\ end'[x] = end[x]
    BY <1>1, ClosesEnds
  <2>2. \A x \in Peer \ {p} : session'[x] = session[x]
    BY <1>1 DEF Inv, TypeOK
  <2> QED
    BY <2>1, <2>2 DEF FreshInv, EntriesOpen
<1> QED
  BY <1>2, <1>3, <1>4 DEF FreshInv

LEMMA RestartFresh ==
  ASSUME Inv, FreshInv, NEW p \in Peer, Restart(p)
  PROVE  FreshInv'
<1>1. /\ session' = [session EXCEPT ![p] = initSession]
      /\ heard' = [heard EXCEPT ![p] = [q \in Peer |-> 0]] /\ said' = [said EXCEPT ![p] = [q \in Peer |-> 0]]
      /\ mode[p] = "down" /\ mode' = [mode EXCEPT ![p] = "up"] /\ run' = [run EXCEPT ![p] = @ + 1]
      /\ UNCHANGED <<end, madeBy, wire>>
  BY DEF Restart, transport
<1>2. SaidFirst' /\ OneRun' /\ HeardIsMade' /\ SaidIsHeard'
  BY <1>1, AnewFresh
<1>3. \A d \in Conn : end[p][d] # "open"
  BY <1>1 DEF FreshInv, OpenIsCurrent
<1>4. \A x \in Peer \ {p} : mode'[x] = mode[x] /\ run'[x] = run[x] /\ session'[x] = session[x]
  BY <1>1 DEF Inv, TypeOK
<1>5. OpenIsCurrent'
  BY <1>1, <1>3, <1>4 DEF FreshInv, OpenIsCurrent
<1>6. EntriesOpen'
  BY <1>1, <1>4 DEF FreshInv, EntriesOpen, initSession, Inv, TypeOK
<1> QED
  BY <1>2, <1>5, <1>6 DEF FreshInv

LEMMA NextFresh ==
  ASSUME ~Overlaps, Inv, FreshInv, Inv', [Next]_vars
  PROVE  FreshInv'
<1>1. CASE UNCHANGED vars
  BY <1>1 DEF vars, programs, transport, FreshInv, OpenIsCurrent, EntriesOpen, SaidFirst, OneRun, HeardIsMade, SaidIsHeard
<1>2. CASE \E p \in Peer, c \in Conn :
             \/ ChannelAdded(p, c) \/ ChannelEstablish(p, c)
             \/ \E refused \in BOOLEAN : EstablishReceived(p, c, refused)
             \/ DepartReceived(p, c) \/ ChannelRemoved(p, c)
  BY <1>2, AddedFresh, EstablishFresh, ReceivedFresh, DepartFresh, RemovedFresh
<1>3. CASE \E p, q \in Peer : DepartureTimerExpired(p, q)
  BY <1>3, TimerFresh
<1>4. CASE \E p \in Peer : Shutdown(p) \/ Teardown(p) \/ Stop(p) \/ Reset(p) \/ Restart(p)
  BY <1>4, ShutdownFresh, TeardownFresh, StopFresh, ResetFresh, RestartFresh
<1> QED
  BY <1>1, <1>2, <1>3, <1>4 DEF Next

\* Where a peer opens a channel only once the other has noticed that the earlier ones are closed, what is believed of a peer
\* with a live channel dates from its present run: what the sync program has heard of it, and whether it departs.
THEOREM FreshCorrect == ASSUME ~Overlaps PROVE Spec => [](FreshPeer /\ DepartingIsCurrent)
<1>1. Init => FreshInv
  BY DEF Init, initSession, FreshInv, OpenIsCurrent, EntriesOpen, SaidFirst, OneRun, HeardIsMade, SaidIsHeard
<1>2. Inv /\ Inv' /\ FreshInv /\ [Next]_vars => FreshInv'
  BY NextFresh
<1>3. ASSUME FreshInv PROVE FreshPeer /\ DepartingIsCurrent
  <2> SUFFICES ASSUME NEW p \in Peer, NEW q \in Peer, NEW c \in Conn, Live(p, q, c)
               PROVE  heard[p][q] = run[q] /\ (q \in session[p].departing => said[p][q] = run[q])
    BY DEF FreshPeer, DepartingIsCurrent
  <2>1. heard[p][q] = madeBy[q][c] /\ madeBy[q][c] = run[q]
    BY <1>3 DEF FreshInv, HeardIsMade, OpenIsCurrent, Live
  <2> QED
    BY <1>3, <2>1 DEF FreshInv, SaidIsHeard
<1> QED
  BY <1>1, <1>2, <1>3, InvCorrect, PTL DEF Spec
=============================================================================
