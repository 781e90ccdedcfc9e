------------------------------ MODULE Session ------------------------------
(***************************************************************************)
(* Exchanges that open channels to each other, each running the session    *)
(* program, and the Synchronizer that executes its effects: departure      *)
(* timers, the sync program's table of peers and the feed of peers.        *)
(* Messages on a channel arrive in order and a closed channel loses what   *)
(* is still under way to the closed end.  The two ends of a channel learn  *)
(* that it is gone at different times.                                     *)
(*                                                                         *)
(* One input, the effects it causes and the tick that follows are one      *)
(* step: the outer dispatcher runs them in one synchronous drain.  A       *)
(* process that restarts keeps its seat and builds its programs anew: that *)
(* is its next run.                                                        *)
(***************************************************************************)
EXTENDS SessionProgram, Sequences

CONSTANTS
  Between,  \* the two peers a channel joins
  MaxRuns,  \* bound: how often a peer builds its programs
  Mortal,   \* bound: the peers that shut down, reset or die
  Overlaps, \* may a peer open a channel before the other has noticed an earlier one closed?
  Fickle    \* may the canConnect policy refuse?

ASSUME NetworkAssumption ==
  /\ Between \in [Conn -> SUBSET Peer]
  /\ \A c \in Conn : \E p, q \in Peer : p # q /\ Between[c] = {p, q}
  /\ MaxRuns \in Nat
  /\ Mortal \subseteq Peer
  /\ {Overlaps, Fickle} \subseteq BOOLEAN

VARIABLES
  session,  \* the session program's model
  timer,    \* peers with a departure timer
  tracked,  \* the peers the sync program has
  heard,    \* the run the sync program last heard of as available, 0 for none
  said,     \* the run of each peer that last sent depart
  feed,     \* the feed of peers, folded from its changes
  mode,     \* where the Exchange stands
  run,      \* how often it has built its programs
  end,      \* each end of each channel, as its transport sees it
  madeBy,   \* the run that opened the end
  wire      \* messages on their way to that end

programs  == <<session, timer, tracked, heard, feed>>
transport == <<end, madeBy, wire>>
vars      == <<programs, said, mode, run, transport>>

Modes == {"up", "stopping", "closing", "down"}
Ends  == {"unused", "open", "closed"}
Known == {"absent", "connected", "disconnected", "broken"}

TypeOK ==
  /\ session \in [Peer -> Session]
  /\ timer \in [Peer -> SUBSET Peer]
  /\ tracked \in [Peer -> SUBSET Peer]
  /\ heard \in [Peer -> [Peer -> Nat]]
  /\ said \in [Peer -> [Peer -> Nat]]
  /\ feed \in [Peer -> [Peer -> Known]]
  /\ mode \in [Peer -> Modes]
  /\ run \in [Peer -> Nat]
  /\ end \in [Peer -> [Conn -> Ends]]
  /\ madeBy \in [Peer -> [Conn -> Nat]]
  /\ wire \in [Peer -> [Conn -> Seq({"establish", "depart"})]]

Init ==
  /\ session = [p \in Peer |-> initSession]
  /\ timer = [p \in Peer |-> {}]
  /\ tracked = [p \in Peer |-> {}]
  /\ heard = [p \in Peer |-> [q \in Peer |-> 0]]
  /\ said = [p \in Peer |-> [q \in Peer |-> 0]]
  /\ feed = [p \in Peer |-> [q \in Peer |-> "absent"]]
  /\ mode = [p \in Peer |-> "up"]
  /\ run = [p \in Peer |-> 1]
  /\ end = [p \in Peer |-> [c \in Conn |-> "unused"]]
  /\ madeBy = [p \in Peer |-> [c \in Conn |-> 0]]
  /\ wire = [p \in Peer |-> [c \in Conn |-> <<>>]]

Other(p, c) == CHOOSE q \in Between[c] : q # p
Open(p, c)  == p \in Between[c] /\ end[p][c] = "open"

-----------------------------------------------------------------------------
(* The effects of one input.                                               *)

\* What a reader of the feed makes of a change.  A change that cannot follow breaks it.
Fold(known, change) ==
  CASE change = "none" -> known
    [] change = "established" /\ known = "absent" -> "connected"
    [] change = "reconnected" /\ known = "disconnected" -> "connected"
    [] change = "disconnected" /\ known = "connected" -> "disconnected"
    [] change = "departed" /\ known \in {"connected", "disconnected"} -> "absent"
    [] OTHER -> "broken"

TrackedAfter(peers, q, change) ==
  CASE change \in {"established", "reconnected"} -> peers \cup {q}
    [] change = "departed" -> peers \ {q}
    [] OTHER -> peers

\* Faulty variant: a reconnection leaves the departure timer running.
TimerNotCancelled(timers, q, change) ==
  IF change = "disconnected" THEN timers \cup {q} ELSE timers

TimerAfter(timers, q, change) ==
  CASE change = "disconnected" -> timers \cup {q}
    [] change = "reconnected" -> timers \ {q}
    [] OTHER -> timers

\* Faulty variant: only a first establishment tells the sync program of the peer.
HeardOnce(last, change, r) == IF change = "established" THEN r ELSE last

HeardAfter(last, change, r) ==
  IF change \in {"established", "reconnected"} THEN r ELSE last

\* `timers`: those of p that have not fired.  `r`: the run of q the input came from.
Commits(p, q, step, timers, r) ==
  /\ session' = [session EXCEPT ![p] = step.session]
  /\ timer' = [timer EXCEPT ![p] = TimerAfter(timers, q, step.change)]
  /\ tracked' = [tracked EXCEPT ![p] = TrackedAfter(@, q, step.change)]
  /\ heard' = [heard EXCEPT ![p][q] = HeardAfter(@, step.change, r)]
  /\ feed' = [feed EXCEPT ![p][q] = Fold(@, step.change)]

\* Sends an establish on c, if the step says so, unless the other end is gone.
Sends(p, c, step, w) ==
  LET q == Other(p, c)
  IN wire' = IF step.says /\ end[q][c] # "closed"
             THEN [w EXCEPT ![q][c] = Append(@, "establish")] ELSE w

-----------------------------------------------------------------------------
(* Channels.                                                               *)

\* A channel between the ends of c is gone for one of them, and the other has it
\* open or, where it is c itself, is about to.
Stale(c) ==
  \E d \in Conn, p \in Between[c] :
    /\ Between[d] = Between[c]
    /\ end[Other(p, d)][d] = "closed"
    /\ end[p][d] = "open" \/ (d = c /\ end[p][d] = "unused")

ChannelAdded(p, c) ==
  /\ p \in Between[c]
  /\ end[p][c] = "unused"
  /\ mode[p] # "down"
  /\ Overlaps \/ ~Stale(c)
  /\ Commits(p, Other(p, c), OnChannelAdded(session[p], c), timer[p], 0)
  /\ end' = [end EXCEPT ![p][c] = "open"]
  /\ madeBy' = [madeBy EXCEPT ![p][c] = run[p]]
  /\ UNCHANGED <<said, mode, run, wire>>

ChannelEstablish(p, c) ==
  /\ Open(p, c)
  /\ LET step == OnChannelEstablish(session[p], c)
     IN /\ step.says
        /\ Commits(p, Other(p, c), step, timer[p], 0)
        /\ Sends(p, c, step, wire)
  /\ UNCHANGED <<said, mode, run, end, madeBy>>

EstablishReceived(p, c, refused) ==
  /\ Open(p, c)
  /\ wire[p][c] # <<>> /\ Head(wire[p][c]) = "establish"
  /\ refused => Fickle
  /\ LET q == Other(p, c)
         step == OnEstablishReceived(session[p], c, q, refused)
     IN /\ Commits(p, q, step, timer[p], madeBy[q][c])
        /\ Sends(p, c, step, [wire EXCEPT ![p][c] = Tail(@)])
  /\ UNCHANGED <<said, mode, run, end, madeBy>>

DepartReceived(p, c) ==
  /\ Open(p, c)
  /\ wire[p][c] # <<>> /\ Head(wire[p][c]) = "depart"
  /\ LET q == Other(p, c)
     IN /\ Commits(p, q, OnDepartReceived(session[p], c, q), timer[p], 0)
        /\ said' = IF session[p].channels[c] = "established" /\ q \in session[p].peers
                   THEN [said EXCEPT ![p][q] = madeBy[q][c]] ELSE said
  /\ wire' = [wire EXCEPT ![p][c] = Tail(@)]
  /\ UNCHANGED <<mode, run, end, madeBy>>

\* The transport finds the channel gone: it closed this end, or the other did.
ChannelRemoved(p, c) ==
  /\ Open(p, c)
  /\ LET q == Other(p, c)
     IN Commits(p, q, OnChannelRemoved(session[p], c, q), timer[p], 0)
  /\ end' = [end EXCEPT ![p][c] = "closed"]
  /\ wire' = [wire EXCEPT ![p][c] = <<>>]
  /\ UNCHANGED <<said, mode, run, madeBy>>

DepartureTimerExpired(p, q) ==
  /\ q \in timer[p]
  /\ Commits(p, q, OnDepartureTimerExpired(session[p], q), timer[p] \ {q}, 0)
  /\ UNCHANGED <<said, mode, run, transport>>

-----------------------------------------------------------------------------
(* Shutdown, reset, restart.                                               *)

\* Every channel p has established carries a last depart.
Departs(p) ==
  [q \in Peer |-> [c \in Conn |->
     IF Between[c] = {p, q} /\ p # q /\ c \in session[p].links[q] /\ end[q][c] # "closed"
     THEN Append(wire[q][c], "depart") ELSE wire[q][c]]]

\* shutdown(): departs are sent, and the transports flushed.
Shutdown(p) ==
  /\ p \in Mortal
  /\ mode[p] = "up"
  /\ mode' = [mode EXCEPT ![p] = "stopping"]
  /\ wire' = Departs(p)
  /\ UNCHANGED <<programs, said, run, end, madeBy>>

\* The programs are built anew, every peer known departs from the feed.
Rebuilds(p) ==
  /\ session' = [session EXCEPT ![p] = initSession]
  /\ timer' = [timer EXCEPT ![p] = {}]
  /\ tracked' = [tracked EXCEPT ![p] = {}]
  /\ heard' = [heard EXCEPT ![p] = [q \in Peer |-> 0]]
  /\ feed' = [feed EXCEPT ![p] = [q \in Peer |->
                IF q \in session[p].peers THEN Fold(@[q], "departed") ELSE @[q]]]
  /\ said' = [said EXCEPT ![p] = [q \in Peer |-> 0]]

\* Flushed: the programs are rebuilt, and the transports are about to stop, one by one.
Teardown(p) ==
  /\ mode[p] = "stopping"
  /\ Rebuilds(p)
  /\ mode' = [mode EXCEPT ![p] = "closing"]
  /\ UNCHANGED <<run, transport>>

\* Every end still open closes, with no word to the session program: a transport that
\* has one, says it while it stops (ChannelRemoved).
Closes(p) ==
  /\ end' = [end EXCEPT ![p] = [c \in Conn |-> IF @[c] = "open" THEN "closed" ELSE @[c]]]
  /\ wire' = [wire EXCEPT ![p] = [c \in Conn |-> IF end[p][c] = "open" THEN <<>> ELSE @[c]]]
  /\ mode' = [mode EXCEPT ![p] = "down"]

\* The last transport has stopped.
Stop(p) ==
  /\ mode[p] = "closing"
  /\ Closes(p)
  /\ UNCHANGED <<programs, said, run, madeBy>>

\* reset(), and a process that dies.
Reset(p) ==
  /\ p \in Mortal
  /\ mode[p] # "down"
  /\ Rebuilds(p)
  /\ Closes(p)
  /\ UNCHANGED <<run, madeBy>>

Restart(p) ==
  /\ mode[p] = "down"
  /\ run[p] < MaxRuns
  /\ run' = [run EXCEPT ![p] = @ + 1]
  /\ mode' = [mode EXCEPT ![p] = "up"]
  /\ session' = [session EXCEPT ![p] = initSession]
  /\ timer' = [timer EXCEPT ![p] = {}]
  /\ tracked' = [tracked EXCEPT ![p] = {}]
  /\ heard' = [heard EXCEPT ![p] = [q \in Peer |-> 0]]
  /\ feed' = [feed EXCEPT ![p] = [q \in Peer |-> "absent"]]
  /\ said' = [said EXCEPT ![p] = [q \in Peer |-> 0]]
  /\ UNCHANGED transport

Next ==
  \/ \E p \in Peer, c \in Conn :
       \/ ChannelAdded(p, c)
       \/ ChannelEstablish(p, c)
       \/ \E refused \in BOOLEAN : EstablishReceived(p, c, refused)
       \/ DepartReceived(p, c)
       \/ ChannelRemoved(p, c)
  \/ \E p, q \in Peer : DepartureTimerExpired(p, q)
  \/ \E p \in Peer : \/ Shutdown(p)
                     \/ Teardown(p)
                     \/ Stop(p)
                     \/ Reset(p)
                     \/ Restart(p)

(***************************************************************************)
(* Fairness.  A transport always gets round to each of its channels: it    *)
(* delivers what the channel carries, establishes the channels it adds and *)
(* comes to know of one that is opened or closed at the other end.  Timers *)
(* fire, and a shutdown runs on.                                           *)
(***************************************************************************)
Served(p, c) ==
  \/ ChannelAdded(p, c) /\ end[Other(p, c)][c] = "open"
  \/ ChannelRemoved(p, c) /\ end[Other(p, c)][c] = "closed"
  \/ ChannelEstablish(p, c)
  \/ EstablishReceived(p, c, FALSE)
  \/ DepartReceived(p, c)

Fairness ==
  /\ \A p \in Peer : WF_vars(\E c \in Conn : Served(p, c))
  /\ \A p \in Peer : WF_vars(\E q \in Peer : DepartureTimerExpired(p, q))
  /\ \A p \in Peer : WF_vars(Teardown(p) \/ Stop(p))

Spec == Init /\ [][Next]_vars /\ Fairness

-----------------------------------------------------------------------------
(* Properties.                                                             *)

(***************************************************************************)
(* The two tables of the session agree: a peer's channels are exactly the  *)
(* channels established with it, so a message addressed to the peer goes   *)
(* out on all of them and on no other (#sendToPeer), and only a known peer *)
(* is departing.                                                           *)
(***************************************************************************)
LinksMatchChannels ==
  \A p, q \in Peer :
    /\ session[p].links[q] = {c \in Conn : /\ session[p].channels[c] = "established"
                                           /\ p \in Between[c] /\ q = Other(p, c)}
    /\ session[p].links[q] # {} => q \in session[p].peers
    /\ q \in session[p].departing => q \in session[p].peers /\ session[p].links[q] # {}

\* A departure timer runs for a peer exactly while it is known and has no channel:
\* no peer stays disconnected for ever, and no timer is left over from an earlier loss.
TimerWhileDisconnected ==
  \A p \in Peer :
    /\ timer[p] = {q \in Peer : Status(session[p], q) = "disconnected"}
    /\ ~Grace => timer[p] = {}

\* The sync program, which hears of peers only by events, knows the same peers.
SyncFollowsSession == \A p \in Peer : tracked[p] = session[p].peers

\* Whoever reads the feed of peers change by change has the session's picture of
\* each peer, and no change ever comes out of order.
FeedFollowsSession == \A p, q \in Peer : feed[p][q] = Status(session[p], q)

SessionInv ==
  /\ LinksMatchChannels
  /\ TimerWhileDisconnected
  /\ SyncFollowsSession
  /\ FeedFollowsSession

\* A live channel of p to q: both ends open, and established at p.
Live(p, q, c) == c \in session[p].links[q] /\ end[q][c] = "open"

\* What the sync program knows of a peer it has a live channel to, it learned since
\* that peer last started: it forgets what a peer held when the peer reconnects.
FreshPeer == \A p, q \in Peer, c \in Conn : Live(p, q, c) => heard[p][q] = run[q]

\* A peer with a live channel is departing only if it said so since it last started.
DepartingIsCurrent ==
  \A p, q \in Peer, c \in Conn :
    Live(p, q, c) /\ q \in session[p].departing => said[p][q] = run[q]

\* A channel open at both ends is established at both, or one end closes.
OpenEstablishes ==
  \A c \in Conn :
    (\A p \in Between[c] : end[p][c] = "open" /\ mode[p] = "up")
      ~> \/ \A p \in Between[c] : session[p].channels[c] = "established"
         \/ \E p \in Between[c] : end[p][c] = "closed" \/ mode[p] # "up"

\* A peer that went down for good is forgotten, whether or not it said so.
GoneIsForgotten ==
  \A p, q \in Peer :
    (mode[q] = "down" /\ mode[p] = "up" /\ p # q)
      ~> (q \notin session[p].peers \/ mode[q] # "down" \/ mode[p] # "up")
=============================================================================
