----------------------------- MODULE Connection -----------------------------
(***************************************************************************)
(* One websocket client and the server it connects to: the client program  *)
(* and its shell (client-transport.ts), the server's connections           *)
(* (server-transport.ts, connection.ts), and what both pipelines do to the *)
(* messages on the way: aliases of documents (alias-table.ts) and          *)
(* fragments (fragment-collector.ts).  A socket carries frames in order    *)
(* until it fails, and each end learns of the failure by itself.  The      *)
(* client keeps one pipeline for all its sockets; the server has one each. *)
(***************************************************************************)
EXTENDS ClientProgram, Sequences, FiniteSets

CONSTANTS
  Doc,          \* documents the ends announce and use
  MaxSockets,   \* sockets the client opens
  MaxFaults,    \* sockets that fail
  MaxSends,     \* messages sent once both ends are established
  MaxTimeouts,  \* partial messages given up
  Named         \* the application passes handleConnection the client's peer id

ASSUME ConnectionAssumption ==
  {MaxSockets, MaxFaults, MaxSends, MaxTimeouts} \subseteq Nat /\ Named \in BOOLEAN

VARIABLES
  model,        \* the client program's state
  socket,       \* the client's current socket, 0 if none
  channel,      \* the socket its channel was added for, 0 if none
  keepalive, timer,
  ends,         \* both ends of every socket
  frames,       \* frames on the way, by socket and receiving end
  served,       \* sockets whose connection the server has registered, with a channel
  pipe,         \* the client's pipeline, and the server's for every socket
  misread,      \* sockets on which a message was taken for another
  broken,       \* sockets on which a partial message was given up
  faults, sends, timeouts, stopped

client == <<model, socket, channel, keepalive, timer>>
counters == <<faults, sends, timeouts>>
vars == <<model, socket, channel, keepalive, timer, ends, frames, served, pipe, misread, broken, faults, sends, timeouts, stopped>>

Socket == 1 .. MaxSockets

-----------------------------------------------------------------------------
(* Pipelines. *)

EmptyPipe == [out |-> <<>>, in |-> <<>>, self |-> FALSE, peer |-> FALSE, seq |-> 1, batch |-> {}]

Frame(t, doc, alias, seq, part) == [t |-> t, doc |-> doc, alias |-> alias, seq |-> seq, part |-> part]
Ready == Frame("ready", "none", 0, 0, 0)
Establish(p) == Frame("establish", "none", 0, p.seq, 0)

\* The alias of a document is the order in which it was first announced.
AliasIn(p, d) == IF \E k \in DOMAIN p.out : p.out[k] = d THEN CHOOSE k \in DOMAIN p.out : p.out[k] = d ELSE 0

Announced(p, d) == IF AliasIn(p, d) = 0 THEN [p EXCEPT !.out = Append(@, d), !.seq = @ + 1] ELSE [p EXCEPT !.seq = @ + 1]

\* A present, in one frame or in two fragments.
Announcement(p, d, big) ==
  LET a == AliasIn(Announced(p, d), d)
  IN  IF big THEN <<Frame("announce", d, a, p.seq, 1), Frame("announce", d, a, p.seq, 2)>>
             ELSE <<Frame("announce", d, a, p.seq, 0)>>

\* Any other message names its document by its alias if it has one and both ends know aliases.
Use(p, d) == Frame("use", d, IF p.self /\ p.peer THEN AliasIn(p, d) ELSE 0, p.seq, 0)

Learns(p, f) == [p EXCEPT !.in = [a \in DOMAIN @ \cup {f.alias} |-> IF a = f.alias THEN f.doc ELSE @[a]]]

Understands(p, f) == f.t = "use" /\ f.alias # 0 => f.alias \in DOMAIN p.in /\ p.in[f.alias] = f.doc

\* A frame reaches the pipeline: fragments wait for each other by sequence number.
Received(p, f) ==
  LET mates   == {g \in p.batch : g.seq = f.seq}
      waits   == f.part # 0 /\ mates = {}
      repeats == f.part # 0 /\ \E g \in mates : g.part = f.part
  IN
  CASE waits -> [p EXCEPT !.batch = @ \cup {f}]
    [] f.t = "announce" /\ ~waits /\ ~repeats -> Learns([p EXCEPT !.batch = @ \ mates], f)
    [] f.t = "establish" /\ ~waits -> [p EXCEPT !.peer = TRUE]
    [] OTHER -> p

\* What the receiver makes of it is not what was sent: another document, or halves of two messages.
Misreads(p, f) ==
  \/ ~Understands(p, f)
  \/ f.part # 0 /\ \E g \in p.batch : g.seq = f.seq /\ (g.part = f.part \/ g.doc # f.doc \/ g.alias # f.alias)

-----------------------------------------------------------------------------
(* The client. *)

Unused == [c |-> "none", s |-> "none", opened |-> FALSE, dead |-> FALSE]
NoFrames == [c |-> <<>>, s |-> <<>>]

\* A client and a server that have nothing between them.
Fresh ==
  /\ model = Initially /\ socket = 0 /\ channel = 0 /\ keepalive = FALSE /\ timer = FALSE
  /\ ends = [k \in Socket |-> Unused]
  /\ frames = [k \in Socket |-> NoFrames]
  /\ served = {}
  /\ pipe = [k \in {0} \cup Socket |-> EmptyPipe]
  /\ misread = {} /\ broken = {}
  /\ stopped = FALSE

Init == Fresh /\ faults = 0 /\ sends = 0 /\ timeouts = 0

Used == {k \in Socket : ends[k].c # "none"}
Created == Cardinality(Used)

\* Faulty variant: the pipeline of the connection before.
KeptPipe(p) == [p EXCEPT !.self = TRUE, !.seq = @ + 1]

\* Faulty variant: resetting the pipeline forgets its collector.
KeptHalves(p) == [EmptyPipe EXCEPT !.self = TRUE, !.seq = 2, !.batch = p.batch]

\* A new channel starts with an empty pipeline, and its first message is the establish.
FreshPipe(p) == [EmptyPipe EXCEPT !.self = TRUE, !.seq = 2]

\* The effects of a step, on the sockets as the event left them (es) and the frames still to come (fs).
Executes(step, es, fs) ==
  LET new == Created + 1
      do  == step.do
  IN  /\ model' = [status |-> step.status, attempt |-> step.attempt]
      /\ "create" \in do => Created < MaxSockets
      /\ socket' = IF "create" \in do THEN new ELSE IF "close" \in do THEN 0 ELSE socket
      /\ channel' = IF "add-channel" \in do THEN socket ELSE IF "remove-channel" \in do THEN 0 ELSE channel
      /\ keepalive' = (("start-keepalive" \in do \/ keepalive) /\ "stop-keepalive" \notin do)
      /\ timer' = (("start-timer" \in do \/ timer) /\ "cancel-timer" \notin do)
      /\ ends' = IF "create" \in do THEN [es EXCEPT ![new].c = "connecting"]
                 ELSE IF "close" \in do /\ socket # 0 /\ es[socket].c \in {"connecting", "open"}
                 THEN [es EXCEPT ![socket].c = "closing"] ELSE es
      /\ IF "add-channel" \in do
         THEN /\ pipe' = [pipe EXCEPT ![0] = FreshPipe(@)]
              /\ frames' = [fs EXCEPT ![socket].s = Append(@, Establish(FreshPipe(pipe[0])))]
         ELSE pipe' = pipe /\ frames' = fs

Start ==
  /\ ~stopped /\ model = Initially /\ Created = 0
  /\ Executes(OnStart(model), ends, frames)
  /\ UNCHANGED <<served, misread, broken, counters, stopped>>

Stop ==
  /\ ~stopped /\ Created > 0
  /\ stopped' = TRUE
  /\ Executes(OnStop(model), ends, frames)
  /\ UNCHANGED <<served, misread, broken, counters>>

TimerFires ==
  /\ timer
  /\ LET step == OnTimer(model) IN
       /\ "create" \in step.do => Created < MaxSockets
       /\ model' = [status |-> step.status, attempt |-> step.attempt]
       /\ timer' = FALSE
       /\ IF "create" \in step.do
          THEN socket' = Created + 1 /\ ends' = [ends EXCEPT ![Created + 1].c = "connecting"]
          ELSE UNCHANGED <<socket, ends>>
  /\ UNCHANGED <<channel, keepalive, frames, served, pipe, misread, broken, counters, stopped>>

\* The open event, which the "ready" frame may overtake; from then on a close is told as such.
SocketOpened(k) ==
  /\ ends[k].c = "open" /\ ~ends[k].opened
  /\ Executes(OnOpened(model), [ends EXCEPT ![k].opened = TRUE], frames)
  /\ UNCHANGED <<served, misread, broken, counters, stopped>>

\* A frame reaches the client.  Messages of any socket go to the one pipeline, which a stop disposed of.
ClientReceives(k) ==
  LET f == Head(frames[k].c)
      rest == [frames EXCEPT ![k].c = Tail(@)]
  IN  /\ frames[k].c # <<>> /\ ends[k].c \in {"open", "closing"}
      /\ IF f = Ready
         THEN Executes(OnReady(model), ends, rest) /\ misread' = misread
         ELSE /\ IF stopped THEN UNCHANGED <<pipe, misread>>
                 ELSE /\ pipe' = [pipe EXCEPT ![0] = Received(@, f)]
                      /\ misread' = IF Misreads(pipe[0], f) THEN misread \cup {k} ELSE misread
              /\ frames' = rest
              /\ UNCHANGED <<client, ends>>
      /\ UNCHANGED <<served, broken, counters, stopped>>

\* The socket ended: before its open event an error, afterwards a close.
ClientEnds(k) ==
  /\ ends[k].c \in {"connecting", "open", "closing"}
  /\ \/ ends[k].dead
     \/ ends[k].c = "closing" /\ ends[k].s \in {"none", "closing", "closed"}
     \/ ends[k].c = "open" /\ ends[k].s \in {"closing", "closed"} /\ frames[k].c = <<>>
  /\ LET step == IF ends[k].opened THEN OnClosed(model) ELSE OnError(model)
     IN  Executes(step, [ends EXCEPT ![k].c = "closed"], [frames EXCEPT ![k].c = <<>>])
  /\ UNCHANGED <<served, misread, broken, counters, stopped>>

-----------------------------------------------------------------------------
(* The server. *)

\* Connections are kept by peer id: the one the application passed, or a random one of the connection's own.
SameKey(j, k) == Named \/ j = k

Unregistered(k) == {j \in served : ~SameKey(j, k)}

\* handleConnection: a connection of the same peer is closed and unregistered; then start() sends "ready".
Accept(k) ==
  /\ ends[k].c = "connecting" /\ ends[k].s = "none" /\ ~ends[k].dead
  /\ LET replaced == {j \in served : SameKey(j, k)}
     IN  ends' = [j \in Socket |->
                    IF j = k THEN [ends[k] EXCEPT !.c = "open", !.s = "open"]
                    ELSE IF j \in replaced /\ ends[j].s = "open" THEN [ends[j] EXCEPT !.s = "closing"] ELSE ends[j]]
  /\ served' = Unregistered(k) \cup {k}
  /\ frames' = [frames EXCEPT ![k].c = Append(@, Ready)]
  /\ UNCHANGED <<client, pipe, misread, broken, counters, stopped>>

\* The Synchronizer answers an establish with its own.
ServerReceives(k) ==
  LET f == Head(frames[k].s)
      p == Received(pipe[k], f)
      answers == f.t = "establish" /\ ~p.self
  IN  /\ frames[k].s # <<>> /\ ends[k].s \in {"open", "closing"}
      /\ IF ends[k].s = "closing" \/ k \notin served
         THEN frames' = [frames EXCEPT ![k].s = Tail(@)] /\ UNCHANGED <<pipe, misread>>
         ELSE /\ pipe' = [pipe EXCEPT ![k] = IF answers THEN [p EXCEPT !.self = TRUE, !.seq = @ + 1] ELSE p]
              /\ frames' = [frames EXCEPT ![k] = [s |-> Tail(@.s), c |-> IF answers THEN Append(@.c, Establish(p)) ELSE @.c]]
              /\ misread' = IF Misreads(pipe[k], f) THEN misread \cup {k} ELSE misread
      /\ UNCHANGED <<client, ends, served, broken, counters, stopped>>

\* Its socket's close event; its pipeline goes with the connection.
ServerEnds(k) ==
  /\ ends[k].s \in {"open", "closing"}
  /\ ends[k].dead \/ ends[k].c \in {"closing", "closed"}
  /\ ends' = [ends EXCEPT ![k].s = "closed"]
  /\ served' = Unregistered(k)
  /\ frames' = [frames EXCEPT ![k].s = <<>>]
  /\ pipe' = [pipe EXCEPT ![k] = EmptyPipe]
  /\ UNCHANGED <<client, misread, broken, counters, stopped>>

-----------------------------------------------------------------------------
(* Messages between established ends, and faults. *)

\* e is the sending end of socket k; the client sends on its current socket.
CanSend(k, e) ==
  /\ sends < MaxSends
  /\ IF e = "c" THEN k = socket /\ channel # 0 /\ ends[k].c = "open" /\ pipe[0].peer
                ELSE k \in served /\ ends[k].s = "open" /\ pipe[k].peer

PipeOf(k, e) == IF e = "c" THEN 0 ELSE k
Across(e) == IF e = "c" THEN "s" ELSE "c"

SendPresent(k, e) ==
  /\ CanSend(k, e)
  /\ \E d \in Doc, big \in BOOLEAN :
       LET i == PipeOf(k, e)
       IN  /\ frames' = [frames EXCEPT ![k][Across(e)] = @ \o Announcement(pipe[i], d, big)]
           /\ pipe' = [pipe EXCEPT ![i] = Announced(@, d)]
  /\ sends' = sends + 1
  /\ UNCHANGED <<client, ends, served, misread, broken, faults, timeouts, stopped>>

SendOther(k, e) ==
  /\ CanSend(k, e)
  /\ \E d \in Doc :
       LET i == PipeOf(k, e)
       IN  /\ AliasIn(pipe[i], d) # 0
           /\ frames' = [frames EXCEPT ![k][Across(e)] = Append(@, Use(pipe[i], d))]
           /\ pipe' = [pipe EXCEPT ![i].seq = @ + 1]
  /\ sends' = sends + 1
  /\ UNCHANGED <<client, ends, served, misread, broken, faults, timeouts, stopped>>

\* The collector gives up a partial message after reassemblyTimeoutMs.
Timeout(i) ==
  /\ pipe[i].batch # {} /\ timeouts < MaxTimeouts /\ (i = 0 => ~stopped)
  /\ pipe' = [pipe EXCEPT ![i].batch = {}]
  /\ broken' = broken \cup (IF i = 0 THEN {channel} \ {0} ELSE {i})
  /\ timeouts' = timeouts + 1
  /\ UNCHANGED <<client, ends, frames, served, misread, faults, sends, stopped>>

\* A socket fails: what is on the way may or may not still arrive.
Fails(k) ==
  /\ faults < MaxFaults /\ ends[k].c # "none" /\ ~ends[k].dead
  /\ {ends[k].c, ends[k].s} # {"closed"}
  /\ ends' = [ends EXCEPT ![k].dead = TRUE]
  /\ faults' = faults + 1
  /\ UNCHANGED <<client, frames, served, pipe, misread, broken, sends, timeouts, stopped>>

ClientStep == Start \/ TimerFires \/ \E k \in Socket : SocketOpened(k) \/ ClientReceives(k) \/ ClientEnds(k)
ServerStep == \E k \in Socket : Accept(k) \/ ServerReceives(k) \/ ServerEnds(k)

Next ==
  \/ ClientStep \/ ServerStep \/ Stop
  \/ \E k \in Socket : Fails(k) \/ \E e \in {"c", "s"} : SendPresent(k, e) \/ SendOther(k, e)
  \/ \E i \in {0} \cup Socket : Timeout(i)

Spec == Init /\ [][Next]_vars

\* Events of the sockets and timers are delivered, and the server accepts what reaches it.
Fairness == WF_vars(ClientStep) /\ WF_vars(ServerStep)

FairSpec == Spec /\ Fairness

-----------------------------------------------------------------------------
(* Properties. *)

\* Types, and that the shell's resources follow the program's state: a channel exactly while ready, a keepalive exactly
\* while connected, a timer exactly while waiting to reconnect.
ConnectionTypeOK ==
  /\ model \in [status : Status, attempt : 0 .. MaxAttempts + 1]
  /\ socket \in {0} \cup Socket /\ channel \in {0} \cup Socket
  /\ (channel # 0) <=> (model.status = "ready")
  /\ keepalive \in BOOLEAN /\ (keepalive <=> (model.status \in {"connected", "ready"}))
  /\ timer \in BOOLEAN /\ (timer <=> (model.status = "reconnecting"))
  /\ ends \in [Socket -> [c : {"none", "connecting", "open", "closing", "closed"}, s : {"none", "open", "closing", "closed"},
                          opened : BOOLEAN, dead : BOOLEAN]]
  /\ served \subseteq Socket /\ misread \subseteq Socket /\ broken \subseteq Socket

\* A socket not closed or closing is the client's current one: no attempt given up leaves a socket whose events reach the
\* next attempt.
NoStraySocket ==
  \A k \in Socket : ends[k].c \in {"connecting", "open"} =>
    k = socket /\ model.status \in {"connecting", "connected", "ready"}

\* Sockets are opened in order and only a stop closes one; one that told of its opening is not waited for any more.
SocketsInOrder ==
  /\ Used = 1 .. Created
  /\ stopped => model.status = "disconnected"
  /\ \A k \in Socket :
       /\ ends[k].c = "none" => ends[k] = Unused
       /\ ends[k].c = "closing" => stopped
       /\ ends[k].c \in {"connecting", "open"} /\ ends[k].opened => model.status # "connecting"

\* The shell follows the program: its resources are those of the program's state, and no other socket is open.
ShellFollows == ConnectionTypeOK /\ NoStraySocket /\ SocketsInOrder

\* No message is taken for another: aliases and halves of messages of one connection never meet those of the next,
\* and an alias is used only when its announcement arrived, unless the collector gave a partial message up.
NothingMisread == misread \subseteq broken

\* No half of a message meets the half of another, also where a timeout gave a message up and its second half arrives
\* afterwards: of a half that a collector keeps, only the other half bears the number on any wire it is still to read.
HalvesMatch ==
  \A k \in Socket, e \in {"c", "s"} : ends[k][e] \in {"open", "closing"} =>
    \A g \in pipe[PipeOf(k, e)].batch, i \in DOMAIN frames[k][e] :
      LET f == frames[k][e][i]
      IN  f.seq = g.seq => g.part = 1 /\ f = [g EXCEPT !.part = 2]

\* A stopped client opens no socket and adds no channel, whatever events of its sockets are still to come.
StopIsFinal == [][stopped => Created' = Created /\ channel' = 0 /\ model'.status = "disconnected"]_vars

\* A client that is not stopped and does not run out of attempts ends ready and served, both ends having established.
Reconnects ==
  <>[](\/ model.status = "disconnected"
       \/ /\ model.status = "ready" /\ socket \in served
          /\ pipe[0].peer /\ pipe[socket].peer)
=============================================================================
