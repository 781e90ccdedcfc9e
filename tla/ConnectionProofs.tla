-------------------------- MODULE ConnectionProofs --------------------------
(* ShellFollows, StopIsFinal and NothingMisread, for any number of         *)
(* sockets, attempts, faults and messages, and either kind of key.         *)
EXTENDS Connection, FiniteSetTheorems, TLAPS

Model == [status : Status, attempt : 0 .. MaxAttempts + 1]
Connected == {"connected", "ready"}

\* The client is getting, or has, a connection.
Engaged == {"connecting", "connected", "ready"}

-----------------------------------------------------------------------------
(* What a step of the program tells the shell to do.                       *)

\* The effects of a step from m are those its change of state calls for.
Follows(m, step) ==
  /\ step.status \in Status /\ step.attempt \in 0 .. MaxAttempts + 1
  /\ "add-channel" \in step.do <=> m.status # "ready" /\ step.status = "ready"
  /\ "remove-channel" \in step.do <=> m.status = "ready" /\ step.status # "ready"
  /\ "start-keepalive" \in step.do <=> m.status \notin Connected /\ step.status \in Connected
  /\ "stop-keepalive" \in step.do <=> m.status \in Connected /\ step.status \notin Connected
  /\ "start-timer" \in step.do <=> m.status # "reconnecting" /\ step.status = "reconnecting"
  /\ "cancel-timer" \in step.do => step.status = "disconnected"
  /\ m.status = "reconnecting" /\ step.status # "reconnecting" => "cancel-timer" \in step.do
  /\ "create" \in step.do <=> m.status # "connecting" /\ step.status = "connecting"
  /\ "close" \in step.do => step.status = "disconnected"

LEMMA ReconnectFollows ==
  ASSUME NEW n \in 0 .. MaxAttempts + 1, NEW do
  PROVE  LET step == TryReconnect(n, do) IN
           /\ step.status \in {"disconnected", "reconnecting"}
           /\ step.attempt \in 0 .. MaxAttempts + 1
           /\ step.do = do \cup (IF step.status = "reconnecting" THEN {"start-timer"} ELSE {})
BY ClientAssumption DEF TryReconnect, To

LEMMA StartFollows == ASSUME NEW m \in Model, m = Initially
                      PROVE  Follows(m, OnStart(m)) /\ OnStart(m).status = "connecting"
BY ClientAssumption DEF Model, Follows, OnStart, To, Stay, Initially, Status, Connected

\* An opened socket makes a connecting client connected, and is nothing to any other.
LEMMA OpenedFollows ==
  ASSUME NEW m \in Model
  PROVE  /\ Follows(m, OnOpened(m)) /\ "create" \notin OnOpened(m).do /\ "close" \notin OnOpened(m).do
         /\ OnOpened(m).status = IF m.status = "connecting" THEN "connected" ELSE m.status
BY ClientAssumption DEF Model, Follows, OnOpened, To, Stay, Status, Connected

\* Ready makes a client with a socket ready, and is nothing to any other.
LEMMA ReadyFollows ==
  ASSUME NEW m \in Model
  PROVE  /\ Follows(m, OnReady(m)) /\ "create" \notin OnReady(m).do /\ "close" \notin OnReady(m).do
         /\ OnReady(m).status = IF m.status \in Engaged THEN "ready" ELSE m.status
BY ClientAssumption DEF Model, Follows, OnReady, To, Stay, Status, Connected, Engaged

\* A closed socket ends a connection, and an attempt to connect is not what it ends.
LEMMA ClosedFollows ==
  ASSUME NEW m \in Model
  PROVE  /\ Follows(m, OnClosed(m)) /\ "create" \notin OnClosed(m).do /\ "close" \notin OnClosed(m).do
         /\ m.status # "connecting" => OnClosed(m).status \notin Engaged
         /\ m.status \notin Engaged => OnClosed(m) = Stay(m)
<1>1. CASE m.status \in Connected
  <2>1. PICK do : OnClosed(m) = TryReconnect(0, do) /\ do = {"stop-keepalive"} \cup (IF m.status = "ready" THEN {"remove-channel"} ELSE {})
    BY <1>1 DEF OnClosed, Connected
  <2>2. 0 \in 0 .. MaxAttempts + 1
    BY ClientAssumption
  <2> QED BY <1>1, <2>1, <2>2, ReconnectFollows DEF Follows, Connected, Engaged, Status
<1>2. CASE m.status \notin Connected
  BY <1>2 DEF Model, Follows, OnClosed, To, Stay, Status, Connected, Engaged
<1> QED BY <1>1, <1>2

\* An error ends an attempt to connect as well.
LEMMA ErrorFollows ==
  ASSUME NEW m \in Model
  PROVE  /\ Follows(m, OnError(m)) /\ "create" \notin OnError(m).do /\ "close" \notin OnError(m).do
         /\ OnError(m).status \notin Engaged
         /\ m.status \notin Engaged => OnError(m) = Stay(m)
<1>1. CASE m.status = "connecting"
  <2>1. OnError(m) = TryReconnect(m.attempt, {})
    BY <1>1 DEF OnError
  <2>2. m.attempt \in 0 .. MaxAttempts + 1
    BY DEF Model
  <2> QED BY <1>1, <2>1, <2>2, ReconnectFollows DEF Follows, Connected, Engaged, Status
<1>2. CASE m.status # "connecting"
  BY <1>2, ClosedFollows DEF OnError
<1> QED BY <1>1, <1>2

LEMMA StopFollows ==
  ASSUME NEW m \in Model
  PROVE  /\ Follows(m, OnStop(m)) /\ OnStop(m).status = "disconnected" /\ "create" \notin OnStop(m).do
         /\ "close" \in OnStop(m).do <=> m.status \in Engaged
BY ClientAssumption DEF Model, Follows, OnStop, To, Stay, Status, Connected, Engaged

-----------------------------------------------------------------------------
(* The parts of ShellFollows.                                              *)

EndType == [c : {"none", "connecting", "open", "closing", "closed"}, s : {"none", "open", "closing", "closed"},
            opened : BOOLEAN, dead : BOOLEAN]

\* The client's resources are those of its state.
Resources ==
  /\ model \in Model
  /\ socket \in {0} \cup Socket /\ channel \in {0} \cup Socket
  /\ (channel # 0) <=> (model.status = "ready")
  /\ keepalive \in BOOLEAN /\ (keepalive <=> (model.status \in Connected))
  /\ timer \in BOOLEAN /\ (timer <=> (model.status = "reconnecting"))

\* The sets of sockets hold sockets.
Marks == served \subseteq Socket /\ misread \subseteq Socket /\ broken \subseteq Socket

\* What one socket's ends say together with the client's state.
SocketOK(k) ==
  /\ ends[k].c = "none" => ends[k] = Unused
  /\ ends[k].c = "closing" => stopped
  /\ ends[k].c \in {"connecting", "open"} => k = socket /\ model.status \in Engaged
  /\ ends[k].c \in {"connecting", "open"} /\ ends[k].opened => model.status # "connecting"

Ends ==
  /\ ends \in [Socket -> EndType]
  /\ Used = 1 .. Created
  /\ stopped => model.status = "disconnected"
  /\ \A k \in Socket : SocketOK(k)

LEMMA Parts == ShellFollows <=> Resources /\ Marks /\ Ends
BY DEF ShellFollows, ConnectionTypeOK, NoStraySocket, SocketsInOrder, Resources, Marks, Ends, SocketOK, EndType, Model, Connected, Engaged

LEMMA MoreParts == ShellFollows' <=> Resources' /\ Marks' /\ Ends'
BY DEF ShellFollows, ConnectionTypeOK, NoStraySocket, SocketsInOrder, Resources, Marks, Ends, SocketOK, EndType, Model, Connected, Engaged

\* The client's part of its variables follows a step whose effects follow the program's.
LEMMA ExecutesResources ==
  ASSUME Resources, NEW step, Follows(model, step), NEW es, NEW fs, Executes(step, es, fs),
         "create" \in step.do => Created \in Nat /\ Created + 1 \in Socket,
         "add-channel" \in step.do => socket # 0
  PROVE  Resources'
<1>1. model' \in Model /\ model'.status = step.status
  BY DEF Executes, Follows, Model
<1>2. socket' \in {0} \cup Socket
  BY DEF Executes, Resources
<1>3. channel' \in {0} \cup Socket /\ (channel' # 0 <=> step.status = "ready")
  BY DEF Executes, Resources, Follows
<1>4. keepalive' \in BOOLEAN /\ (keepalive' <=> (step.status \in Connected))
  <2>1. keepalive \in BOOLEAN /\ (keepalive <=> (model.status \in Connected))
    BY DEF Resources
  <2>2. keepalive' \in BOOLEAN /\ (keepalive' <=> (("start-keepalive" \in step.do \/ keepalive) /\ "stop-keepalive" \notin step.do))
    BY DEF Executes
  <2>3. /\ "start-keepalive" \in step.do <=> model.status \notin Connected /\ step.status \in Connected
        /\ "stop-keepalive" \in step.do <=> model.status \in Connected /\ step.status \notin Connected
    BY DEF Follows
  <2> QED BY <2>1, <2>2, <2>3, Zenon
<1>5. timer' \in BOOLEAN /\ (timer' <=> (step.status = "reconnecting"))
  <2>1. timer \in BOOLEAN /\ (timer <=> (model.status = "reconnecting"))
    BY DEF Resources
  <2>2. timer' \in BOOLEAN /\ (timer' <=> (("start-timer" \in step.do \/ timer) /\ "cancel-timer" \notin step.do))
    BY DEF Executes
  <2>3. /\ "start-timer" \in step.do <=> model.status # "reconnecting" /\ step.status = "reconnecting"
        /\ "cancel-timer" \in step.do => step.status # "reconnecting"
        /\ model.status = "reconnecting" /\ step.status # "reconnecting" => "cancel-timer" \in step.do
    BY DEF Follows
  <2> QED BY <2>1, <2>2, <2>3, Zenon
<1> QED BY <1>1, <1>2, <1>3, <1>4, <1>5 DEF Resources

-----------------------------------------------------------------------------
(* Counting sockets.                                                       *)

LEMMA SocketsFinite == MaxSockets \in Nat /\ IsFiniteSet(Used) /\ Created \in Nat
<1>1. MaxSockets \in Nat
  BY ConnectionAssumption
<1>2. IsFiniteSet(Socket)
  BY <1>1, FS_Interval DEF Socket
<1>3. IsFiniteSet(Used)
  BY <1>2, FS_Subset DEF Used
<1> QED BY <1>1, <1>3, FS_CardinalityType DEF Created

\* Sockets used as before are as many as before.
LEMMA SameUsed == ASSUME Used' = Used PROVE Created' = Created
BY DEF Created

\* The next socket is one more.
LEMMA OneMore ==
  ASSUME Used = 1 .. Created, Used' = Used \cup {Created + 1}
  PROVE  Created' = Created + 1 /\ Used' = 1 .. Created'
<1>1. Created \in Nat /\ IsFiniteSet(Used)
  BY SocketsFinite
<1>2. Created + 1 \notin Used
  BY <1>1
<1>3. Cardinality(Used \cup {Created + 1}) = Cardinality(Used) + 1
  BY <1>1, <1>2, FS_AddElement
<1>4. Created' = Created + 1
  BY <1>3 DEF Created
<1> QED BY <1>1, <1>4

\* A client that waits or has not started opens a fresh socket.
LEMMA CreateKeeps ==
  ASSUME Ends, ~stopped, model.status \notin Engaged, Created < MaxSockets,
         socket' = Created + 1, ends' = [ends EXCEPT ![Created + 1].c = "connecting"],
         model'.status = "connecting", stopped' = stopped
  PROVE  Ends'
<1> DEFINE new == Created + 1
<1>1. new \in Socket /\ new \notin Used
  BY SocketsFinite DEF Socket, Ends
<1>2. ends[new] = Unused
  BY <1>1 DEF Used, Ends, SocketOK
<1>3. ends' \in [Socket -> EndType]
  BY <1>1 DEF Ends, EndType
<1>4. Used' = Used \cup {new}
  BY <1>1 DEF Ends, Used
<1>5. Used' = 1 .. Created'
  BY <1>4, OneMore DEF Ends
<1>6. ASSUME NEW k \in Socket PROVE SocketOK(k)'
  <2>1. CASE k = new
    BY <2>1, <1>1, <1>2 DEF SocketOK, Ends, EndType, Unused, Engaged
  <2>2. CASE k # new
    <3>1. ends'[k] = ends[k] /\ SocketOK(k)
      BY <2>2, <1>1 DEF Ends
    <3> QED BY <3>1 DEF SocketOK
  <2> QED BY <2>1, <2>2
<1> QED BY <1>3, <1>5, <1>6 DEF Ends

\* A step that opens no socket keeps each, and they stay in order.
LEMMA UsedKeeps ==
  ASSUME Ends, ends' \in [Socket -> EndType],
         \A k \in Socket : ends'[k].c = "none" <=> ends[k].c = "none",
         stopped' => model'.status = "disconnected",
         \A k \in Socket : SocketOK(k)'
  PROVE  Ends' /\ Created' = Created
<1>1. Used' = Used
  BY DEF Used
<1> QED BY <1>1, SameUsed DEF Ends

-----------------------------------------------------------------------------
(* One lemma per action.                                                   *)

LEMMA StartKeeps == ASSUME ShellFollows, Start PROVE ShellFollows' /\ ~stopped
<1>0. Resources /\ Marks /\ Ends
  BY Parts
<1>1. Follows(model, OnStart(model)) /\ OnStart(model).status = "connecting" /\ model.status = "disconnected"
  BY <1>0, StartFollows DEF Start, Resources, Initially
<1>2. "create" \in OnStart(model).do /\ Executes(OnStart(model), ends, frames)
  BY <1>1 DEF Follows, Start
<1>3. Created < MaxSockets /\ Created + 1 \in Socket
  BY <1>2, SocketsFinite DEF Executes, Socket
<1>4. Resources'
  BY <1>0, <1>1, <1>2, <1>3, SocketsFinite, ExecutesResources DEF Follows
<1>5. /\ socket' = Created + 1 /\ ends' = [ends EXCEPT ![Created + 1].c = "connecting"]
      /\ model'.status = "connecting" /\ ~stopped /\ stopped' = stopped
  BY <1>1, <1>2 DEF Executes, Start
<1>6. Ends'
  BY <1>0, <1>1, <1>3, <1>5, CreateKeeps DEF Engaged
<1>7. Marks'
  BY <1>0 DEF Start, Marks
<1> QED BY <1>4, <1>5, <1>6, <1>7, MoreParts

LEMMA TimerFiresKeeps == ASSUME ShellFollows, TimerFires PROVE ShellFollows' /\ ~stopped
<1>0. Resources /\ Marks /\ Ends
  BY Parts
<1>1. model.status = "reconnecting" /\ ~stopped
  BY <1>0 DEF TimerFires, Resources, Ends
<1>2. OnTimer(model) = To("connecting", model.attempt, {"create"})
  BY <1>1 DEF OnTimer
<1>3. /\ model' = [status |-> "connecting", attempt |-> model.attempt]
      /\ Created < MaxSockets /\ socket' = Created + 1 /\ ends' = [ends EXCEPT ![Created + 1].c = "connecting"]
      /\ timer' = FALSE /\ channel' = channel /\ keepalive' = keepalive /\ stopped' = stopped
  BY <1>2 DEF TimerFires, To
<1>4. Resources'
  <2>1. Created + 1 \in Socket
    BY <1>3, SocketsFinite DEF Socket
  <2>2. model' \in Model /\ model'.status = "connecting"
    BY <1>0, <1>3 DEF Resources, Model, Status
  <2>3. channel' = 0 /\ socket' \in Socket
    BY <1>0, <1>1, <1>3, <2>1 DEF Resources
  <2>4. keepalive' \in BOOLEAN /\ ~keepalive'
    BY <1>0, <1>1, <1>3 DEF Resources, Connected
  <2> QED BY <1>3, <2>2, <2>3, <2>4 DEF Resources, Connected
<1>5. Ends'
  BY <1>0, <1>1, <1>3, CreateKeeps DEF Engaged
<1>6. Marks'
  BY <1>0 DEF TimerFires, Marks
<1> QED BY <1>1, <1>3, <1>4, <1>5, <1>6, MoreParts

LEMMA StopKeeps == ASSUME ShellFollows, Stop PROVE ShellFollows' /\ ~stopped
<1>0. Resources /\ Marks /\ Ends
  BY Parts
<1> DEFINE step == OnStop(model)
<1>1. Follows(model, step) /\ step.status = "disconnected" /\ "create" \notin step.do
      /\ ("close" \in step.do <=> model.status \in Engaged)
  BY <1>0, StopFollows DEF Resources
<1>2. Executes(step, ends, frames) /\ ~stopped /\ stopped'
  BY DEF Stop
<1>3. Resources'
  BY <1>0, <1>1, <1>2, ExecutesResources DEF Follows
<1>4. model'.status = "disconnected"
  BY <1>1, <1>2 DEF Executes
<1>5. ends' = IF "close" \in step.do /\ socket # 0 /\ ends[socket].c \in {"connecting", "open"}
              THEN [ends EXCEPT ![socket].c = "closing"] ELSE ends
  BY <1>1, <1>2 DEF Executes
<1>6. ends' \in [Socket -> EndType] /\ \A k \in Socket : ends'[k].c = "none" <=> ends[k].c = "none"
  BY <1>0, <1>5 DEF Ends, EndType, Resources
<1>7. ASSUME NEW k \in Socket PROVE SocketOK(k)'
  <2>1. SocketOK(k) /\ ends[k] \in EndType
    BY <1>0 DEF Ends
  <2>2. CASE ends[k].c \in {"connecting", "open"}
    <3>1. k = socket /\ k # 0 /\ model.status \in Engaged
      BY <2>1, <2>2, ConnectionAssumption DEF SocketOK, Socket
    <3>2. ends'[k].c = "closing"
      BY <1>0, <1>1, <1>5, <2>2, <3>1 DEF Ends, EndType
    <3> QED BY <1>2, <3>2 DEF SocketOK
  <2>3. CASE ends[k].c \notin {"connecting", "open"}
    <3>1. ends'[k] = ends[k]
      BY <1>0, <1>5, <2>3 DEF Ends
    <3> QED BY <1>2, <2>1, <2>3, <3>1 DEF SocketOK
  <2> QED BY <2>2, <2>3
<1>8. Ends'
  BY <1>0, <1>4, <1>6, <1>7, UsedKeeps
<1>9. Marks'
  BY <1>0 DEF Stop, Marks
<1> QED BY <1>2, <1>3, <1>8, <1>9, MoreParts

\* Events of sockets open none; once stopped, they find the client disconnected and leave it so.
LEMMA SocketOpenedKeeps ==
  ASSUME ShellFollows, NEW k \in Socket, SocketOpened(k) PROVE ShellFollows' /\ Created' = Created /\ stopped' = stopped
<1>0. Resources /\ Marks /\ Ends
  BY Parts
<1> DEFINE step == OnOpened(model)
           es == [ends EXCEPT ![k].opened = TRUE]
<1>1. /\ Follows(model, step) /\ "create" \notin step.do /\ "close" \notin step.do
      /\ step.status = IF model.status = "connecting" THEN "connected" ELSE model.status
  BY <1>0, OpenedFollows DEF Resources
<1>2. Executes(step, es, frames) /\ stopped' = stopped /\ ends[k].c = "open"
  BY DEF SocketOpened
<1>3. k = socket /\ model.status \in Engaged /\ socket # 0
  BY <1>0, <1>2, ConnectionAssumption DEF Ends, SocketOK, Socket
<1>4. Resources'
  BY <1>0, <1>1, <1>2, <1>3, ExecutesResources
<1>5. ends' = es /\ model'.status = step.status /\ socket' = socket
  BY <1>1, <1>2 DEF Executes
<1>6. ends' \in [Socket -> EndType] /\ \A j \in Socket : ends'[j].c = ends[j].c
  BY <1>0, <1>5 DEF Ends, EndType
<1>7. ASSUME NEW j \in Socket PROVE SocketOK(j)'
  <2>1. SocketOK(j) /\ ends[j] \in EndType
    BY <1>0 DEF Ends
  <2>2. j # k => ends'[j] = ends[j]
    BY <1>0, <1>5 DEF Ends
  <2> QED BY <1>1, <1>2, <1>3, <1>5, <1>6, <2>1, <2>2 DEF SocketOK, Engaged
<1>8. stopped' => model'.status = "disconnected"
  BY <1>0, <1>2, <1>3 DEF Ends, Engaged
<1>9. Ends' /\ Created' = Created
  BY <1>0, <1>6, <1>7, <1>8, UsedKeeps
<1>10. Marks'
  BY <1>0 DEF SocketOpened, Marks
<1> QED BY <1>2, <1>4, <1>9, <1>10, MoreParts

LEMMA ClientReceivesKeeps ==
  ASSUME ShellFollows, NEW k \in Socket, ClientReceives(k) PROVE ShellFollows' /\ Created' = Created /\ stopped' = stopped
<1>0. Resources /\ Marks /\ Ends
  BY Parts
<1>m. Marks'
  BY <1>0 DEF ClientReceives, Marks
<1>1. CASE Head(frames[k].c) = Ready
  <2> DEFINE step == OnReady(model)
             fs == [frames EXCEPT ![k].c = Tail(@)]
  <2>1. /\ Follows(model, step) /\ "create" \notin step.do /\ "close" \notin step.do
        /\ step.status = IF model.status \in Engaged THEN "ready" ELSE model.status
    BY <1>0, ReadyFollows DEF Resources
  <2>2. Executes(step, ends, fs) /\ stopped' = stopped /\ ends[k].c \in {"open", "closing"}
    BY <1>1 DEF ClientReceives
  <2>3. model.status \in Engaged => k = socket /\ socket # 0
    BY <1>0, <2>2, ConnectionAssumption DEF Ends, SocketOK, Socket, Engaged
  <2>4. "add-channel" \in step.do => socket # 0
    BY <2>1, <2>3 DEF Follows
  <2>5. Resources'
    BY <1>0, <2>1, <2>2, <2>4, ExecutesResources
  <2>6. ends' = ends /\ socket' = socket /\ model'.status = step.status
    BY <2>1, <2>2 DEF Executes
  <2>7. ASSUME NEW j \in Socket PROVE SocketOK(j)'
    <3>1. SocketOK(j)
      BY <1>0 DEF Ends
    <3> QED BY <2>1, <2>2, <2>6, <3>1 DEF SocketOK, Engaged
  <2>8. stopped' => model'.status = "disconnected"
    BY <1>0, <2>1, <2>2, <2>6 DEF Ends, Engaged
  <2>9. ends' \in [Socket -> EndType] /\ \A j \in Socket : ends'[j].c = "none" <=> ends[j].c = "none"
    BY <1>0, <2>6 DEF Ends
  <2>10. Ends' /\ Created' = Created
    BY <1>0, <2>7, <2>8, <2>9, UsedKeeps
  <2> QED BY <1>m, <2>2, <2>5, <2>10, MoreParts
<1>2. CASE Head(frames[k].c) # Ready
  <2>1. UNCHANGED <<client, ends, stopped>>
    BY <1>2 DEF ClientReceives
  <2>2. Resources' /\ Ends' /\ Created' = Created
    BY <1>0, <2>1 DEF client, Resources, Ends, SocketOK, Used, Created
  <2> QED BY <1>m, <2>1, <2>2, MoreParts
<1> QED BY <1>1, <1>2

LEMMA ClientEndsKeeps ==
  ASSUME ShellFollows, NEW k \in Socket, ClientEnds(k) PROVE ShellFollows' /\ Created' = Created /\ stopped' = stopped
<1>0. Resources /\ Marks /\ Ends
  BY Parts
<1> DEFINE step == IF ends[k].opened THEN OnClosed(model) ELSE OnError(model)
           es == [ends EXCEPT ![k].c = "closed"]
           fs == [frames EXCEPT ![k].c = <<>>]
<1>1. /\ Follows(model, step) /\ "create" \notin step.do /\ "close" \notin step.do
      /\ model.status \notin Engaged => step = Stay(model)
  BY <1>0, ClosedFollows, ErrorFollows DEF Resources
<1>2. Executes(step, es, fs) /\ stopped' = stopped /\ ends[k].c \in {"connecting", "open", "closing"}
  BY DEF ClientEnds
<1>3. step.status \notin Engaged
  <2>1. SocketOK(k)
    BY <1>0 DEF Ends
  <2>2. CASE ends[k].c \in {"connecting", "open"}
    BY <1>0, <2>1, <2>2, ClosedFollows, ErrorFollows DEF SocketOK, Resources
  <2>3. CASE ends[k].c = "closing"
    BY <1>0, <1>1, <2>1, <2>3 DEF SocketOK, Ends, Stay, To, Engaged
  <2> QED BY <1>2, <2>2, <2>3
<1>4. "add-channel" \notin step.do
  BY <1>1, <1>3 DEF Follows, Engaged
<1>5. Resources'
  BY <1>0, <1>1, <1>2, <1>4, ExecutesResources
<1>6. ends' = es /\ socket' = socket /\ model'.status = step.status
  BY <1>1, <1>2 DEF Executes
<1>7. ends' \in [Socket -> EndType] /\ \A j \in Socket : ends'[j].c = "none" <=> ends[j].c = "none"
  BY <1>0, <1>2, <1>6 DEF Ends, EndType
<1>8. ASSUME NEW j \in Socket PROVE SocketOK(j)'
  <2>1. SocketOK(j) /\ ends[j] \in EndType
    BY <1>0 DEF Ends
  <2>2. CASE j = k
    <3>1. ends'[j].c = "closed"
      BY <1>0, <1>6, <2>2 DEF Ends, EndType
    <3> QED BY <3>1 DEF SocketOK
  <2>3. CASE j # k
    <3>1. ends'[j] = ends[j]
      BY <1>0, <1>6, <2>3 DEF Ends
    <3>2. ends[j].c \in {"connecting", "open"} => FALSE
      <4>1. SocketOK(k) /\ (stopped => model.status = "disconnected")
        BY <1>0 DEF Ends
      <4> QED BY <1>2, <2>1, <2>3, <4>1 DEF SocketOK, Engaged
    <3> QED BY <1>2, <2>1, <3>1, <3>2 DEF SocketOK
  <2> QED BY <2>2, <2>3
<1>9. stopped' => model'.status = "disconnected"
  BY <1>0, <1>1, <1>2, <1>6 DEF Ends, Stay, To, Engaged
<1>10. Ends' /\ Created' = Created
  BY <1>0, <1>7, <1>8, <1>9, UsedKeeps
<1>11. Marks'
  BY <1>0 DEF ClientEnds, Marks
<1> QED BY <1>2, <1>5, <1>10, <1>11, MoreParts

\* A step that leaves the client alone and moves its ends only from connecting to open.
LEMMA OthersKeep ==
  ASSUME ShellFollows, UNCHANGED <<client, stopped>>, Marks', ends' \in [Socket -> EndType],
         \A k \in Socket : /\ ends[k].c = "none" => ends'[k] = ends[k]
                           /\ ends'[k].opened = ends[k].opened
                           /\ \/ ends'[k].c = ends[k].c
                              \/ ends[k].c = "connecting" /\ ends'[k].c = "open"
  PROVE  ShellFollows' /\ Created' = Created /\ stopped' = stopped
<1>0. Resources /\ Ends
  BY Parts
<1>1. Resources'
  BY <1>0 DEF Resources, client
<1>2. ASSUME NEW k \in Socket PROVE SocketOK(k)'
  <2>1. SocketOK(k)
    BY <1>0 DEF Ends
  <2> QED BY <2>1 DEF SocketOK, client
<1>3. stopped' => model'.status = "disconnected"
  BY <1>0 DEF Ends, client
<1>4. \A k \in Socket : ends'[k].c = "none" <=> ends[k].c = "none"
  OBVIOUS
<1>5. Ends' /\ Created' = Created
  BY <1>0, <1>2, <1>3, <1>4, UsedKeeps
<1> QED BY <1>1, <1>5, MoreParts

LEMMA ServerKeeps ==
  ASSUME ShellFollows, NEW k \in Socket, Accept(k) \/ ServerReceives(k) \/ ServerEnds(k) \/ Fails(k)
  PROVE  ShellFollows' /\ Created' = Created /\ stopped' = stopped
<1>0. Marks /\ Ends
  BY Parts
<1>1. CASE Accept(k)
  <2>1. ends' \in [Socket -> EndType]
    <3>1. ASSUME NEW e \in EndType
          PROVE  [e EXCEPT !.c = "open", !.s = "open"] \in EndType /\ [e EXCEPT !.s = "closing"] \in EndType
      BY DEF EndType
    <3>2. \A j \in Socket : ends[j] \in EndType
      BY <1>0 DEF Ends
    <3> QED BY <1>1, <3>1, <3>2 DEF Accept
  <2>2. \A j \in Socket : /\ ends[j].c = "none" => ends'[j] = ends[j]
                          /\ ends'[j].opened = ends[j].opened
                          /\ (ends'[j].c = ends[j].c \/ (ends[j].c = "connecting" /\ ends'[j].c = "open"))
    <3>1. ASSUME NEW j \in Socket, j # k
          PROVE  ends'[j] = ends[j] \/ (ends[j].s = "open" /\ ends'[j] = [ends[j] EXCEPT !.s = "closing"])
      BY <1>1, <3>1 DEF Accept
    <3>2. ends'[k] = [ends[k] EXCEPT !.c = "open", !.s = "open"] /\ ends[k].c = "connecting"
      BY <1>1 DEF Accept
    <3>3. ASSUME NEW j \in Socket PROVE ends[j] \in EndType /\ (ends[j].c = "none" => ends[j].s = "none")
      BY <1>0 DEF Ends, SocketOK, Unused
    <3>4. ASSUME NEW j \in Socket, j # k
          PROVE  /\ ends[j].c = "none" => ends'[j] = ends[j]
                 /\ ends'[j].opened = ends[j].opened /\ ends'[j].c = ends[j].c
      BY <3>1, <3>3, <3>4 DEF EndType
    <3>5. ends'[k].opened = ends[k].opened /\ ends'[k].c = "open"
      BY <3>2, <3>3 DEF EndType
    <3> QED BY <3>2, <3>4, <3>5
  <2>3. Marks'
    BY <1>0, <1>1 DEF Accept, Marks, Unregistered
  <2>4. UNCHANGED <<client, stopped>>
    BY <1>1 DEF Accept
  <2> QED BY <2>1, <2>2, <2>3, <2>4, OthersKeep
<1>2. CASE ServerReceives(k)
  <2>1. UNCHANGED <<client, stopped, ends>> /\ Marks'
    BY <1>0, <1>2 DEF ServerReceives, Marks
  <2> QED BY <1>0, <2>1, OthersKeep DEF Ends
<1>3. CASE ServerEnds(k) \/ Fails(k)
  <2>1. UNCHANGED <<client, stopped>> /\ Marks'
    BY <1>0, <1>3 DEF ServerEnds, Fails, Marks, Unregistered
  <2>2. ends[k] \in EndType /\ ends[k].c # "none"
    BY <1>0, <1>3 DEF ServerEnds, Fails, Ends, SocketOK, Unused
  <2>3. ends' = [ends EXCEPT ![k].s = "closed"] \/ ends' = [ends EXCEPT ![k].dead = TRUE]
    BY <1>3 DEF ServerEnds, Fails
  <2>4. ends' \in [Socket -> EndType]
    <3>1. ASSUME NEW e \in EndType
          PROVE  [e EXCEPT !.s = "closed"] \in EndType /\ [e EXCEPT !.dead = TRUE] \in EndType
      BY DEF EndType
    <3>2. ends \in [Socket -> EndType] /\ ends[k] \in EndType
      BY <1>0 DEF Ends
    <3> QED BY <2>3, <3>1, <3>2
  <2>5. \A j \in Socket : /\ ends[j].c = "none" => ends'[j] = ends[j]
                          /\ ends'[j].opened = ends[j].opened /\ ends'[j].c = ends[j].c
    BY <1>0, <2>2, <2>3 DEF Ends, EndType
  <2> QED BY <2>1, <2>4, <2>5, OthersKeep
<1> QED BY <1>1, <1>2, <1>3

LEMMA TrafficKeeps ==
  ASSUME ShellFollows,
         \/ \E k \in Socket, e \in {"c", "s"} : SendPresent(k, e) \/ SendOther(k, e)
         \/ \E i \in {0} \cup Socket : Timeout(i)
  PROVE  ShellFollows' /\ Created' = Created /\ stopped' = stopped
<1>0. Resources /\ Marks /\ Ends
  BY Parts
<1>1. UNCHANGED <<client, stopped, ends>>
  BY DEF SendPresent, SendOther, Timeout
<1>2. Marks'
  BY <1>0 DEF SendPresent, SendOther, Timeout, Marks, Resources
<1> QED BY <1>0, <1>1, <1>2, OthersKeep DEF Ends

-----------------------------------------------------------------------------
(* The theorems.                                                           *)

LEMMA InitFollows == Init => ShellFollows
<1> SUFFICES ASSUME Init PROVE ShellFollows
  OBVIOUS
<1>1. Resources /\ Marks
  <2>1. model \in Model /\ model.status = "disconnected"
    BY ClientAssumption DEF Init, Fresh, Initially, Model, Status
  <2>2. socket = 0 /\ channel = 0 /\ keepalive = FALSE /\ timer = FALSE
    BY DEF Init, Fresh
  <2> QED BY <2>1, <2>2 DEF Init, Fresh, Resources, Marks, Connected
<1>2. Used = {}
  BY DEF Init, Fresh, Used, Unused
<1>3. Created = 0
  BY <1>2, FS_EmptySet DEF Created
<1>4. Ends
  BY <1>2, <1>3 DEF Init, Fresh, Ends, EndType, SocketOK, Unused
<1> QED BY <1>1, <1>4, Parts

LEMMA NextFollows ==
  ASSUME ShellFollows, Next
  PROVE  ShellFollows' /\ (stopped => stopped' /\ Created' = Created)
<1>1. CASE Start
  BY <1>1, StartKeeps
<1>2. CASE TimerFires
  BY <1>2, TimerFiresKeeps
<1>3. CASE Stop
  BY <1>3, StopKeeps
<1>4. CASE \E k \in Socket : SocketOpened(k) \/ ClientReceives(k) \/ ClientEnds(k)
  BY <1>4, SocketOpenedKeeps, ClientReceivesKeeps, ClientEndsKeeps
<1>5. CASE \E k \in Socket : Accept(k) \/ ServerReceives(k) \/ ServerEnds(k) \/ Fails(k)
  BY <1>5, ServerKeeps
<1>6. CASE \/ \E k \in Socket, e \in {"c", "s"} : SendPresent(k, e) \/ SendOther(k, e)
           \/ \E i \in {0} \cup Socket : Timeout(i)
  BY <1>6, TrafficKeeps
<1> QED BY <1>1, <1>2, <1>3, <1>4, <1>5, <1>6 DEF Next, ClientStep, ServerStep

LEMMA StutterFollows == ShellFollows /\ UNCHANGED vars => ShellFollows' /\ stopped' = stopped /\ Created' = Created
BY DEF vars, ShellFollows, ConnectionTypeOK, NoStraySocket, SocketsInOrder, Used, Created

\* The client's channel, keepalive and timer are those of its state, and no socket but the current one is open, whatever
\* fails, is replaced or is stopped when (client-transport.ts executing client-program.ts).
THEOREM ShellFollowsCorrect == Spec => []ShellFollows
<1>1. ShellFollows /\ [Next]_vars => ShellFollows'
  BY NextFollows, StutterFollows
<1> QED BY <1>1, InitFollows, PTL DEF Spec

\* A stopped client opens no socket and adds no channel (client-program.ts, stop).
THEOREM StopIsFinalCorrect == Spec => StopIsFinal
<1>1. ShellFollows => (stopped => model.status = "disconnected" /\ channel = 0)
  BY DEF ShellFollows, SocketsInOrder, ConnectionTypeOK
<1>2. ASSUME ShellFollows, [Next]_vars, stopped
      PROVE  Created' = Created /\ channel' = 0 /\ model'.status = "disconnected"
  <2>1. ShellFollows' /\ stopped' /\ Created' = Created
    BY <1>2, NextFollows, StutterFollows
  <2> QED BY <2>1 DEF ShellFollows, SocketsInOrder, ConnectionTypeOK
<1>3. ShellFollows /\ [Next]_vars
        => [stopped => Created' = Created /\ channel' = 0 /\ model'.status = "disconnected"]_vars
  BY <1>2
<1> QED BY <1>3, ShellFollowsCorrect, PTL DEF Spec, StopIsFinal

-----------------------------------------------------------------------------
(* The client's socket.                                                    *)

\* A client on the way to a connection has a socket that is not closed, and a ready one has its channel there.
Current ==
  /\ model.status \in Engaged => socket \in Socket /\ ends[socket].c \in {"connecting", "open"}
  /\ model.status = "ready" => channel = socket /\ ends[socket].c = "open" /\ ends[socket].s # "none"

-----------------------------------------------------------------------------
(* What the pipelines make of each other's messages.                       *)

FrameSet == [t : {"ready", "establish", "announce", "use"}, doc : Doc \cup {"none"}, alias : Nat, seq : Nat, part : 0 .. 2]
Wires == Seq(FrameSet)
IsPipe(p) ==
  p \in [out : Seq(Doc), in : {p.in}, self : BOOLEAN, peer : BOOLEAN, seq : Nat, batch : SUBSET FrameSet]

\* f with the other half of its message.
Half(f, n) == [f EXCEPT !.part = n]

\* The frame with which an alias is learnt.
Completes(f, a) == f.t = "announce" /\ f.part # 1 /\ f.alias = a

\* The second half of a message follows its first at once, and waits for it alone.
Whole(batch, w) ==
  /\ \A i \in DOMAIN w : w[i].part # 0 => w[i].t = "announce"
  /\ \A i \in DOMAIN w : w[i].part = 1 => i + 1 \in DOMAIN w /\ w[i + 1] = Half(w[i], 2)
  /\ \A i \in DOMAIN w : w[i].part = 2 /\ i # 1 => w[i - 1].part = 1
  /\ batch # {} => w # <<>> /\ w[1].part = 2
  /\ w # <<>> /\ w[1].part = 2 => batch = {Half(w[1], 1)}

\* What pipeline p will make of the frames w is what was sent: an alias used is known by then, and stands for one document.
Sound(p, w) ==
  /\ Whole(p.batch, w)
  /\ \A i \in DOMAIN w : w[i].t = "announce" /\ w[i].alias \in DOMAIN p.in => p.in[w[i].alias] = w[i].doc
  /\ \A i, j \in DOMAIN w : w[i].t = "announce" /\ w[j].t = "announce" /\ w[i].alias = w[j].alias => w[i].doc = w[j].doc
  /\ \A i \in DOMAIN w : w[i].t = "use" /\ w[i].alias # 0 =>
       \/ w[i].alias \in DOMAIN p.in /\ p.in[w[i].alias] = w[i].doc
       \/ \E j \in DOMAIN w : j < i /\ Completes(w[j], w[i].alias) /\ w[j].doc = w[i].doc

\* The sender's aliases out are those that p knows or is about to be told.
Told(out, p, w) ==
  /\ \A a \in DOMAIN p.in : a \in DOMAIN out /\ p.in[a] = out[a]
  /\ \A i \in DOMAIN w : w[i].t = "announce" => w[i].alias \in DOMAIN out /\ w[i].doc = out[w[i].alias]
  /\ \A a \in DOMAIN out : a \in DOMAIN p.in \/ \E i \in DOMAIN w : Completes(w[i], a)

Serving(k) == k \in served /\ ends[k].s = "open"

\* The server reads what the client sent, the client what the server sent.
ServerReads(k) ==
  Serving(k) /\ k \notin broken =>
    Sound(pipe[k], frames[k].s) /\ (k = channel => Told(pipe[0].out, pipe[k], frames[k].s))

ClientReads(k) ==
  k = channel /\ k \notin broken =>
    Sound(pipe[0], frames[k].c) /\ (Serving(k) => Told(pipe[k].out, pipe[0], frames[k].c))

\* A connection not accepted has no trace, and one without a channel at the client has been told at most "ready".
Untouched(k) ==
  /\ ends[k].s = "none" => frames[k] = NoFrames /\ pipe[k] = EmptyPipe
  /\ ends[k].c \in {"connecting", "open"} /\ channel # k =>
       frames[k].s = <<>> /\ pipe[k] = EmptyPipe /\ frames[k].c \in {<<>>, <<Ready>>}

PipesTyped ==
  /\ pipe = [i \in {0} \cup Socket |-> pipe[i]] /\ \A i \in {0} \cup Socket : IsPipe(pipe[i])
  /\ frames \in [Socket -> [c : Wires, s : Wires]]

ReadInv ==
  /\ PipesTyped /\ Current /\ misread \subseteq broken
  /\ \A k \in Socket : Untouched(k) /\ ServerReads(k) /\ ClientReads(k)

-----------------------------------------------------------------------------
(* What a frame received, and what is sent, leaves of these.               *)

LEMMA FrameFields ==
  ASSUME NEW f \in FrameSet, NEW n \in 0 .. 2
  PROVE  /\ Half(f, n) \in FrameSet /\ Half(f, n).part = n
         /\ Half(f, n).t = f.t /\ Half(f, n).doc = f.doc /\ Half(f, n).alias = f.alias /\ Half(f, n).seq = f.seq
BY DEF FrameSet, Half

\* The rest of a wire is the wire from its second frame on.
LEMMA WireTail ==
  ASSUME NEW w \in Wires, w # <<>>
  PROVE  /\ Head(w) = w[1] /\ Head(w) \in FrameSet /\ Tail(w) \in Wires /\ 1 \in DOMAIN w
         /\ \A i \in DOMAIN Tail(w) : i \in Nat /\ i # 0 /\ i + 1 \in DOMAIN w /\ Tail(w)[i] = w[i + 1]
         /\ \A i \in DOMAIN w : i # 1 => i - 1 \in DOMAIN Tail(w) /\ Tail(w)[i - 1] = w[i]
         /\ Tail(w) # <<>> => 2 \in DOMAIN w /\ Tail(w)[1] = w[2]
BY DEF Wires

LEMMA PipeFields ==
  ASSUME NEW p, IsPipe(p)
  PROVE  /\ p.out \in Seq(Doc) /\ p.self \in BOOLEAN /\ p.peer \in BOOLEAN /\ p.seq \in Nat /\ p.batch \subseteq FrameSet
         /\ DOMAIN p = {"out", "in", "self", "peer", "seq", "batch"}
BY DEF IsPipe

\* A pipeline that learnt an alias, its partial messages aside.
LearntFrom(q, p, f) ==
  /\ DOMAIN q.in = DOMAIN p.in \cup {f.alias}
  /\ \A a \in DOMAIN q.in : q.in[a] = IF a = f.alias THEN f.doc ELSE p.in[a]

LEMMA LearnsFields ==
  ASSUME NEW p, IsPipe(p), NEW f, NEW q, q = Learns([p EXCEPT !.batch = {}], f)
  PROVE  IsPipe(q) /\ q.out = p.out /\ q.batch = {} /\ LearntFrom(q, p, f)
<1> DEFINE r == [p EXCEPT !.batch = {}]
<1>1. r.in = p.in /\ r.out = p.out /\ r.batch = {} /\ IsPipe(r)
  BY DEF IsPipe
<1>2. q = [r EXCEPT !.in = [a \in DOMAIN r.in \cup {f.alias} |-> IF a = f.alias THEN f.doc ELSE r.in[a]]]
  BY DEF Learns
<1> HIDE DEF r
<1>3. q.in = [a \in DOMAIN r.in \cup {f.alias} |-> IF a = f.alias THEN f.doc ELSE r.in[a]]
  BY <1>1, <1>2 DEF IsPipe
<1>4. IsPipe(q) /\ q.out = p.out /\ q.batch = {}
  BY <1>1, <1>2 DEF IsPipe
<1>5. LearntFrom(q, p, f)
  BY <1>1, <1>3 DEF LearntFrom
<1> QED BY <1>4, <1>5

\* The rest of a whole wire is whole for the pipeline that took the first frame.
LEMMA WholeTail ==
  ASSUME NEW w \in Wires, w # <<>>, NEW batch, Whole(batch, w)
  PROVE  /\ Head(w).part = 1 => Whole({Head(w)}, Tail(w))
         /\ Head(w).part # 1 => Whole({}, Tail(w))
<1> DEFINE v == Tail(w)
           f == Head(w)
<1>1. f = w[1] /\ f \in FrameSet /\ 1 \in DOMAIN w
  BY WireTail
<1>2. /\ \A i \in DOMAIN v : i \in Nat /\ i # 0 /\ i + 1 \in DOMAIN w /\ v[i] = w[i + 1]
      /\ \A i \in DOMAIN w : i # 1 => i - 1 \in DOMAIN v /\ v[i - 1] = w[i]
      /\ v # <<>> => 2 \in DOMAIN w /\ v[1] = w[2]
  BY WireTail
<1>3. \A i \in DOMAIN w : i \in Nat
  BY DEF Wires
<1>4. f.part = 1 => v # <<>> /\ v[1] = Half(f, 2) /\ v[1].part = 2 /\ Half(v[1], 1) = f
  <2> HAVE f.part = 1
  <2>1. 1 + 1 \in DOMAIN w /\ w[1 + 1] = Half(f, 2)
    BY <1>1 DEF Whole
  <2>2. v # <<>> /\ v[1] = Half(f, 2)
    BY <1>2, <2>1 DEF Wires
  <2>3. Half(f, 2).part = 2 /\ Half(Half(f, 2), 1) = f
    BY <1>1 DEF Half, FrameSet
  <2> QED BY <2>2, <2>3
<1>5. v # <<>> /\ v[1].part = 2 => f.part = 1
  <2> HAVE v # <<>> /\ v[1].part = 2
  <2>1. 2 \in DOMAIN w /\ w[2].part = 2
    BY <1>2
  <2>2. \A i \in DOMAIN w : w[i].part = 2 /\ i # 1 => w[i - 1].part = 1
    BY DEF Whole
  <2>3. \A n \in Nat : n = 2 => n - 1 = 1
    OBVIOUS
  <2>4. ASSUME NEW n \in DOMAIN w, n = 2 PROVE w[n - 1].part = 1
    <3>1. w[n].part = 2 /\ n # 1
      BY <2>1, <2>4
    <3> QED BY <2>2, <3>1
  <2> QED BY <1>1, <2>1, <2>3, <2>4
<1> HIDE DEF f, v
<1>6. \A i \in DOMAIN v : v[i].part # 0 => v[i].t = "announce"
  BY <1>2 DEF Whole
<1>7. ASSUME NEW i \in DOMAIN v, v[i].part = 1 PROVE i + 1 \in DOMAIN v /\ v[i + 1] = Half(v[i], 2)
  <2>1. i + 1 \in DOMAIN w /\ w[i + 1].part = 1 /\ i \in Nat /\ v[i] = w[i + 1]
    BY <1>2, <1>7
  <2>2. (i + 1) + 1 \in DOMAIN w /\ w[(i + 1) + 1] = Half(v[i], 2)
    BY <2>1 DEF Whole
  <2>3. ((i + 1) + 1) - 1 \in DOMAIN v /\ v[((i + 1) + 1) - 1] = w[(i + 1) + 1]
    BY <1>2, <2>1, <2>2
  <2> QED BY <2>1, <2>2, <2>3
<1>8. ASSUME NEW i \in DOMAIN v, v[i].part = 2, i # 1 PROVE v[i - 1].part = 1
  <2>1. i + 1 \in DOMAIN w /\ w[i + 1].part = 2 /\ i \in Nat /\ i # 0 /\ i + 1 # 1
    BY <1>2, <1>8
  <2>2. w[(i + 1) - 1].part = 1
    BY <2>1 DEF Whole
  <2>3. i \in DOMAIN w /\ w[i].part = 1
    BY <2>1, <2>2 DEF Wires
  <2>4. v[i - 1] = w[i]
    BY <1>2, <1>8, <2>3
  <2> QED BY <2>3, <2>4
<1>9. f.part = 1 => Whole({f}, v)
  BY <1>4, <1>6, <1>7, <1>8 DEF Whole
<1>10. f.part # 1 => Whole({}, v)
  BY <1>5, <1>6, <1>7, <1>8 DEF Whole
<1> QED BY <1>9, <1>10 DEF v, f

\* What a pipeline does with the next frame of a whole wire.
LEMMA ReceivedWhole ==
  ASSUME NEW p, IsPipe(p), NEW w \in Wires, w # <<>>, Whole(p.batch, w),
         NEW f, f = Head(w), NEW q, q = Received(p, f)
  PROVE  /\ IsPipe(q) /\ q.out = p.out
         /\ Whole(q.batch, Tail(w))
         /\ ~(f.part # 0 /\ \E g \in p.batch : g.seq = f.seq /\ (g.part = f.part \/ g.doc # f.doc \/ g.alias # f.alias))
         /\ f.t = "announce" /\ f.part # 1 => LearntFrom(q, p, f)
         /\ ~(f.t = "announce" /\ f.part # 1) => q.in = p.in
<1> DEFINE mates == {g \in p.batch : g.seq = f.seq}
<1>0. f = w[1] /\ f \in FrameSet /\ f.part \in 0 .. 2 /\ 1 \in DOMAIN w
  BY WireTail DEF FrameSet
<1>w. (f.part = 1 => Whole({f}, Tail(w))) /\ (f.part # 1 => Whole({}, Tail(w)))
  BY WholeTail
<1>1. CASE f.part = 0
  <2>1. p.batch = {} /\ mates = {}
    BY <1>0, <1>1 DEF Whole
  <2>2. CASE f.t = "announce"
    <3>1. q = Learns([p EXCEPT !.batch = p.batch \ mates], f)
      BY <1>1, <2>2 DEF Received
    <3>2. p.batch \ mates = {} /\ {} \in SUBSET FrameSet
      BY <2>1
    <3>3. q = Learns([p EXCEPT !.batch = {}], f)
      BY <3>1, <3>2
    <3>4. IsPipe(q) /\ q.out = p.out /\ q.batch = {} /\ LearntFrom(q, p, f)
      BY <3>3, LearnsFields
    <3>5. Whole({}, Tail(w)) /\ q.batch = {}
      BY <1>1, <1>w, <3>4
    <3>6. Whole(q.batch, Tail(w))
      BY <3>5, Zenon
    <3> QED BY <1>1, <2>2, <3>4, <3>6
  <2>3. CASE f.t # "announce"
    <3>1. q = [p EXCEPT !.peer = TRUE] \/ q = p
      BY <1>1, <2>3 DEF Received
    <3>2. IsPipe(q) /\ q.out = p.out /\ q.batch = p.batch /\ q.in = p.in
      BY <3>1 DEF IsPipe
    <3>3. q.batch = {}
      BY <2>1, <3>2
    <3>4. Whole({}, Tail(w))
      BY <1>1, <1>w
    <3>5. Whole(q.batch, Tail(w))
      BY <3>3, <3>4, Zenon
    <3> QED BY <1>1, <2>3, <3>2, <3>5
  <2> QED BY <2>2, <2>3
<1>2. CASE f.part = 1
  <2>1. p.batch = {} /\ mates = {}
    BY <1>0, <1>2 DEF Whole
  <2>2. f.part # 0 /\ mates = {}
    BY <1>2, <2>1
  <2>3. q = [p EXCEPT !.batch = p.batch \cup {f}]
    BY <1>0, <1>2, <2>2 DEF Received, Whole
  <2>4. IsPipe(q) /\ q.out = p.out /\ q.batch = {f} /\ q.in = p.in
    BY <1>0, <2>1, <2>3 DEF IsPipe
  <2> QED BY <1>2, <1>w, <2>1, <2>4
<1>3. CASE f.part = 2
  <2>1. p.batch = {Half(f, 1)} /\ f.t = "announce"
    BY <1>0, <1>3 DEF Whole
  <2>2. /\ Half(f, 1).part = 1 /\ Half(f, 1).seq = f.seq /\ Half(f, 1).doc = f.doc /\ Half(f, 1).alias = f.alias
    BY <1>0, FrameFields
  <2>3. mates = p.batch /\ mates # {} /\ ~\E g \in mates : g.part = f.part
    BY <1>3, <2>1, <2>2
  <2>4. q = Learns([p EXCEPT !.batch = p.batch \ mates], f)
    BY <2>1, <2>3 DEF Received
  <2>5. q = Learns([p EXCEPT !.batch = {}], f)
    BY <2>3, <2>4
  <2>6. IsPipe(q) /\ q.out = p.out /\ q.batch = {} /\ LearntFrom(q, p, f)
    BY <2>5, LearnsFields
  <2>7. Whole(q.batch, Tail(w))
    <3>1. Whole({}, Tail(w)) /\ q.batch = {}
      BY <1>3, <1>w, <2>6
    <3> QED BY <3>1, Zenon
  <2>8. ~\E g \in p.batch : g.seq = f.seq /\ (g.part = f.part \/ g.doc # f.doc \/ g.alias # f.alias)
    BY <1>3, <2>1, <2>2
  <2> QED BY <1>3, <2>1, <2>6, <2>7, <2>8
<1> QED BY <1>0, <1>1, <1>2, <1>3

\* The next frame of a sound wire is not misread, and what follows stays sound.
LEMMA ReceivedSound ==
  ASSUME NEW p, IsPipe(p), NEW w \in Wires, w # <<>>, Sound(p, w)
  PROVE  /\ IsPipe(Received(p, Head(w))) /\ Received(p, Head(w)).out = p.out
         /\ Sound(Received(p, Head(w)), Tail(w)) /\ ~Misreads(p, Head(w))
<1> DEFINE f == Head(w)
           q == Received(p, f)
           v == Tail(w)
<1>1. /\ IsPipe(q) /\ q.out = p.out /\ Whole(q.batch, v)
      /\ ~(f.part # 0 /\ \E g \in p.batch : g.seq = f.seq /\ (g.part = f.part \/ g.doc # f.doc \/ g.alias # f.alias))
      /\ f.t = "announce" /\ f.part # 1 => LearntFrom(q, p, f)
      /\ ~(f.t = "announce" /\ f.part # 1) => q.in = p.in
  BY ReceivedWhole DEF Sound
<1>2. f = w[1] /\ 1 \in DOMAIN w
  BY WireTail
<1>3. /\ \A i \in DOMAIN v : i \in Nat /\ i # 0 /\ i + 1 \in DOMAIN w /\ v[i] = w[i + 1]
      /\ \A i \in DOMAIN w : i \in Nat /\ (i # 1 => i - 1 \in DOMAIN v /\ v[i - 1] = w[i])
  BY WireTail DEF Wires
<1>4. ~Misreads(p, f)
  <2>1. Understands(p, f)
    BY <1>2, <1>3 DEF Understands, Sound, Wires
  <2> QED BY <1>1, <2>1 DEF Misreads
<1> HIDE DEF f, q, v
<1>5. \A i \in DOMAIN v : v[i].t = "announce" /\ v[i].alias \in DOMAIN q.in => q.in[v[i].alias] = v[i].doc
  <2> TAKE i \in DOMAIN v
  <2>1. i + 1 \in DOMAIN w /\ v[i] = w[i + 1]
    BY <1>3
  <2>2. CASE f.t = "announce" /\ f.part # 1
    BY <1>1, <1>2, <2>1, <2>2 DEF Sound, LearntFrom
  <2>3. CASE ~(f.t = "announce" /\ f.part # 1)
    BY <1>1, <2>1, <2>3 DEF Sound
  <2> QED BY <2>2, <2>3
<1>6. \A i, j \in DOMAIN v : v[i].t = "announce" /\ v[j].t = "announce" /\ v[i].alias = v[j].alias => v[i].doc = v[j].doc
  BY <1>3 DEF Sound
<1>7. \A i \in DOMAIN v : v[i].t = "use" /\ v[i].alias # 0 =>
        \/ v[i].alias \in DOMAIN q.in /\ q.in[v[i].alias] = v[i].doc
        \/ \E j \in DOMAIN v : j < i /\ Completes(v[j], v[i].alias) /\ v[j].doc = v[i].doc
  <2> SUFFICES ASSUME NEW i \in DOMAIN v, v[i].t = "use", v[i].alias # 0
      PROVE  \/ v[i].alias \in DOMAIN q.in /\ q.in[v[i].alias] = v[i].doc
             \/ \E j \in DOMAIN v : j < i /\ Completes(v[j], v[i].alias) /\ v[j].doc = v[i].doc
    OBVIOUS
  <2>1. i + 1 \in DOMAIN w /\ v[i] = w[i + 1] /\ i \in Nat
    BY <1>3
  <2>2. CASE w[i + 1].alias \in DOMAIN p.in /\ p.in[w[i + 1].alias] = w[i + 1].doc
    <3>1. CASE f.t = "announce" /\ f.part # 1
      <4>1. f.alias = w[i + 1].alias => f.doc = w[i + 1].doc
        BY <1>2, <2>2, <3>1 DEF Sound
      <4> QED BY <1>1, <2>1, <2>2, <3>1, <4>1 DEF LearntFrom
    <3>2. CASE ~(f.t = "announce" /\ f.part # 1)
      BY <1>1, <2>1, <2>2, <3>2
    <3> QED BY <3>1, <3>2
  <2>3. CASE \E j \in DOMAIN w : j < i + 1 /\ Completes(w[j], w[i + 1].alias) /\ w[j].doc = w[i + 1].doc
    <3>1. PICK j \in DOMAIN w : j < i + 1 /\ Completes(w[j], w[i + 1].alias) /\ w[j].doc = w[i + 1].doc
      BY <2>3
    <3>2. CASE j = 1
      BY <1>1, <1>2, <2>1, <3>1, <3>2 DEF Completes, LearntFrom
    <3>3. CASE j # 1
      <4>1. j - 1 \in DOMAIN v /\ v[j - 1] = w[j] /\ j - 1 < i
        BY <1>3, <2>1, <3>1, <3>3
      <4> QED BY <2>1, <3>1, <4>1
    <3> QED BY <3>2, <3>3
  <2> QED BY <2>1, <2>2, <2>3 DEF Sound
<1>8. Sound(q, v)
  BY <1>1, <1>5, <1>6, <1>7 DEF Sound
<1> QED BY <1>1, <1>4, <1>8 DEF f, q, v

\* A sender's aliases stay those its receiver knows or is about to be told.
LEMMA ReceivedTold ==
  ASSUME NEW p, IsPipe(p), NEW w \in Wires, w # <<>>, Whole(p.batch, w), NEW out, Told(out, p, w)
  PROVE  Told(out, Received(p, Head(w)), Tail(w))
<1> DEFINE f == Head(w)
           q == Received(p, f)
           v == Tail(w)
<1>1. /\ f.t = "announce" /\ f.part # 1 => LearntFrom(q, p, f)
      /\ ~(f.t = "announce" /\ f.part # 1) => q.in = p.in
  BY ReceivedWhole
<1>2. f = w[1] /\ 1 \in DOMAIN w
  BY WireTail
<1>3. /\ \A i \in DOMAIN v : i + 1 \in DOMAIN w /\ v[i] = w[i + 1]
      /\ \A i \in DOMAIN w : i # 1 => i - 1 \in DOMAIN v /\ v[i - 1] = w[i]
  BY WireTail
<1> HIDE DEF f, q, v
<1>4. \A a \in DOMAIN q.in : a \in DOMAIN out /\ q.in[a] = out[a]
  <2>1. CASE f.t = "announce" /\ f.part # 1
    BY <1>1, <1>2, <2>1 DEF Told, LearntFrom
  <2>2. CASE ~(f.t = "announce" /\ f.part # 1)
    BY <1>1, <2>2 DEF Told
  <2> QED BY <2>1, <2>2
<1>5. \A i \in DOMAIN v : v[i].t = "announce" => v[i].alias \in DOMAIN out /\ v[i].doc = out[v[i].alias]
  BY <1>3 DEF Told
<1>6. ASSUME NEW a \in DOMAIN out PROVE a \in DOMAIN q.in \/ \E i \in DOMAIN v : Completes(v[i], a)
  <2>1. CASE a \in DOMAIN p.in
    BY <1>1, <2>1 DEF LearntFrom
  <2>2. CASE \E i \in DOMAIN w : Completes(w[i], a)
    <3>1. PICK i \in DOMAIN w : Completes(w[i], a)
      BY <2>2
    <3>2. CASE i = 1
      BY <1>1, <1>2, <3>1, <3>2 DEF Completes, LearntFrom
    <3>3. CASE i # 1
      BY <1>3, <3>1, <3>3
    <3> QED BY <3>2, <3>3
  <2> QED BY <2>1, <2>2 DEF Told
<1>7. Told(out, q, v)
  BY <1>4, <1>5, <1>6 DEF Told
<1> QED BY <1>7 DEF f, q, v

\* Announcing a document gives it its alias, the one it has if it has one.
LEMMA AnnouncedAlias ==
  ASSUME NEW p, IsPipe(p), NEW d \in Doc, NEW q, q = Announced(p, d), NEW a, a = AliasIn(q, d)
  PROVE  /\ IsPipe(q) /\ q.in = p.in /\ q.batch = p.batch
         /\ DOMAIN q.out = DOMAIN p.out \cup {a} /\ q.out[a] = d /\ a \in Nat
         /\ \A x \in DOMAIN p.out : q.out[x] = p.out[x]
<1>0. p.out \in Seq(Doc) /\ p.seq \in Nat
  BY PipeFields
<1>1. CASE AliasIn(p, d) # 0
  <2>1. q = [p EXCEPT !.seq = @ + 1]
    BY <1>1 DEF Announced
  <2>2. IsPipe(q) /\ q.in = p.in /\ q.batch = p.batch /\ q.out = p.out
    <3>1. p.seq + 1 \in Nat
      BY <1>0
    <3> QED BY <2>1, <3>1 DEF IsPipe
  <2>3. \E k \in DOMAIN p.out : p.out[k] = d
    BY <1>1 DEF AliasIn
  <2>4. a = CHOOSE k \in DOMAIN p.out : p.out[k] = d
    BY <2>2, <2>3 DEF AliasIn
  <2>5. a \in DOMAIN p.out /\ p.out[a] = d
    BY <2>3, <2>4
  <2> QED BY <1>0, <2>2, <2>5
<1>2. CASE AliasIn(p, d) = 0
  <2>1. ~\E k \in DOMAIN p.out : p.out[k] = d
    <3>1. ASSUME \E k \in DOMAIN p.out : p.out[k] = d PROVE FALSE
      <4>1. (CHOOSE k \in DOMAIN p.out : p.out[k] = d) \in DOMAIN p.out
        BY <3>1
      <4>2. AliasIn(p, d) \in DOMAIN p.out
        BY <3>1, <4>1 DEF AliasIn
      <4> QED BY <1>0, <1>2, <4>2
    <3> QED BY <3>1
  <2>2. q = [p EXCEPT !.out = Append(@, d), !.seq = @ + 1]
    BY <1>2 DEF Announced
  <2>3. q.out = Append(p.out, d) /\ q.in = p.in /\ q.batch = p.batch /\ IsPipe(q)
    <3>1. Append(p.out, d) \in Seq(Doc) /\ p.seq + 1 \in Nat
      BY <1>0
    <3> QED BY <2>2, <3>1 DEF IsPipe
  <2>4. /\ DOMAIN q.out = DOMAIN p.out \cup {Len(p.out) + 1} /\ q.out[Len(p.out) + 1] = d
        /\ Len(p.out) \in Nat /\ \A x \in DOMAIN p.out : q.out[x] = p.out[x]
    BY <1>0, <2>3
  <2>5. \E k \in DOMAIN q.out : q.out[k] = d
    BY <2>4
  <2>6. a = CHOOSE k \in DOMAIN q.out : q.out[k] = d
    BY <2>5 DEF AliasIn
  <2>7. a \in DOMAIN q.out /\ q.out[a] = d
    BY <2>5, <2>6
  <2>8. a = Len(p.out) + 1
    BY <2>1, <2>4, <2>7
  <2> QED BY <2>3, <2>4, <2>8
<1> QED BY <1>1, <1>2

\* An announcement at the end of a sound wire leaves it sound, and tells of the alias.
LEMMA ExtendedSound ==
  ASSUME NEW p, NEW w, NEW v, NEW out, NEW more, NEW a, NEW d,
         Sound(p, w), Told(out, p, w), Whole(p.batch, v),
         DOMAIN w \subseteq DOMAIN v, \A i \in DOMAIN w : v[i] = w[i],
         \A i \in DOMAIN v \ DOMAIN w : v[i].t = "announce" /\ v[i].alias = a /\ v[i].doc = d,
         \E i \in DOMAIN v : Completes(v[i], a),
         DOMAIN more = DOMAIN out \cup {a}, more[a] = d, \A x \in DOMAIN out : more[x] = out[x]
  PROVE  Sound(p, v) /\ Told(more, p, v)
<1>1. \A i \in DOMAIN v : v[i].t = "announce" => v[i].alias \in DOMAIN more /\ v[i].doc = more[v[i].alias]
  <2> SUFFICES ASSUME NEW i \in DOMAIN v, v[i].t = "announce"
               PROVE  v[i].alias \in DOMAIN more /\ v[i].doc = more[v[i].alias]
    OBVIOUS
  <2>1. CASE i \in DOMAIN w
    BY <2>1 DEF Told
  <2>2. CASE i \notin DOMAIN w
    BY <2>2
  <2> QED BY <2>1, <2>2
<1>2. \A x \in DOMAIN p.in : x \in DOMAIN more /\ p.in[x] = more[x]
  BY DEF Told
<1>3. \A x \in DOMAIN more : x \in DOMAIN p.in \/ \E i \in DOMAIN v : Completes(v[i], x)
  <2> SUFFICES ASSUME NEW x \in DOMAIN more, x \notin DOMAIN p.in PROVE \E i \in DOMAIN v : Completes(v[i], x)
    OBVIOUS
  <2>1. CASE x = a
    BY <2>1
  <2>2. CASE x # a
    <3>1. PICK i \in DOMAIN w : Completes(w[i], x)
      BY <2>2 DEF Told
    <3> QED BY <3>1
  <2> QED BY <2>1, <2>2
<1>4. Told(more, p, v)
  BY <1>1, <1>2, <1>3 DEF Told
<1>5. \A i \in DOMAIN v : v[i].t = "announce" /\ v[i].alias \in DOMAIN p.in => p.in[v[i].alias] = v[i].doc
  BY <1>1, <1>2
<1>6. \A i, j \in DOMAIN v : v[i].t = "announce" /\ v[j].t = "announce" /\ v[i].alias = v[j].alias => v[i].doc = v[j].doc
  BY <1>1
<1>7. \A i \in DOMAIN v : v[i].t = "use" /\ v[i].alias # 0 =>
        \/ v[i].alias \in DOMAIN p.in /\ p.in[v[i].alias] = v[i].doc
        \/ \E j \in DOMAIN v : j < i /\ Completes(v[j], v[i].alias) /\ v[j].doc = v[i].doc
  <2> SUFFICES ASSUME NEW i \in DOMAIN v, v[i].t = "use", v[i].alias # 0, ~(v[i].alias \in DOMAIN p.in /\ p.in[v[i].alias] = v[i].doc)
               PROVE  \E j \in DOMAIN v : j < i /\ Completes(v[j], v[i].alias) /\ v[j].doc = v[i].doc
    OBVIOUS
  <2>1. i \in DOMAIN w /\ v[i] = w[i]
    OBVIOUS
  <2>2. PICK j \in DOMAIN w : j < i /\ Completes(w[j], w[i].alias) /\ w[j].doc = w[i].doc
    BY <2>1 DEF Sound
  <2> QED BY <2>1, <2>2
<1>8. Sound(p, v)
  BY <1>5, <1>6, <1>7 DEF Sound
<1> QED BY <1>4, <1>8

\* v is w and the frame f, or both halves of f's message.
Longer(v, w, f) ==
  /\ v \in Wires /\ Len(w) \in Nat /\ Len(w) + 1 \notin DOMAIN w
  /\ DOMAIN v = DOMAIN w \cup {Len(w) + 1} /\ v[Len(w) + 1] = f
  /\ \A i \in DOMAIN w : v[i] = w[i] /\ i < Len(w) + 1

LongerByTwo(v, w, f) ==
  /\ v \in Wires /\ DOMAIN v = DOMAIN w \cup {Len(w) + 1, Len(w) + 2}
  /\ v[Len(w) + 1] = f /\ v[Len(w) + 2] = Half(f, 2)
  /\ \A i \in DOMAIN w : v[i] = w[i]

\* A message in one frame at the end of a whole wire.
LEMMA WholeOne ==
  ASSUME NEW w \in Wires, NEW batch, Whole(batch, w), NEW f \in FrameSet, f.part = 0
  PROVE  Whole(batch, Append(w, f)) /\ Longer(Append(w, f), w, f)
<1> DEFINE v == Append(w, f)
<1>1. /\ v \in Wires /\ Len(w) \in Nat /\ DOMAIN w = 1 .. Len(w)
      /\ DOMAIN v = DOMAIN w \cup {Len(w) + 1} /\ Len(w) + 1 \notin DOMAIN w
      /\ \A i \in DOMAIN w : v[i] = w[i] /\ i < Len(w) + 1
      /\ v[Len(w) + 1] = f
  BY DEF Wires
<1>2. v # <<>> /\ (w = <<>> => v[1] = f) /\ (w # <<>> => v[1] = w[1])
  BY <1>1 DEF Wires
<1>3. \A i \in DOMAIN v : v[i].part # 0 => i \in DOMAIN w
  BY <1>1
<1> HIDE DEF v
<1>4. \A i \in DOMAIN v : v[i].part # 0 => v[i].t = "announce"
  BY <1>1, <1>3 DEF Whole
<1>5. \A i \in DOMAIN v : v[i].part = 1 => i + 1 \in DOMAIN v /\ v[i + 1] = Half(v[i], 2)
  BY <1>1, <1>3 DEF Whole
<1>6. \A i \in DOMAIN v : v[i].part = 2 /\ i # 1 => v[i - 1].part = 1
  <2> SUFFICES ASSUME NEW i \in DOMAIN v, v[i].part = 2, i # 1 PROVE v[i - 1].part = 1
    OBVIOUS
  <2>1. i \in DOMAIN w /\ w[i].part = 2
    BY <1>1, <1>3
  <2>2. w[i - 1].part = 1 /\ i - 1 \in DOMAIN w
    BY <1>1, <2>1 DEF Whole
  <2> QED BY <1>1, <2>2
<1>7. batch # {} => v # <<>> /\ v[1].part = 2
  BY <1>2 DEF Whole
<1>8. v # <<>> /\ v[1].part = 2 => batch = {Half(v[1], 1)}
  BY <1>2 DEF Whole
<1>9. Whole(batch, v) /\ Longer(v, w, f)
  BY <1>1, <1>4, <1>5, <1>6, <1>7, <1>8 DEF Whole, Longer
<1> QED BY <1>9 DEF v

\* A message in two.
LEMMA WholeTwo ==
  ASSUME NEW w \in Wires, NEW batch, Whole(batch, w), NEW f \in FrameSet, f.part = 1, f.t = "announce"
  PROVE  Whole(batch, w \o <<f, Half(f, 2)>>) /\ LongerByTwo(w \o <<f, Half(f, 2)>>, w, f)
<1> DEFINE v == w \o <<f, Half(f, 2)>>
<1>0. Half(f, 2) \in FrameSet /\ Half(f, 2).part = 2 /\ Half(f, 2).t = "announce"
  BY FrameFields
<1>1. /\ v \in Wires /\ Len(w) \in Nat /\ DOMAIN w = 1 .. Len(w)
      /\ DOMAIN v = DOMAIN w \cup {Len(w) + 1, Len(w) + 2}
      /\ \A i \in DOMAIN w : v[i] = w[i] /\ i < Len(w) + 1
      /\ v[Len(w) + 1] = f /\ v[Len(w) + 2] = Half(f, 2)
  BY <1>0 DEF Wires
<1>2. v # <<>> /\ (w = <<>> => v[1] = f) /\ (w # <<>> => v[1] = w[1])
  BY <1>1 DEF Wires
<1> HIDE DEF v
<1>4. \A i \in DOMAIN v : v[i].part # 0 => v[i].t = "announce"
  BY <1>0, <1>1 DEF Whole
<1>5. \A i \in DOMAIN v : v[i].part = 1 => i + 1 \in DOMAIN v /\ v[i + 1] = Half(v[i], 2)
  <2> SUFFICES ASSUME NEW i \in DOMAIN v, v[i].part = 1 PROVE i + 1 \in DOMAIN v /\ v[i + 1] = Half(v[i], 2)
    OBVIOUS
  <2>1. CASE i \in DOMAIN w
    BY <1>1, <2>1 DEF Whole
  <2>2. CASE i = Len(w) + 1
    <3>1. i + 1 = Len(w) + 2
      BY <1>1, <2>2
    <3> QED BY <1>1, <2>2, <3>1
  <2>3. CASE i = Len(w) + 2
    BY <1>0, <1>1, <2>3
  <2> QED BY <1>1, <2>1, <2>2, <2>3
<1>6. \A i \in DOMAIN v : v[i].part = 2 /\ i # 1 => v[i - 1].part = 1
  <2> SUFFICES ASSUME NEW i \in DOMAIN v, v[i].part = 2, i # 1 PROVE v[i - 1].part = 1
    OBVIOUS
  <2>1. CASE i \in DOMAIN w
    <3>1. w[i].part = 2
      BY <1>1, <2>1
    <3>2. w[i - 1].part = 1 /\ i - 1 \in DOMAIN w
      BY <1>1, <2>1, <3>1 DEF Whole
    <3> QED BY <1>1, <3>2
  <2>2. CASE i = Len(w) + 1
    <3>1. v[i] = f
      BY <1>1, <2>2, Zenon
    <3>2. f.part = 2
      BY <3>1, Zenon
    <3> QED BY <3>2
  <2>3. CASE i = Len(w) + 2
    <3>1. i - 1 = Len(w) + 1
      BY <1>1, <2>3
    <3> QED BY <1>1, <3>1
  <2> QED BY <1>1, <2>1, <2>2, <2>3
<1>7. batch # {} => v # <<>> /\ v[1].part = 2
  BY <1>2 DEF Whole
<1>8. v # <<>> /\ v[1].part = 2 => batch = {Half(v[1], 1)}
  BY <1>2 DEF Whole
<1>9. Whole(batch, v) /\ LongerByTwo(v, w, f)
  BY <1>1, <1>4, <1>5, <1>6, <1>7, <1>8 DEF Whole, LongerByTwo
<1> QED BY <1>9 DEF v

\* A present keeps a wire sound, and tells of its document's alias.
LEMMA PresentSound ==
  ASSUME NEW p, NEW s, IsPipe(s), NEW w \in Wires, NEW d \in Doc, NEW big \in BOOLEAN,
         Sound(p, w), Told(s.out, p, w)
  PROVE  /\ Sound(p, w \o Announcement(s, d, big))
         /\ Told(Announced(s, d).out, p, w \o Announcement(s, d, big))
<1> DEFINE q == Announced(s, d)
           a == AliasIn(q, d)
           f == Frame("announce", d, a, s.seq, IF big THEN 1 ELSE 0)
           v == w \o Announcement(s, d, big)
<1>1. /\ DOMAIN q.out = DOMAIN s.out \cup {a} /\ q.out[a] = d /\ a \in Nat
      /\ \A x \in DOMAIN s.out : q.out[x] = s.out[x]
  BY AnnouncedAlias
<1>2. f \in FrameSet
  BY <1>1, PipeFields DEF Frame, FrameSet
<1>3. f.t = "announce" /\ f.alias = a /\ f.doc = d /\ f.part = IF big THEN 1 ELSE 0
  BY DEF Frame
<1>4. CASE big
  <2>1. Announcement(s, d, big) = <<f, Half(f, 2)>>
    BY <1>4 DEF Announcement, Frame, Half
  <2>2. Half(f, 2).t = "announce" /\ Half(f, 2).alias = a /\ Half(f, 2).doc = d /\ Half(f, 2).part = 2
    BY <1>2, <1>3, FrameFields
  <2>3. v = w \o <<f, Half(f, 2)>>
    BY <2>1
  <2> HIDE DEF q, a, f, v
  <2>4. Whole(p.batch, v) /\ LongerByTwo(v, w, f)
    <3>1. Whole(p.batch, w) /\ f.part = 1
      BY <1>3, <1>4 DEF Sound
    <3>2. f \in FrameSet /\ f.t = "announce"
      BY <1>2, <1>3
    <3>3. Whole(p.batch, w \o <<f, Half(f, 2)>>) /\ LongerByTwo(w \o <<f, Half(f, 2)>>, w, f)
      BY <3>1, <3>2, WholeTwo
    <3> QED BY <2>3, <3>3
  <2>5. \A i \in DOMAIN v \ DOMAIN w : v[i].t = "announce" /\ v[i].alias = a /\ v[i].doc = d
    BY <1>3, <2>2, <2>4 DEF LongerByTwo
  <2>6. \E i \in DOMAIN v : Completes(v[i], a)
    <3>1. Len(w) + 2 \in DOMAIN v /\ Completes(v[Len(w) + 2], a)
      BY <2>2, <2>4 DEF Completes, LongerByTwo
    <3> QED BY <3>1
  <2>7. Sound(p, v) /\ Told(q.out, p, v)
    <3>1. /\ DOMAIN w \subseteq DOMAIN v /\ \A i \in DOMAIN w : v[i] = w[i]
          /\ Whole(p.batch, v)
      BY <2>4 DEF LongerByTwo
    <3>2. /\ DOMAIN q.out = DOMAIN s.out \cup {a} /\ q.out[a] = d
          /\ \A x \in DOMAIN s.out : q.out[x] = s.out[x]
      BY <1>1
    <3> QED BY <2>5, <2>6, <3>1, <3>2, ExtendedSound
  <2> QED BY <2>7 DEF v, q
<1>5. CASE ~big
  <2>1. Announcement(s, d, big) = <<f>>
    BY <1>5 DEF Announcement, Frame
  <2>3. v = Append(w, f)
    BY <1>2, <2>1 DEF Wires
  <2> HIDE DEF q, a, f, v
  <2>4. Whole(p.batch, v) /\ Longer(v, w, f)
    <3>1. Whole(p.batch, w) /\ f.part = 0
      BY <1>3, <1>5 DEF Sound
    <3>2. f \in FrameSet
      BY <1>2
    <3>3. Whole(p.batch, Append(w, f)) /\ Longer(Append(w, f), w, f)
      BY <3>1, <3>2, WholeOne
    <3> QED BY <2>3, <3>3
  <2>5. \A i \in DOMAIN v \ DOMAIN w : v[i].t = "announce" /\ v[i].alias = a /\ v[i].doc = d
    BY <1>3, <2>4 DEF Longer
  <2>6. \E i \in DOMAIN v : Completes(v[i], a)
    <3>1. Len(w) + 1 \in DOMAIN v /\ Completes(v[Len(w) + 1], a)
      BY <1>3, <1>5, <2>4 DEF Completes, Longer
    <3> QED BY <3>1
  <2>7. Sound(p, v) /\ Told(q.out, p, v)
    <3>1. /\ DOMAIN w \subseteq DOMAIN v /\ \A i \in DOMAIN w : v[i] = w[i]
          /\ Whole(p.batch, v)
      BY <2>4 DEF Longer
    <3>2. /\ DOMAIN q.out = DOMAIN s.out \cup {a} /\ q.out[a] = d
          /\ \A x \in DOMAIN s.out : q.out[x] = s.out[x]
      BY <1>1
    <3> QED BY <2>5, <2>6, <3>1, <3>2, ExtendedSound
  <2> QED BY <2>7 DEF v, q
<1> QED BY <1>4, <1>5

\* Any other message in one frame does too, if the alias it uses is of its document.
LEMMA OtherSound ==
  ASSUME NEW p, NEW out, NEW w \in Wires, Sound(p, w), Told(out, p, w),
         NEW f \in FrameSet, f.t # "announce", f.part = 0,
         f.t = "use" /\ f.alias # 0 => f.alias \in DOMAIN out /\ out[f.alias] = f.doc
  PROVE  Sound(p, Append(w, f)) /\ Told(out, p, Append(w, f))
<1> DEFINE v == Append(w, f)
           n == Len(w) + 1
<1>1. /\ Whole(p.batch, v)
      /\ DOMAIN v = DOMAIN w \cup {n} /\ \A i \in DOMAIN w : v[i] = w[i] /\ i < n
      /\ v[n] = f /\ n \notin DOMAIN w /\ n \in Nat
  <2>1. Whole(p.batch, w)
    BY DEF Sound
  <2>2. Whole(p.batch, Append(w, f)) /\ Longer(Append(w, f), w, f)
    BY <2>1, WholeOne
  <2> HIDE DEF v
  <2>3. Whole(p.batch, v) /\ Longer(v, w, f)
    BY <2>2 DEF v
  <2> QED BY <2>3 DEF Longer
<1> HIDE DEF v, n
<1>2. \A i \in DOMAIN v : v[i].t = "announce" => i \in DOMAIN w
  BY <1>1
<1>3. Told(out, p, v)
  <2>1. \A i \in DOMAIN v : v[i].t = "announce" => v[i].alias \in DOMAIN out /\ v[i].doc = out[v[i].alias]
    BY <1>1, <1>2 DEF Told
  <2>2. \A x \in DOMAIN out : x \in DOMAIN p.in \/ \E i \in DOMAIN v : Completes(v[i], x)
    <3> SUFFICES ASSUME NEW x \in DOMAIN out, x \notin DOMAIN p.in PROVE \E i \in DOMAIN v : Completes(v[i], x)
      OBVIOUS
    <3>1. PICK i \in DOMAIN w : Completes(w[i], x)
      BY DEF Told
    <3> QED BY <1>1, <3>1
  <2> QED BY <2>1, <2>2 DEF Told
<1>5. \A i \in DOMAIN v : v[i].t = "announce" /\ v[i].alias \in DOMAIN p.in => p.in[v[i].alias] = v[i].doc
  BY <1>1, <1>2 DEF Sound
<1>6. \A i, j \in DOMAIN v : v[i].t = "announce" /\ v[j].t = "announce" /\ v[i].alias = v[j].alias => v[i].doc = v[j].doc
  BY <1>1, <1>2 DEF Sound
<1>7. \A i \in DOMAIN v : v[i].t = "use" /\ v[i].alias # 0 =>
        \/ v[i].alias \in DOMAIN p.in /\ p.in[v[i].alias] = v[i].doc
        \/ \E j \in DOMAIN v : j < i /\ Completes(v[j], v[i].alias) /\ v[j].doc = v[i].doc
  <2> SUFFICES ASSUME NEW i \in DOMAIN v, v[i].t = "use", v[i].alias # 0, ~(v[i].alias \in DOMAIN p.in /\ p.in[v[i].alias] = v[i].doc)
               PROVE  \E j \in DOMAIN v : j < i /\ Completes(v[j], v[i].alias) /\ v[j].doc = v[i].doc
    OBVIOUS
  <2>1. CASE i \in DOMAIN w
    <3>1. PICK j \in DOMAIN w : j < i /\ Completes(w[j], w[i].alias) /\ w[j].doc = w[i].doc
      BY <1>1, <2>1 DEF Sound
    <3> QED BY <1>1, <2>1, <3>1
  <2>2. CASE i = n
    <3>1. f.alias \in DOMAIN out /\ out[f.alias] = f.doc /\ v[i] = f
      BY <1>1, <2>2
    <3>2. f.alias \notin DOMAIN p.in
      BY <3>1 DEF Told
    <3>3. PICK j \in DOMAIN w : Completes(w[j], f.alias)
      BY <3>1, <3>2 DEF Told
    <3>4. w[j].t = "announce" /\ w[j].alias = f.alias
      BY <3>3 DEF Completes
    <3>5. w[j].doc = f.doc
      BY <3>1, <3>4 DEF Told
    <3> QED BY <1>1, <2>2, <3>1, <3>3, <3>5
  <2> QED BY <1>1, <2>1, <2>2
<1>8. Sound(p, v)
  BY <1>1, <1>5, <1>6, <1>7 DEF Sound
<1> QED BY <1>3, <1>8 DEF v

-----------------------------------------------------------------------------
(* What the client's steps leave of the pipelines.                         *)

Live == {"connecting", "open"}

\* Steps that leave what the ends read alone: they open no channel, and empty no wire of one.
LEMMA LeavesReading ==
  ASSUME ReadInv, Current', UNCHANGED <<pipe, misread, broken, served>>,
         channel' \in {channel, 0}, frames' \in [Socket -> [c : Wires, s : Wires]],
         \A k \in Socket :
           /\ ends'[k].s = ends[k].s /\ frames'[k].s = frames[k].s
           /\ frames'[k].c = frames[k].c \/ (frames[k].c # <<>> /\ channel' # k /\ ends'[k].c \notin Live)
           /\ ends'[k].c \in Live => ends[k].s = "none" \/ (ends[k].c \in Live /\ (channel = k => channel' = k))
  PROVE  ReadInv'
<1>1. PipesTyped'
  BY DEF ReadInv, PipesTyped
<1>2. (misread \subseteq broken)'
  BY DEF ReadInv
<1>3. ASSUME NEW k \in Socket PROVE Untouched(k)'
  <2>1. frames[k] \in [c : Wires, s : Wires] /\ frames'[k] \in [c : Wires, s : Wires]
    BY DEF ReadInv, PipesTyped
  <2>2. Untouched(k)
    BY DEF ReadInv
  <2>3. ASSUME ends'[k].s = "none" PROVE frames'[k] = NoFrames /\ pipe'[k] = EmptyPipe
    <3>1. frames[k] = NoFrames /\ pipe[k] = EmptyPipe
      BY <2>2, <2>3 DEF Untouched
    <3>2. frames'[k].c = <<>> /\ frames'[k].s = <<>>
      BY <3>1 DEF NoFrames
    <3> QED BY <2>1, <3>1, <3>2 DEF NoFrames
  <2>4. ASSUME ends'[k].c \in Live, channel' # k
        PROVE  frames'[k].s = <<>> /\ pipe'[k] = EmptyPipe /\ frames'[k].c \in {<<>>, <<Ready>>}
    <3>1. frames'[k].c = frames[k].c /\ frames'[k].s = frames[k].s /\ pipe'[k] = pipe[k]
      BY <2>4
    <3>2. CASE ends[k].s = "none"
      BY <2>2, <3>1, <3>2 DEF Untouched, NoFrames
    <3>3. CASE ends[k].c \in Live /\ channel # k
      BY <2>2, <3>1, <3>3 DEF Untouched, Live
    <3> QED BY <2>4, <3>2, <3>3
  <2> QED BY <2>3, <2>4 DEF Untouched, Live
<1>4. ASSUME NEW k \in Socket PROVE ServerReads(k)' /\ ClientReads(k)'
  <2>1. ServerReads(k) /\ ClientReads(k) /\ k # 0
    BY DEF ReadInv, Socket
  <2>2. Serving(k)' <=> Serving(k)
    BY DEF Serving
  <2>3. k = channel' => k = channel /\ frames'[k].c = frames[k].c
    BY <2>1
  <2>4. frames'[k].s = frames[k].s
    OBVIOUS
  <2>5. ServerReads(k)'
    BY <2>1, <2>2, <2>3, <2>4 DEF ServerReads
  <2>6. ClientReads(k)'
    BY <2>1, <2>2, <2>3 DEF ClientReads
  <2> QED BY <2>5, <2>6
<1> QED BY <1>1, <1>2, <1>3, <1>4 DEF ReadInv

\* A client that opens a socket had no channel, and nobody has accepted the new one.
LEMMA CreateReads ==
  ASSUME ShellFollows, ReadInv, ~stopped, model.status \notin Engaged, Created < MaxSockets,
         socket' = Created + 1, ends' = [ends EXCEPT ![Created + 1].c = "connecting"],
         model'.status = "connecting", channel' = channel,
         UNCHANGED <<pipe, frames, misread, broken, served>>
  PROVE  ReadInv'
<1> DEFINE new == Created + 1
<1>1. new \in Socket /\ new \notin Used
  BY Parts, SocketsFinite DEF Socket, Ends
<1>2. ends[new] = Unused /\ ends \in [Socket -> EndType]
  BY <1>1, Parts DEF Used, Ends, SocketOK
<1>3. channel = 0
  BY Parts DEF Resources, Engaged
<1>4. ends'[new].c = "connecting"
  BY <1>1, <1>2 DEF EndType
<1>5. Current'
  BY <1>1, <1>4 DEF Current
<1>6. \A k \in Socket : /\ ends'[k].s = ends[k].s
                        /\ ends'[k].c \in Live => ends[k].s = "none" \/ ends[k].c \in Live
  BY <1>1, <1>2 DEF EndType, Unused
<1>7. frames' \in [Socket -> [c : Wires, s : Wires]]
  BY DEF ReadInv, PipesTyped
<1>8. \A k \in Socket : channel # k
  BY <1>3 DEF Socket
<1> QED BY <1>3, <1>5, <1>6, <1>7, <1>8, LeavesReading

LEMMA StartReads == ASSUME ShellFollows, ReadInv, Start PROVE ReadInv'
<1>1. Follows(model, OnStart(model)) /\ OnStart(model).status = "connecting" /\ model.status = "disconnected"
  BY Parts, StartFollows DEF Start, Resources, Initially
<1>2. /\ "create" \in OnStart(model).do /\ "add-channel" \notin OnStart(model).do /\ "remove-channel" \notin OnStart(model).do
      /\ Executes(OnStart(model), ends, frames)
  BY <1>1 DEF Follows, Start
<1>3. /\ Created < MaxSockets /\ socket' = Created + 1 /\ ends' = [ends EXCEPT ![Created + 1].c = "connecting"]
      /\ model'.status = "connecting" /\ channel' = channel /\ UNCHANGED <<pipe, frames>>
  BY <1>1, <1>2 DEF Executes
<1> QED BY <1>1, <1>3, CreateReads DEF Start, Engaged

LEMMA TimerFiresReads == ASSUME ShellFollows, ReadInv, TimerFires PROVE ReadInv'
<1>1. model.status = "reconnecting" /\ ~stopped
  BY Parts DEF TimerFires, Resources, Ends
<1>2. OnTimer(model) = To("connecting", model.attempt, {"create"})
  BY <1>1 DEF OnTimer
<1>3. /\ model'.status = "connecting" /\ channel' = channel
      /\ Created < MaxSockets /\ socket' = Created + 1 /\ ends' = [ends EXCEPT ![Created + 1].c = "connecting"]
  BY <1>2 DEF TimerFires, To
<1> QED BY <1>1, <1>3, CreateReads DEF TimerFires, Engaged

LEMMA StopReads == ASSUME ShellFollows, ReadInv, Stop, ShellFollows' PROVE ReadInv'
<1> DEFINE step == OnStop(model)
<1>1. /\ Follows(model, step) /\ step.status = "disconnected" /\ "create" \notin step.do
      /\ "close" \in step.do <=> model.status \in Engaged
  BY Parts, StopFollows DEF Resources
<1>2. Executes(step, ends, frames) /\ "add-channel" \notin step.do
  BY <1>1 DEF Stop, Follows
<1>3. /\ model'.status = "disconnected" /\ UNCHANGED <<pipe, frames>>
      /\ ends' = IF "close" \in step.do /\ socket # 0 /\ ends[socket].c \in {"connecting", "open"}
                 THEN [ends EXCEPT ![socket].c = "closing"] ELSE ends
  BY <1>1, <1>2 DEF Executes
<1>4. channel' = 0
  BY <1>3, MoreParts DEF Resources
<1>5. Current'
  BY <1>3 DEF Current, Engaged
<1>6. \A k \in Socket : ends'[k].s = ends[k].s /\ ends'[k].c \notin Live
  <2> TAKE k \in Socket
  <2>1. ends[k] \in EndType /\ ends \in [Socket -> EndType] /\ (ends[k].c \in Live => k = socket /\ model.status \in Engaged) /\ k # 0
    BY Parts DEF Ends, SocketOK, Live, Socket
  <2>2. ends'[k].s = ends[k].s
    BY <1>3, <2>1 DEF EndType
  <2>3. ends'[k].c \notin Live
    BY <1>1, <1>3, <2>1 DEF EndType, Live
  <2> QED BY <2>2, <2>3
<1>7. frames' \in [Socket -> [c : Wires, s : Wires]]
  BY <1>3 DEF ReadInv, PipesTyped
<1> QED BY <1>3, <1>4, <1>5, <1>6, <1>7, LeavesReading DEF Stop

LEMMA SocketOpenedReads == ASSUME ShellFollows, ReadInv, NEW k \in Socket, SocketOpened(k) PROVE ReadInv'
<1> DEFINE step == OnOpened(model)
           es == [ends EXCEPT ![k].opened = TRUE]
<1>1. /\ Follows(model, step) /\ "create" \notin step.do /\ "close" \notin step.do
      /\ step.status = IF model.status = "connecting" THEN "connected" ELSE model.status
  BY Parts, OpenedFollows DEF Resources
<1>2. Executes(step, es, frames) /\ "add-channel" \notin step.do /\ "remove-channel" \notin step.do
  BY <1>1 DEF SocketOpened, Follows
<1>3. /\ UNCHANGED <<pipe, frames, socket, channel>> /\ ends' = es
      /\ model'.status = IF model.status = "connecting" THEN "connected" ELSE model.status
  BY <1>1, <1>2 DEF Executes
<1>4. \A j \in Socket : ends'[j].s = ends[j].s /\ ends'[j].c = ends[j].c
  BY <1>3, Parts DEF Ends, EndType
<1>5. Current'
  BY <1>3, <1>4 DEF Current, Engaged, ReadInv
<1>6. frames' \in [Socket -> [c : Wires, s : Wires]]
  BY <1>3 DEF ReadInv, PipesTyped
<1> QED BY <1>3, <1>4, <1>5, <1>6, LeavesReading DEF SocketOpened

LEMMA ClientEndsReads == ASSUME ShellFollows, ReadInv, NEW k \in Socket, ClientEnds(k), ShellFollows' PROVE ReadInv'
<1> DEFINE step == IF ends[k].opened THEN OnClosed(model) ELSE OnError(model)
           es == [ends EXCEPT ![k].c = "closed"]
           fs == [frames EXCEPT ![k].c = <<>>]
<1>0. Resources /\ Ends /\ ends[k] \in EndType /\ SocketOK(k)
  BY Parts DEF Ends
<1>1. /\ Follows(model, step) /\ "create" \notin step.do /\ "close" \notin step.do
      /\ model.status \notin Engaged => step = Stay(model)
  BY <1>0, ClosedFollows, ErrorFollows DEF Resources
<1>2. Executes(step, es, fs) /\ ends[k].c \in {"connecting", "open", "closing"}
  BY DEF ClientEnds
<1>3. step.status \notin Engaged
  <2>1. CASE ends[k].c \in {"connecting", "open"}
    BY <1>0, <2>1, ClosedFollows, ErrorFollows DEF SocketOK, Resources
  <2>2. CASE ends[k].c = "closing"
    BY <1>0, <1>1, <2>2 DEF SocketOK, Ends, Stay, To, Engaged
  <2> QED BY <1>2, <2>1, <2>2
<1>4. "add-channel" \notin step.do
  BY <1>1, <1>3 DEF Follows, Engaged
<1>5. ends' = es /\ frames' = fs /\ pipe' = pipe /\ model'.status = step.status
  BY <1>1, <1>2, <1>4 DEF Executes
<1>6. channel' = 0
  BY <1>3, <1>5, MoreParts DEF Resources, Engaged
<1>7. Current'
  BY <1>3, <1>5 DEF Current, Engaged
<1>8. frames' \in [Socket -> [c : Wires, s : Wires]] /\ \A j \in Socket : frames'[j].s = frames[j].s /\ (j # k => frames'[j].c = frames[j].c)
  <2>1. frames \in [Socket -> [c : Wires, s : Wires]] /\ <<>> \in Wires
    BY DEF ReadInv, PipesTyped, Wires
  <2> QED BY <1>5, <2>1
<1>9. \A j \in Socket : ends'[j].s = ends[j].s /\ ends'[k].c = "closed" /\ (j # k => ends'[j] = ends[j])
  BY <1>0, <1>5 DEF Ends, EndType
<1>10. \A j \in Socket : ends'[j].c \notin Live
  <2> TAKE j \in Socket
  <2>1. CASE j = k
    BY <1>9, <2>1 DEF Live
  <2>2. CASE j # k
    <3>1. ends'[j] = ends[j] /\ SocketOK(j)
      BY <1>0, <1>9, <2>2 DEF Ends
    <3>2. ends[k].c = "closing" => model.status \notin Engaged
      BY <1>0 DEF SocketOK, Ends, Engaged
    <3> QED BY <1>0, <1>2, <2>2, <3>1, <3>2 DEF SocketOK, Live
  <2> QED BY <2>1, <2>2
<1>11. frames'[k].c = <<>>
  BY <1>5 DEF ReadInv, PipesTyped
<1>12. \A j \in Socket : frames'[j].c = frames[j].c \/ (frames[j].c # <<>> /\ channel' # j /\ ends'[j].c \notin Live)
  BY <1>6, <1>8, <1>10, <1>11 DEF Socket
<1> QED BY <1>5, <1>6, <1>7, <1>8, <1>9, <1>10, <1>12, LeavesReading DEF ClientEnds

LEMMA FailsReads == ASSUME ShellFollows, ReadInv, NEW k \in Socket, Fails(k) PROVE ReadInv'
<1>1. \A j \in Socket : ends'[j].s = ends[j].s /\ ends'[j].c = ends[j].c
  BY Parts DEF Fails, Ends, EndType
<1>2. Current'
  BY <1>1 DEF Current, Fails, client, ReadInv, Engaged
<1>3. frames' \in [Socket -> [c : Wires, s : Wires]]
  BY DEF ReadInv, PipesTyped, Fails
<1> QED BY <1>1, <1>2, <1>3, LeavesReading DEF Fails, client

-----------------------------------------------------------------------------
(* What the steps that read, and the others, leave of them.                *)

LEMMA ReceivedTyped ==
  ASSUME NEW p, IsPipe(p), NEW f \in FrameSet
  PROVE  IsPipe(Received(p, f)) /\ Received(p, f).out = p.out
<1> DEFINE q == Received(p, f)
           mates == {g \in p.batch : g.seq = f.seq}
           waits == f.part # 0 /\ mates = {}
           repeats == f.part # 0 /\ \E g \in mates : g.part = f.part
           learnt == [a \in DOMAIN p.in \cup {f.alias} |-> IF a = f.alias THEN f.doc ELSE p.in[a]]
<1>1. \/ q = [p EXCEPT !.batch = p.batch \cup {f}]
      \/ q = Learns([p EXCEPT !.batch = p.batch \ mates], f)
      \/ q = [p EXCEPT !.peer = TRUE]
      \/ q = p
  BY DEF Received
<1> HIDE DEF q
<1>2. CASE q = Learns([p EXCEPT !.batch = p.batch \ mates], f)
  <2> DEFINE r == [p EXCEPT !.batch = p.batch \ mates]
  <2>1. r.in = p.in /\ r.out = p.out /\ IsPipe(r)
    BY DEF IsPipe
  <2>2. q = [r EXCEPT !.in = learnt]
    BY <1>2, <2>1 DEF Learns
  <2> HIDE DEF r, learnt
  <2> QED BY <2>1, <2>2 DEF IsPipe, q
<1>3. CASE q # Learns([p EXCEPT !.batch = p.batch \ mates], f)
  BY <1>1, <1>3 DEF IsPipe, q
<1> QED BY <1>2, <1>3

\* What a wire and its reader make of each other depends on what the reader knows and keeps, not on what it sends.
LEMMA SameReader ==
  ASSUME NEW p, NEW q, q.in = p.in, q.batch = p.batch, NEW w, NEW out
  PROVE  (Sound(q, w) <=> Sound(p, w)) /\ (Told(out, q, w) <=> Told(out, p, w))
BY DEF Sound, Told

\* Steps that leave the ends and the client's state alone.
LEMMA SameCurrent ==
  ASSUME Current, UNCHANGED <<model, socket, channel>>,
         \A k \in Socket : (ends[k].c \in Live => ends'[k].c = ends[k].c) /\ (ends'[k].s = "none" => ends[k].s = "none")
  PROVE  Current'
BY DEF Current, Live, Engaged

\* The client reads the next frame of its channel.
LEMMA ChannelReads ==
  ASSUME ReadInv, NEW k \in Socket, k = channel, frames[k].c # <<>>,
         pipe' = [pipe EXCEPT ![0] = Received(@, Head(frames[k].c))],
         frames' = [frames EXCEPT ![k].c = Tail(@)],
         misread' = IF Misreads(pipe[0], Head(frames[k].c)) THEN misread \cup {k} ELSE misread,
         UNCHANGED <<model, socket, channel, ends, served, broken>>
  PROVE  ReadInv'
<1> DEFINE f == Head(frames[k].c)
           q == Received(pipe[0], f)
<1>a. /\ k # 0 /\ frames[k].c \in Wires /\ frames \in [Socket -> [c : Wires, s : Wires]]
      /\ pipe = [i \in {0} \cup Socket |-> pipe[i]] /\ \A i \in {0} \cup Socket : IsPipe(pipe[i])
  <2>1. k # 0
    BY DEF Socket
  <2>2. PipesTyped
    BY DEF ReadInv
  <2>3. frames \in [Socket -> [c : Wires, s : Wires]]
    BY <2>2 DEF PipesTyped
  <2>4. frames[k].c \in Wires
    BY <2>3
  <2>5. pipe = [i \in {0} \cup Socket |-> pipe[i]] /\ \A i \in {0} \cup Socket : IsPipe(pipe[i])
    BY <2>2, Zenon DEF PipesTyped
  <2> QED BY <2>1, <2>3, <2>4, <2>5
<1>b. IsPipe(pipe[0])
  BY <1>a
<1>0. /\ k # 0 /\ frames[k].c \in Wires /\ frames \in [Socket -> [c : Wires, s : Wires]] /\ IsPipe(pipe[0])
      /\ pipe = [i \in {0} \cup Socket |-> pipe[i]] /\ \A i \in {0} \cup Socket : IsPipe(pipe[i])
  BY <1>a, <1>b
<1>1. f \in FrameSet /\ Tail(frames[k].c) \in Wires
  BY <1>0, WireTail
<1>2. IsPipe(q) /\ q.out = pipe[0].out
  BY <1>0, <1>1, ReceivedTyped
<1>3. pipe'[0] = q /\ \A i \in Socket : pipe'[i] = pipe[i]
  BY <1>0 DEF Socket
<1>4. frames'[k].c = Tail(frames[k].c) /\ \A j \in Socket : frames'[j].s = frames[j].s /\ (j # k => frames'[j] = frames[j])
  BY <1>0
<1>5. PipesTyped'
  <2>1. pipe' = [i \in {0} \cup Socket |-> pipe'[i]]
    BY <1>0
  <2>2. frames' \in [Socket -> [c : Wires, s : Wires]]
    BY <1>0, <1>1
  <2> HIDE DEF q
  <2>3. \A i \in {0} \cup Socket : IsPipe(pipe'[i])
    BY <1>0, <1>2, <1>3
  <2> QED BY <2>1, <2>2, <2>3 DEF PipesTyped
<1>6. Current'
  BY SameCurrent DEF ReadInv
<1>7. k \notin broken => ~Misreads(pipe[0], f) /\ Sound(q, Tail(frames[k].c))
  BY <1>0, ReceivedSound DEF ReadInv, ClientReads
<1>8. (misread \subseteq broken)'
  BY <1>7 DEF ReadInv
<1> HIDE DEF f, q
<1>9. \A j \in Socket : Serving(j)' <=> Serving(j)
  BY DEF Serving
<1>10. ASSUME NEW j \in Socket PROVE Untouched(j)'
  <2>1. Untouched(j) /\ pipe'[j] = pipe[j]
    BY <1>3 DEF ReadInv
  <2>2. CASE j = k
    BY <2>1, <2>2, <1>0 DEF Untouched, NoFrames
  <2>3. CASE j # k
    BY <1>4, <2>1, <2>3 DEF Untouched
  <2> QED BY <2>2, <2>3
<1>11. ASSUME NEW j \in Socket PROVE ServerReads(j)'
  BY <1>2, <1>3, <1>4, <1>9 DEF ServerReads, ReadInv
<1>12. ASSUME NEW j \in Socket PROVE ClientReads(j)'
  <2>1. CASE j = k /\ k \notin broken
    <3>1. Sound(pipe[0], frames[k].c) /\ (Serving(k) => Told(pipe[k].out, pipe[0], frames[k].c))
      BY <2>1 DEF ReadInv, ClientReads
    <3>2. Serving(k) => Told(pipe[k].out, q, Tail(frames[k].c))
      BY <1>0, <3>1, ReceivedTold DEF Sound, q, f
    <3> QED BY <1>3, <1>4, <1>7, <1>9, <2>1, <3>2 DEF ClientReads
  <2>2. CASE ~(j = k /\ k \notin broken)
    BY <2>2 DEF ClientReads
  <2> QED BY <2>1, <2>2
<1> QED BY <1>5, <1>6, <1>8, <1>10, <1>11, <1>12 DEF ReadInv

\* A new channel starts both directions afresh.
LEMMA AddChannelReads ==
  ASSUME ReadInv, NEW k \in Socket, channel = 0, ends[k].c = "open", frames[k].c # <<>>,
         pipe' = [pipe EXCEPT ![0] = FreshPipe(@)],
         frames' = [[frames EXCEPT ![k].c = Tail(@)] EXCEPT ![k].s = Append(@, Establish(FreshPipe(pipe[0])))],
         channel' = k, socket' = k, model'.status = "ready",
         UNCHANGED <<ends, served, broken, misread>>
  PROVE  ReadInv'
<1> DEFINE f == Establish(FreshPipe(pipe[0]))
           q == FreshPipe(pipe[0])
<1>0. /\ k # 0 /\ frames[k].c \in Wires /\ frames \in [Socket -> [c : Wires, s : Wires]]
      /\ pipe = [i \in {0} \cup Socket |-> pipe[i]] /\ \A i \in {0} \cup Socket : IsPipe(pipe[i])
  BY DEF ReadInv, PipesTyped, Socket
<1>1. frames[k].c = <<Ready>> /\ frames[k].s = <<>> /\ pipe[k] = EmptyPipe /\ ends[k].s # "none"
  BY <1>0 DEF ReadInv, Untouched, NoFrames
<1>2. f \in FrameSet /\ f.t = "establish" /\ f.part = 0
  BY DEF Establish, FreshPipe, Frame, FrameSet, EmptyPipe
<1>3. IsPipe(q) /\ q.out = <<>> /\ q.in = <<>> /\ q.batch = {}
  <2>1. q = [out |-> <<>>, in |-> <<>>, self |-> TRUE, peer |-> FALSE, seq |-> 2, batch |-> {}]
    <3>1. FreshPipe(pipe[0]) = [EmptyPipe EXCEPT !.self = TRUE, !.seq = 2]
      BY DEF FreshPipe
    <3> QED BY <3>1 DEF EmptyPipe
  <2>2. <<>> \in Seq(Doc) /\ {} \in SUBSET FrameSet /\ 2 \in Nat
    OBVIOUS
  <2> QED BY <2>1, <2>2 DEF IsPipe
<1>4. pipe'[0] = q /\ \A i \in Socket : pipe'[i] = pipe[i]
  BY <1>0 DEF Socket
<1>5. /\ frames'[k].c = <<>> /\ frames'[k].s = Append(<<>>, f)
      /\ \A j \in Socket : j # k => frames'[j] = frames[j]
  BY <1>0, <1>1
<1> HIDE DEF f, q
<1>6. PipesTyped'
  <2>1. pipe' = [i \in {0} \cup Socket |-> pipe'[i]]
    BY <1>0
  <2>2. Append(<<>>, f) \in Wires /\ <<>> \in Wires
    BY <1>2 DEF Wires
  <2>3. frames' \in [Socket -> [c : Wires, s : Wires]]
    BY <1>0, <1>1, <2>2 DEF f
  <2>4. \A i \in {0} \cup Socket : IsPipe(pipe'[i])
    BY <1>0, <1>3, <1>4
  <2> QED BY <2>1, <2>3, <2>4 DEF PipesTyped
<1>7. Current'
  BY <1>1 DEF Current
<1>8. (misread \subseteq broken)'
  BY DEF ReadInv
<1>9. \A j \in Socket : Serving(j)' <=> Serving(j)
  BY DEF Serving
<1>10. ASSUME NEW j \in Socket PROVE Untouched(j)'
  <2>1. Untouched(j) /\ pipe'[j] = pipe[j]
    BY <1>4 DEF ReadInv
  <2>2. CASE j = k
    BY <1>1, <2>2 DEF Untouched
  <2>3. CASE j # k
    BY <1>0, <1>5, <2>1, <2>3 DEF Untouched, Socket
  <2> QED BY <2>2, <2>3
<1>11. \A p : p.in = <<>> /\ p.batch = {} => Sound(p, <<>>) /\ Told(<<>>, p, <<>>)
  BY DEF Sound, Told, Whole
<1>12. EmptyPipe.in = <<>> /\ EmptyPipe.batch = {} /\ EmptyPipe.out = <<>>
  BY DEF EmptyPipe
<1>13. Sound(EmptyPipe, Append(<<>>, f)) /\ Told(<<>>, EmptyPipe, Append(<<>>, f))
  <2>1. Sound(EmptyPipe, <<>>) /\ Told(<<>>, EmptyPipe, <<>>)
    BY <1>11, <1>12
  <2>2. <<>> \in Wires
    BY DEF Wires
  <2> QED BY <1>2, <2>1, <2>2, OtherSound
<1>14. ASSUME NEW j \in Socket PROVE ServerReads(j)'
  <2>1. CASE j = k
    BY <1>1, <1>3, <1>4, <1>5, <1>13, <2>1 DEF ServerReads
  <2>2. CASE j # k
    BY <1>4, <1>5, <1>9, <2>2 DEF ServerReads, ReadInv
  <2> QED BY <2>1, <2>2
<1>15. ASSUME NEW j \in Socket PROVE ClientReads(j)'
  BY <1>1, <1>3, <1>4, <1>5, <1>11, <1>12 DEF ClientReads
<1> QED BY <1>6, <1>7, <1>8, <1>10, <1>14, <1>15 DEF ReadInv

LEMMA ClientReceivesReads == ASSUME ShellFollows, ReadInv, NEW k \in Socket, ClientReceives(k) PROVE ReadInv'
<1> DEFINE f == Head(frames[k].c)
           rest == [frames EXCEPT ![k].c = Tail(@)]
           step == OnReady(model)
<1>0. Resources /\ Ends /\ (ends[k].c \in Live => k = socket /\ model.status \in Engaged) /\ k # 0
  BY Parts DEF Ends, SocketOK, Live, Socket
<1>1. frames[k].c # <<>> /\ frames[k].c \in Wires /\ ends[k].c \in {"open", "closing"} /\ UNCHANGED <<served, broken, stopped>>
  BY DEF ClientReceives, ReadInv, PipesTyped
<1>2. rest \in [Socket -> [c : Wires, s : Wires]] /\ \A j \in Socket : rest[j].s = frames[j].s /\ (j # k => rest[j] = frames[j])
  <2>1. frames \in [Socket -> [c : Wires, s : Wires]] /\ Tail(frames[k].c) \in Wires
    BY <1>1, WireTail DEF ReadInv, PipesTyped
  <2> QED BY <2>1
<1>3. ends[k].c = "closing" => model.status \notin Engaged
  BY <1>0 DEF Ends, SocketOK, Engaged
<1>4. \A j \in Socket : ends[j].c \in Live => model.status \in Engaged
  BY <1>0 DEF Ends, SocketOK, Live
<1>5. model.status \notin Engaged => channel = 0
  BY <1>0 DEF Resources, Engaged
\* Nothing comes of a frame when the client has no connection.
<1>6. ASSUME model.status \notin Engaged, UNCHANGED <<model, socket, channel, pipe, misread, ends>>, frames' = rest PROVE ReadInv'
  <2>1. \A j \in Socket : /\ ends'[j].s = ends[j].s /\ frames'[j].s = frames[j].s
                          /\ frames'[j].c = frames[j].c \/ (frames[j].c # <<>> /\ channel' # j /\ ends'[j].c \notin Live)
                          /\ ends'[j].c \notin Live
    BY <1>1, <1>2, <1>4, <1>5, <1>6 DEF Socket
  <2>2. Current'
    BY <1>5, <1>6 DEF Current, ReadInv, Engaged
  <2> QED BY <1>1, <1>2, <1>6, <2>1, <2>2, LeavesReading
<1>7. CASE f = Ready
  <2>1. Executes(step, ends, rest) /\ misread' = misread
    BY <1>7 DEF ClientReceives
  <2>2. /\ Follows(model, step) /\ "create" \notin step.do /\ "close" \notin step.do
        /\ step.status = IF model.status \in Engaged THEN "ready" ELSE model.status
    BY <1>0, ReadyFollows DEF Resources
  <2>3. "remove-channel" \notin step.do /\ ("add-channel" \in step.do <=> model.status \in Engaged /\ model.status # "ready")
    BY <2>2 DEF Follows, Engaged
  <2>4. ends' = ends /\ socket' = socket /\ model'.status = step.status
    BY <2>1, <2>2 DEF Executes
  <2>5. CASE model.status \notin Engaged
    <3>1. model' = model
      BY <1>0, <2>1, <2>5 DEF Executes, OnReady, Stay, To, Engaged, Resources, Model
    <3>2. channel' = channel /\ pipe' = pipe /\ frames' = rest
      BY <2>1, <2>3, <2>5 DEF Executes
    <3> QED BY <1>6, <2>1, <2>4, <2>5, <3>1, <3>2
  <2>6. CASE model.status = "ready"
    <3>1. model' = model
      BY <1>0, <2>1, <2>6 DEF Executes, OnReady, Stay, To, Engaged, Resources, Model
    <3>2. channel' = channel /\ pipe' = pipe /\ frames' = rest
      BY <2>1, <2>3, <2>6 DEF Executes
    <3>3. k = channel
      BY <1>0, <1>1, <1>3, <2>6 DEF ReadInv, Current, Live, Engaged
    <3>4. Received(pipe[0], f) = pipe[0]
      BY <1>7 DEF Received, Ready, Frame
    <3>5. ~Misreads(pipe[0], f)
      BY <1>7 DEF Misreads, Understands, Ready, Frame
    <3>6. pipe' = [pipe EXCEPT ![0] = Received(@, f)]
      BY <3>2, <3>4 DEF ReadInv, PipesTyped
    <3> HIDE DEF step
    <3> QED BY <1>1, <2>1, <2>4, <3>1, <3>2, <3>3, <3>5, <3>6, ChannelReads
  <2>7. CASE model.status \in Engaged /\ model.status # "ready"
    <3>1. /\ channel' = socket /\ pipe' = [pipe EXCEPT ![0] = FreshPipe(@)]
          /\ frames' = [rest EXCEPT ![socket].s = Append(@, Establish(FreshPipe(pipe[0])))]
      BY <2>1, <2>3, <2>7 DEF Executes
    <3>2. channel = 0
      BY <1>0, <2>7 DEF Resources
    <3>3. ends[k].c = "open" /\ k = socket
      BY <1>0, <1>1, <1>3, <2>7 DEF Live
    <3>4. model'.status = "ready" /\ socket' = k /\ channel' = k
      BY <2>2, <2>4, <2>7, <3>1, <3>3
    <3>5. frames' = [[frames EXCEPT ![k].c = Tail(@)] EXCEPT ![k].s = Append(@, Establish(FreshPipe(pipe[0])))]
      BY <3>1, <3>3
    <3> HIDE DEF step, rest
    <3> QED BY <1>1, <2>1, <2>4, <3>1, <3>2, <3>3, <3>4, <3>5, AddChannelReads
  <2> QED BY <2>5, <2>6, <2>7 DEF Engaged
<1>8. CASE f # Ready
  <2>1. frames' = rest /\ UNCHANGED <<client, ends>>
    BY <1>8 DEF ClientReceives
  <2>2. CASE stopped
    <3>1. model.status \notin Engaged /\ UNCHANGED <<pipe, misread>>
      BY <1>0, <1>8, <2>2 DEF ClientReceives, Ends, Engaged
    <3> QED BY <1>6, <2>1, <3>1 DEF client
  <2>3. CASE ~stopped
    <3>1. ends[k].c = "open"
      BY <1>0, <1>1, <2>3 DEF Ends, SocketOK
    <3>2. /\ pipe' = [pipe EXCEPT ![0] = Received(@, f)]
          /\ misread' = IF Misreads(pipe[0], f) THEN misread \cup {k} ELSE misread
      BY <1>8, <2>3 DEF ClientReceives
    <3>3. k = channel
      <4>1. ASSUME channel # k PROVE FALSE
        <5>1. frames[k].c = <<Ready>>
          BY <1>1, <3>1, <4>1 DEF ReadInv, Untouched
        <5> QED BY <1>8, <5>1
      <4> QED BY <4>1
    <3> QED BY <1>1, <2>1, <3>2, <3>3, ChannelReads DEF client
  <2> QED BY <2>2, <2>3
<1> QED BY <1>7, <1>8

LEMMA EstablishTyped == ASSUME NEW p, IsPipe(p)
                        PROVE  Establish(p) \in FrameSet /\ Establish(p).t = "establish" /\ Establish(p).part = 0
BY PipeFields DEF Establish, Frame, FrameSet

\* What the state's types give of one socket.
LEMMA TypedAt ==
  ASSUME ReadInv, NEW k \in Socket
  PROVE  /\ k # 0 /\ frames[k].c \in Wires /\ frames[k].s \in Wires /\ frames \in [Socket -> [c : Wires, s : Wires]]
         /\ IsPipe(pipe[k]) /\ IsPipe(pipe[0]) /\ pipe = [i \in {0} \cup Socket |-> pipe[i]]
         /\ \A i \in {0} \cup Socket : IsPipe(pipe[i])
<1>1. k # 0
  BY DEF Socket
<1>2. PipesTyped
  BY DEF ReadInv
<1>3. frames \in [Socket -> [c : Wires, s : Wires]]
  BY <1>2 DEF PipesTyped
<1>4. frames[k].c \in Wires /\ frames[k].s \in Wires
  BY <1>3
<1>5. pipe = [i \in {0} \cup Socket |-> pipe[i]] /\ \A i \in {0} \cup Socket : IsPipe(pipe[i])
  BY <1>2, Zenon DEF PipesTyped
<1>6. IsPipe(pipe[k]) /\ IsPipe(pipe[0])
  BY <1>5
<1> QED BY <1>1, <1>3, <1>4, <1>5, <1>6

\* Steps on one socket k, of which only one end's pipeline and the two wires may change.
LEMMA OneSocketReads ==
  ASSUME ReadInv, NEW k \in Socket, NEW i \in {0, k}, NEW q, IsPipe(q), pipe' = [pipe EXCEPT ![i] = q],
         i = 0 => k = channel /\ q.in = pipe[0].in /\ q.batch = pipe[0].batch,
         frames' \in [Socket -> [c : Wires, s : Wires]], \A j \in Socket : j # k => frames'[j] = frames[j],
         (misread \subseteq broken)', UNCHANGED <<model, socket, channel, ends, served, broken>>,
         Untouched(k)', ServerReads(k)', ClientReads(k)'
  PROVE  ReadInv'
<1>1. PipesTyped'
  <2>1. pipe' = [j \in {0} \cup Socket |-> pipe'[j]] /\ \A j \in {0} \cup Socket : IsPipe(pipe'[j])
    BY TypedAt
  <2> QED BY <2>1 DEF PipesTyped
<1>2. Current'
  BY SameCurrent DEF ReadInv
<1>3. ASSUME NEW j \in Socket, j # k PROVE Untouched(j)' /\ ServerReads(j)' /\ ClientReads(j)'
  <2>1. pipe'[j] = pipe[j] /\ frames'[j] = frames[j] /\ j # 0
    BY <1>3, TypedAt
  <2>2. Untouched(j) /\ ServerReads(j) /\ ClientReads(j)
    BY DEF ReadInv
  <2>3. j = channel => pipe'[0] = pipe[0]
    BY <1>3, TypedAt
  <2>4. Serving(j)' <=> Serving(j)
    BY DEF Serving
  <2>5. Untouched(j)'
    BY <2>1, <2>2 DEF Untouched
  <2>6. ServerReads(j)' /\ ClientReads(j)'
    BY <2>1, <2>2, <2>3, <2>4 DEF ServerReads, ClientReads
  <2> QED BY <2>5, <2>6
<1> QED BY <1>1, <1>2, <1>3 DEF ReadInv

LEMMA ServerReceivesReads == ASSUME ShellFollows, ReadInv, NEW k \in Socket, ServerReceives(k) PROVE ReadInv'
<1> DEFINE f == Head(frames[k].s)
           p == Received(pipe[k], f)
           answers == f.t = "establish" /\ ~p.self
           q == IF answers THEN [p EXCEPT !.self = TRUE, !.seq = @ + 1] ELSE p
           rest == Tail(frames[k].s)
<1>0. /\ frames[k].s # <<>> /\ ends[k].s \in {"open", "closing"}
      /\ UNCHANGED <<model, socket, channel, ends, served, broken>>
  BY DEF ServerReceives, client
<1>1. f \in FrameSet /\ rest \in Wires
  BY <1>0, TypedAt, WireTail
<1>2. ends[k].c \in Live => channel = k
  BY <1>0 DEF ReadInv, Untouched, Live
<1>3. CASE ends[k].s = "closing" \/ k \notin served
  <2>1. frames' = [frames EXCEPT ![k].s = Tail(@)] /\ UNCHANGED <<pipe, misread>>
    BY <1>3 DEF ServerReceives
  <2>2. /\ frames' \in [Socket -> [c : Wires, s : Wires]] /\ \A j \in Socket : j # k => frames'[j] = frames[j]
        /\ frames'[k].c = frames[k].c
    <3>1. frames \in [Socket -> [c : Wires, s : Wires]] /\ Tail(frames[k].s) \in Wires
      BY <1>1, TypedAt
    <3> QED BY <2>1, <3>1
  <2>3. ~Serving(k) /\ ~Serving(k)'
    BY <1>0, <1>3 DEF Serving
  <2>4. Untouched(k)'
    BY <1>0, <1>2 DEF Untouched, Live
  <2>5. ServerReads(k)' /\ ClientReads(k)'
    <3>1. ClientReads(k)
      BY DEF ReadInv
    <3> QED BY <1>0, <2>1, <2>2, <2>3, <3>1 DEF ServerReads, ClientReads
  <2>6. pipe' = [pipe EXCEPT ![k] = pipe[k]]
    BY <2>1, TypedAt
  <2>7. IsPipe(pipe[k]) /\ k # 0
    BY TypedAt
  <2>8. (misread \subseteq broken)'
    BY <1>0, <2>1 DEF ReadInv
  <2> QED BY <1>0, <2>2, <2>4, <2>5, <2>6, <2>7, <2>8, OneSocketReads
<1>4. CASE ends[k].s = "open" /\ k \in served
  <2>1. /\ pipe' = [pipe EXCEPT ![k] = q]
        /\ frames' = [frames EXCEPT ![k] = [s |-> rest, c |-> IF answers THEN Append(@.c, Establish(p)) ELSE @.c]]
        /\ misread' = IF Misreads(pipe[k], f) THEN misread \cup {k} ELSE misread
    BY <1>4 DEF ServerReceives
  <2>2. IsPipe(p) /\ p.out = pipe[k].out
    BY <1>1, TypedAt, ReceivedTyped
  <2> HIDE DEF p
  <2>3. IsPipe(q) /\ q.out = p.out /\ q.in = p.in /\ q.batch = p.batch
    <3>1. p.seq + 1 \in Nat
      BY <2>2, PipeFields
    <3> QED BY <2>2, <3>1 DEF IsPipe
  <2>4. Establish(p) \in FrameSet /\ Establish(p).t = "establish" /\ Establish(p).part = 0
    BY <2>2, EstablishTyped
  <2>5. /\ frames'[k].s = rest
        /\ frames'[k].c = frames[k].c \/ frames'[k].c = Append(frames[k].c, Establish(p))
        /\ \A j \in Socket : j # k => frames'[j] = frames[j]
    BY <2>1, TypedAt
  <2>6. frames' \in [Socket -> [c : Wires, s : Wires]]
    <3>1. Append(frames[k].c, Establish(p)) \in Wires
      BY <2>4, TypedAt DEF Wires
    <3>2. frames \in [Socket -> [c : Wires, s : Wires]] /\ frames[k].c \in Wires
      BY TypedAt
    <3> HIDE DEF answers, rest
    <3> QED BY <1>1, <2>1, <3>1, <3>2
  <2>7. pipe'[k] = q /\ pipe'[0] = pipe[0] /\ k # 0
    BY <2>1, TypedAt
  <2> HIDE DEF q, rest
  <2>8. Serving(k) /\ Serving(k)'
    BY <1>0, <1>4 DEF Serving
  <2>9. k \notin broken =>
          /\ ~Misreads(pipe[k], f) /\ Sound(p, rest)
          /\ k = channel => Told(pipe[0].out, p, rest)
    <3> HAVE k \notin broken
    <3>1. Sound(pipe[k], frames[k].s) /\ (k = channel => Told(pipe[0].out, pipe[k], frames[k].s)) /\ Whole(pipe[k].batch, frames[k].s)
      BY <2>8 DEF ReadInv, ServerReads, Sound
    <3>2. ~Misreads(pipe[k], f) /\ Sound(p, rest)
      BY <1>0, <3>1, TypedAt, ReceivedSound DEF p, rest
    <3>3. k = channel => Told(pipe[0].out, p, rest)
      BY <1>0, <3>1, TypedAt, ReceivedTold DEF p, rest
    <3> QED BY <3>2, <3>3
  <2>10. (misread \subseteq broken)'
    BY <1>0, <2>1, <2>9 DEF ReadInv
  <2>11. Untouched(k)'
    BY <1>0, <1>2 DEF Untouched, Live
  <2>12. ServerReads(k)'
    <3>1. k \notin broken => Sound(q, rest) /\ (k = channel => Told(pipe[0].out, q, rest))
      BY <2>3, <2>9, SameReader
    <3> QED BY <1>0, <2>5, <2>7, <3>1 DEF ServerReads
  <2>13. ClientReads(k)'
    <3> SUFFICES ASSUME k = channel, k \notin broken
                 PROVE  Sound(pipe[0], frames'[k].c) /\ Told(q.out, pipe[0], frames'[k].c)
      BY <1>0, <2>7 DEF ClientReads
    <3>1. Sound(pipe[0], frames[k].c) /\ Told(pipe[k].out, pipe[0], frames[k].c) /\ frames[k].c \in Wires
      BY <2>8, TypedAt DEF ReadInv, ClientReads
    <3>2. q.out = pipe[k].out
      BY <2>2, <2>3
    <3>3. CASE frames'[k].c = frames[k].c
      BY <3>1, <3>2, <3>3
    <3>4. CASE frames'[k].c = Append(frames[k].c, Establish(p))
      <4>1. /\ Sound(pipe[0], Append(frames[k].c, Establish(p)))
            /\ Told(pipe[k].out, pipe[0], Append(frames[k].c, Establish(p)))
        BY <2>4, <3>1, OtherSound
      <4> QED BY <3>2, <3>4, <4>1
    <3> QED BY <2>5, <3>3, <3>4
  <2> QED BY <1>0, <2>1, <2>3, <2>5, <2>6, <2>7, <2>10, <2>11, <2>12, <2>13, OneSocketReads
<1> QED BY <1>0, <1>3, <1>4

LEMMA AcceptReads == ASSUME ShellFollows, ReadInv, NEW k \in Socket, Accept(k) PROVE ReadInv'
<1> DEFINE replaced == {j \in served : SameKey(j, k)}
<1>0. /\ ends[k].c = "connecting" /\ ends[k].s = "none" /\ served' = Unregistered(k) \cup {k}
      /\ frames' = [frames EXCEPT ![k].c = Append(@, Ready)]
      /\ UNCHANGED <<model, socket, channel, pipe, misread, broken>>
      /\ ends' = [j \in Socket |->
                    IF j = k THEN [ends[k] EXCEPT !.c = "open", !.s = "open"]
                    ELSE IF j \in replaced /\ ends[j].s = "open" THEN [ends[j] EXCEPT !.s = "closing"] ELSE ends[j]]
  BY DEF Accept, client
<1>1. frames[k] = NoFrames /\ pipe[k] = EmptyPipe
  BY <1>0 DEF ReadInv, Untouched
<1>2. channel # k
  <2>1. ASSUME channel = k PROVE FALSE
    <3>1. model.status = "ready" /\ socket = k /\ k # 0
      BY <2>1, Parts, TypedAt DEF ReadInv, Current, Resources
    <3> QED BY <1>0, <3>1 DEF ReadInv, Current
  <2> QED BY <2>1
<1>3. \A j \in Socket : ends[j] \in EndType
  BY Parts DEF Ends
<1>4. ends'[k].c = "open" /\ ends'[k].s = "open"
  BY <1>0, <1>3 DEF EndType
<1> HIDE DEF replaced
<1>5. \A j \in Socket : j # k => ends'[j].c = ends[j].c /\ (ends'[j].s = ends[j].s \/ (ends[j].s = "open" /\ ends'[j].s = "closing"))
  BY <1>0, <1>3 DEF EndType
<1>6. \A j \in Socket : j # k => (Serving(j)' => Serving(j))
  BY <1>0, <1>5 DEF Serving, Unregistered
<1>7. frames'[k] = [c |-> <<Ready>>, s |-> <<>>] /\ \A j \in Socket : j # k => frames'[j] = frames[j]
  <2>1. frames[k] = [c |-> <<>>, s |-> <<>>] /\ Append(<<>>, Ready) = <<Ready>>
    BY <1>1 DEF NoFrames
  <2> QED BY <1>0, <2>1, TypedAt
<1>8. PipesTyped'
  <2>1. Ready \in FrameSet
    BY DEF Ready, Frame, FrameSet
  <2>2. <<Ready>> \in Wires /\ <<>> \in Wires
    BY <2>1 DEF Wires
  <2>3. frames \in [Socket -> [c : Wires, s : Wires]]
    BY TypedAt
  <2>4. frames' \in [Socket -> [c : Wires, s : Wires]]
    <3>1. frames' = [frames EXCEPT ![k] = [c |-> <<Ready>>, s |-> <<>>]]
      BY <1>0, <1>7, <2>3
    <3> QED BY <2>2, <2>3, <3>1
  <2>5. PipesTyped
    BY DEF ReadInv
  <2> QED BY <1>0, <2>4, <2>5 DEF PipesTyped
<1>9. Current'
  <2>1. Current /\ (model.status = "ready" => socket # k)
    BY <1>0 DEF ReadInv, Current
  <2>2. model.status \in Engaged => socket \in Socket /\ ends'[socket].c \in Live
    BY <1>4, <1>5, <2>1 DEF Current, Live
  <2>3. model.status = "ready" => channel = socket /\ ends'[socket].c = "open" /\ ends'[socket].s # "none"
    BY <1>5, <2>1 DEF Current, Engaged
  <2> QED BY <1>0, <2>2, <2>3 DEF Current, Live
<1>10. ASSUME NEW j \in Socket PROVE Untouched(j)'
  <2>1. CASE j = k
    <3>1. frames'[k].s = <<>> /\ frames'[k].c = <<Ready>>
      BY <1>7
    <3>2. frames'[k].c \in {<<>>, <<Ready>>} /\ pipe'[k] = EmptyPipe
      BY <1>0, <1>1, <3>1
    <3>3. Untouched(k)'
      BY <1>4, <3>1, <3>2 DEF Untouched
    <3> QED BY <2>1, <3>3
  <2>2. CASE j # k
    <3>1. Untouched(j) /\ frames'[j] = frames[j]
      BY <1>7, <2>2 DEF ReadInv
    <3> QED BY <1>0, <1>5, <2>2, <3>1 DEF Untouched
  <2> QED BY <2>1, <2>2
<1>11. ASSUME NEW j \in Socket PROVE ServerReads(j)' /\ ClientReads(j)'
  <2>1. CASE j = k
    <3>1. Sound(EmptyPipe, <<>>)
      BY DEF Sound, Whole, EmptyPipe
    <3> QED BY <1>0, <1>1, <1>2, <1>7, <2>1, <3>1 DEF ServerReads, ClientReads
  <2>2. CASE j # k
    <3>1. ServerReads(j) /\ ClientReads(j) /\ frames'[j] = frames[j]
      BY <1>7, <2>2 DEF ReadInv
    <3> QED BY <1>0, <1>6, <2>2, <3>1 DEF ServerReads, ClientReads
  <2> QED BY <2>1, <2>2
<1>12. (misread \subseteq broken)'
  BY <1>0 DEF ReadInv
<1> QED BY <1>8, <1>9, <1>10, <1>11, <1>12 DEF ReadInv

LEMMA ServerEndsReads == ASSUME ShellFollows, ReadInv, NEW k \in Socket, ServerEnds(k) PROVE ReadInv'
<1>0. /\ ends' = [ends EXCEPT ![k].s = "closed"] /\ served' = Unregistered(k)
      /\ frames' = [frames EXCEPT ![k].s = <<>>] /\ pipe' = [pipe EXCEPT ![k] = EmptyPipe]
      /\ UNCHANGED <<model, socket, channel, misread, broken>> /\ ends[k].s # "none"
  BY DEF ServerEnds, client
<1>1. \A j \in Socket : ends'[j].c = ends[j].c /\ ends'[k].s = "closed" /\ (j # k => ends'[j] = ends[j])
  BY <1>0, Parts DEF Ends, EndType
<1>2. /\ frames' \in [Socket -> [c : Wires, s : Wires]] /\ frames'[k].s = <<>>
      /\ \A j \in Socket : frames'[j].c = frames[j].c /\ (j # k => frames'[j] = frames[j])
  <2>1. frames \in [Socket -> [c : Wires, s : Wires]] /\ <<>> \in Wires
    BY TypedAt DEF Wires
  <2> QED BY <1>0, <2>1
<1>3. pipe'[k] = EmptyPipe /\ pipe'[0] = pipe[0] /\ \A j \in Socket : j # k => pipe'[j] = pipe[j]
  BY <1>0, TypedAt
<1>4. PipesTyped'
  <2>1. EmptyPipe.in = <<>> /\ <<>> \in Seq(Doc) /\ {} \in SUBSET FrameSet /\ 1 \in Nat
    BY DEF EmptyPipe
  <2>2. IsPipe(EmptyPipe)
    BY <2>1 DEF EmptyPipe, IsPipe
  <2>3. pipe' = [j \in {0} \cup Socket |-> pipe'[j]]
    BY <1>0, TypedAt
  <2>4. \A j \in {0} \cup Socket : IsPipe(pipe'[j])
    BY <1>3, <2>2, TypedAt
  <2> QED BY <1>2, <2>3, <2>4 DEF PipesTyped
<1>5. Current'
  <2>1. \A j \in Socket : (ends[j].c \in Live => ends'[j].c = ends[j].c) /\ (ends'[j].s = "none" => ends[j].s = "none")
    BY <1>1
  <2> QED BY <1>0, <2>1, SameCurrent DEF ReadInv
<1>6. \A j \in Socket : ~Serving(k)' /\ (Serving(j)' => Serving(j))
  BY <1>0, <1>1 DEF Serving, Unregistered
<1>7. ASSUME NEW j \in Socket PROVE Untouched(j)' /\ ServerReads(j)' /\ ClientReads(j)'
  <2>1. Untouched(j) /\ ServerReads(j) /\ ClientReads(j)
    BY DEF ReadInv
  <2>2. CASE j = k
    <3>1. Untouched(j)'
      BY <1>0, <1>1, <1>2, <1>3, <2>1, <2>2 DEF Untouched
    <3>2. ServerReads(j)' /\ ClientReads(j)'
      BY <1>0, <1>2, <1>3, <1>6, <2>1, <2>2 DEF ServerReads, ClientReads
    <3> QED BY <3>1, <3>2
  <2>3. CASE j # k
    <3>1. frames'[j] = frames[j] /\ pipe'[j] = pipe[j] /\ ends'[j] = ends[j]
      BY <1>1, <1>2, <1>3, <2>3
    <3>2. Untouched(j)'
      BY <1>0, <2>1, <3>1 DEF Untouched
    <3>3. ServerReads(j)' /\ ClientReads(j)'
      BY <1>0, <1>3, <1>6, <2>1, <3>1 DEF ServerReads, ClientReads
    <3> QED BY <3>2, <3>3
  <2> QED BY <2>2, <2>3
<1>8. (misread \subseteq broken)'
  BY <1>0 DEF ReadInv
<1> QED BY <1>4, <1>5, <1>7, <1>8 DEF ReadInv

\* The wire that end e of a socket sends on, and the pipeline at its other end.
Wire(k, e) == frames[k][Across(e)]
ReaderOf(k, e) == PipeOf(k, Across(e))

\* A message that keeps a sound wire sound and tells of the sender's aliases.
LEMMA SendReads ==
  ASSUME ShellFollows, ReadInv, NEW k \in Socket, NEW e \in {"c", "s"}, CanSend(k, e),
         NEW q, NEW w \in Wires, IsPipe(q), q.in = pipe[PipeOf(k, e)].in, q.batch = pipe[PipeOf(k, e)].batch,
         pipe' = [pipe EXCEPT ![PipeOf(k, e)] = q], frames' = [frames EXCEPT ![k][Across(e)] = w],
         UNCHANGED <<model, socket, channel, ends, served, misread, broken>>,
         Sound(pipe[ReaderOf(k, e)], Wire(k, e)) /\ Told(pipe[PipeOf(k, e)].out, pipe[ReaderOf(k, e)], Wire(k, e))
           => Sound(pipe[ReaderOf(k, e)], w) /\ Told(q.out, pipe[ReaderOf(k, e)], w)
  PROVE  ReadInv'
<1>0. k # 0 /\ frames \in [Socket -> [c : Wires, s : Wires]] /\ frames[k].c \in Wires /\ frames[k].s \in Wires
  BY TypedAt
<1>1. \A j \in Socket : j # k => frames'[j] = frames[j]
  BY <1>0 DEF Across
<1>2. (misread \subseteq broken)'
  BY DEF ReadInv
<1>3. Untouched(k) /\ ServerReads(k) /\ ClientReads(k) /\ (Serving(k)' <=> Serving(k))
  BY DEF ReadInv, Serving
<1>4. CASE e = "c"
  <2>1. k = socket /\ channel # 0 /\ ends[k].c = "open"
    BY <1>4 DEF CanSend
  <2>2. channel = k /\ ends[k].s # "none"
    BY <2>1, Parts DEF Resources, ReadInv, Current
  <2>3. PipeOf(k, e) = 0 /\ ReaderOf(k, e) = k /\ Wire(k, e) = frames[k].s /\ Across(e) = "s"
    BY <1>4 DEF PipeOf, ReaderOf, Wire, Across
  <2>4. pipe'[0] = q /\ pipe'[k] = pipe[k]
    BY <1>0, <2>3, TypedAt
  <2>5. frames' \in [Socket -> [c : Wires, s : Wires]] /\ frames'[k].s = w /\ frames'[k].c = frames[k].c
    BY <1>0, <2>3
  <2>6. Untouched(k)'
    BY <2>2 DEF Untouched
  <2>7. ServerReads(k)'
    <3>1. Serving(k) /\ k \notin broken => Sound(pipe[k], w) /\ Told(q.out, pipe[k], w)
      BY <1>3, <2>2, <2>3 DEF ServerReads
    <3> QED BY <1>3, <2>4, <2>5, <3>1 DEF ServerReads
  <2>8. ClientReads(k)'
    <3>1. /\ Sound(q, frames[k].c) <=> Sound(pipe[0], frames[k].c)
          /\ Told(pipe[k].out, q, frames[k].c) <=> Told(pipe[k].out, pipe[0], frames[k].c)
      BY <2>3, SameReader
    <3> QED BY <1>3, <2>4, <2>5, <3>1 DEF ClientReads
  <2>9. pipe' = [pipe EXCEPT ![0] = q] /\ q.in = pipe[0].in /\ q.batch = pipe[0].batch
    BY <2>3
  <2> QED BY <1>1, <1>2, <2>2, <2>5, <2>6, <2>7, <2>8, <2>9, OneSocketReads
<1>5. CASE e = "s"
  <2>1. Serving(k) /\ pipe[k].peer
    BY <1>5 DEF CanSend, Serving
  <2>2. pipe[k] # EmptyPipe
    BY <2>1 DEF EmptyPipe
  <2>3. PipeOf(k, e) = k /\ ReaderOf(k, e) = 0 /\ Wire(k, e) = frames[k].c /\ Across(e) = "c"
    BY <1>5 DEF PipeOf, ReaderOf, Wire, Across
  <2>4. pipe'[k] = q /\ pipe'[0] = pipe[0]
    BY <1>0, <2>3, TypedAt
  <2>5. frames' \in [Socket -> [c : Wires, s : Wires]] /\ frames'[k].c = w /\ frames'[k].s = frames[k].s
    BY <1>0, <2>3
  <2>6. Untouched(k)'
    BY <1>3, <2>2 DEF Untouched
  <2>7. ServerReads(k)'
    <3>1. /\ Sound(q, frames[k].s) <=> Sound(pipe[k], frames[k].s)
          /\ Told(pipe[0].out, q, frames[k].s) <=> Told(pipe[0].out, pipe[k], frames[k].s)
      BY <2>3, SameReader
    <3> QED BY <1>3, <2>4, <2>5, <3>1 DEF ServerReads
  <2>8. ClientReads(k)'
    <3>1. k = channel /\ k \notin broken => Sound(pipe[0], w) /\ Told(q.out, pipe[0], w)
      BY <1>3, <2>1, <2>3 DEF ClientReads
    <3> QED BY <1>3, <2>4, <2>5, <3>1 DEF ClientReads
  <2>9. pipe' = [pipe EXCEPT ![k] = q]
    BY <2>3
  <2> QED BY <1>0, <1>1, <1>2, <2>5, <2>6, <2>7, <2>8, <2>9, OneSocketReads
<1> QED BY <1>4, <1>5

\* The pipeline and wire a sender uses are typed.
LEMMA SenderTyped ==
  ASSUME ReadInv, NEW k \in Socket, NEW e \in {"c", "s"}
  PROVE  IsPipe(pipe[PipeOf(k, e)]) /\ IsPipe(pipe[ReaderOf(k, e)]) /\ Wire(k, e) \in Wires
BY TypedAt DEF PipeOf, ReaderOf, Wire, Across

LEMMA AnnouncementTyped ==
  ASSUME NEW p, IsPipe(p), NEW d \in Doc, NEW big \in BOOLEAN
  PROVE  Announcement(p, d, big) \in Wires
<1> DEFINE a == AliasIn(Announced(p, d), d)
<1>1. a \in Nat
  BY AnnouncedAlias
<1>2. p.seq \in Nat
  BY PipeFields
<1> HIDE DEF a
<1>3. \A n \in 0 .. 2 : Frame("announce", d, a, p.seq, n) \in FrameSet
  BY <1>1, <1>2 DEF Frame, FrameSet
<1>4. Announcement(p, d, big) = IF big THEN <<Frame("announce", d, a, p.seq, 1), Frame("announce", d, a, p.seq, 2)>>
                                ELSE <<Frame("announce", d, a, p.seq, 0)>>
  BY DEF Announcement, a
<1>5. /\ Frame("announce", d, a, p.seq, 0) \in FrameSet /\ Frame("announce", d, a, p.seq, 1) \in FrameSet
      /\ Frame("announce", d, a, p.seq, 2) \in FrameSet
  BY <1>3
<1> QED BY <1>4, <1>5 DEF Wires

LEMMA SendPresentReads ==
  ASSUME ShellFollows, ReadInv, NEW k \in Socket, NEW e \in {"c", "s"}, SendPresent(k, e) PROVE ReadInv'
<1>1. PICK d \in Doc, big \in BOOLEAN :
        /\ frames' = [frames EXCEPT ![k][Across(e)] = @ \o Announcement(pipe[PipeOf(k, e)], d, big)]
        /\ pipe' = [pipe EXCEPT ![PipeOf(k, e)] = Announced(@, d)]
  BY DEF SendPresent
<1>2. CanSend(k, e) /\ UNCHANGED <<model, socket, channel, ends, served, misread, broken>>
  BY DEF SendPresent, client
<1> DEFINE p == pipe[PipeOf(k, e)]
           q == Announced(p, d)
           w == Wire(k, e) \o Announcement(p, d, big)
<1>3. IsPipe(p) /\ Wire(k, e) \in Wires
  BY SenderTyped
<1>4. IsPipe(q) /\ q.in = p.in /\ q.batch = p.batch
  BY <1>3, AnnouncedAlias
<1>5. w \in Wires
  BY <1>3, AnnouncementTyped DEF Wires
<1>6. frames' = [frames EXCEPT ![k][Across(e)] = w]
  BY <1>1 DEF Wire
<1>7. pipe' = [pipe EXCEPT ![PipeOf(k, e)] = q]
  BY <1>1
<1>8. Sound(pipe[ReaderOf(k, e)], Wire(k, e)) /\ Told(p.out, pipe[ReaderOf(k, e)], Wire(k, e))
        => Sound(pipe[ReaderOf(k, e)], w) /\ Told(q.out, pipe[ReaderOf(k, e)], w)
  BY <1>3, PresentSound
<1> HIDE DEF q, w
<1> QED BY <1>2, <1>4, <1>5, <1>6, <1>7, <1>8, SendReads

LEMMA SendOtherReads ==
  ASSUME ShellFollows, ReadInv, NEW k \in Socket, NEW e \in {"c", "s"}, SendOther(k, e) PROVE ReadInv'
<1>1. PICK d \in Doc :
        /\ AliasIn(pipe[PipeOf(k, e)], d) # 0
        /\ frames' = [frames EXCEPT ![k][Across(e)] = Append(@, Use(pipe[PipeOf(k, e)], d))]
        /\ pipe' = [pipe EXCEPT ![PipeOf(k, e)].seq = @ + 1]
  BY DEF SendOther
<1>2. CanSend(k, e) /\ UNCHANGED <<model, socket, channel, ends, served, misread, broken>>
  BY DEF SendOther, client
<1> DEFINE p == pipe[PipeOf(k, e)]
           q == [p EXCEPT !.seq = @ + 1]
           f == Use(p, d)
           w == Append(Wire(k, e), f)
<1>3. IsPipe(p) /\ Wire(k, e) \in Wires
  BY SenderTyped
<1>4. IsPipe(q) /\ q.in = p.in /\ q.batch = p.batch /\ q.out = p.out
  <2>1. p.seq + 1 \in Nat
    BY <1>3, PipeFields
  <2> HIDE DEF p
  <2> QED BY <1>3, <2>1 DEF IsPipe
<1>5. f \in FrameSet /\ f.t = "use" /\ f.part = 0 /\ f.doc = d /\ (f.alias # 0 => f.alias \in DOMAIN p.out /\ p.out[f.alias] = d)
  <2>1. \E a \in DOMAIN p.out : p.out[a] = d
    BY <1>1 DEF AliasIn
  <2>2. AliasIn(p, d) = CHOOSE a \in DOMAIN p.out : p.out[a] = d
    BY <2>1 DEF AliasIn
  <2>3. AliasIn(p, d) \in DOMAIN p.out /\ p.out[AliasIn(p, d)] = d
    BY <2>1, <2>2
  <2>4. AliasIn(p, d) \in Nat /\ p.seq \in Nat
    BY <1>3, <2>3, PipeFields
  <2> HIDE DEF p
  <2> QED BY <2>3, <2>4 DEF Use, Frame, FrameSet
<1>6. w \in Wires
  BY <1>3, <1>5 DEF Wires
<1>7. frames' = [frames EXCEPT ![k][Across(e)] = w]
  BY <1>1 DEF Wire
<1>8. pipe' = [pipe EXCEPT ![PipeOf(k, e)] = q]
  BY <1>1
<1> HIDE DEF f
<1>9. Sound(pipe[ReaderOf(k, e)], Wire(k, e)) /\ Told(p.out, pipe[ReaderOf(k, e)], Wire(k, e))
        => Sound(pipe[ReaderOf(k, e)], w) /\ Told(p.out, pipe[ReaderOf(k, e)], w)
  BY <1>3, <1>5, OtherSound
<1> HIDE DEF q, w
<1>10. Sound(pipe[ReaderOf(k, e)], Wire(k, e)) /\ Told(p.out, pipe[ReaderOf(k, e)], Wire(k, e))
        => Sound(pipe[ReaderOf(k, e)], w) /\ Told(q.out, pipe[ReaderOf(k, e)], w)
  BY <1>4, <1>9
<1> QED BY <1>2, <1>4, <1>6, <1>7, <1>8, <1>10, SendReads

LEMMA TimeoutReads == ASSUME ShellFollows, ReadInv, NEW i \in {0} \cup Socket, Timeout(i) PROVE ReadInv'
<1>0. /\ pipe[i].batch # {} /\ pipe' = [pipe EXCEPT ![i].batch = {}]
      /\ broken' = broken \cup (IF i = 0 THEN {channel} \ {0} ELSE {i})
      /\ UNCHANGED <<model, socket, channel, ends, frames, served, misread>>
  BY DEF Timeout, client
<1>1. PipesTyped
  BY DEF ReadInv
<1>2. /\ pipe = [j \in {0} \cup Socket |-> pipe[j]] /\ \A j \in {0} \cup Socket : IsPipe(pipe[j])
  BY <1>1, Zenon DEF PipesTyped
<1> DEFINE q == [pipe[i] EXCEPT !.batch = {}]
<1>3. IsPipe(q) /\ q.out = pipe[i].out
  <2>1. IsPipe(pipe[i])
    BY <1>2
  <2> QED BY <2>1 DEF IsPipe
<1>4. pipe'[i] = q /\ \A j \in {0} \cup Socket : j # i => pipe'[j] = pipe[j]
  BY <1>0, <1>2
<1> HIDE DEF q
<1>5. PipesTyped'
  <2>1. pipe' = [j \in {0} \cup Socket |-> pipe'[j]]
    BY <1>0, <1>2
  <2>2. \A j \in {0} \cup Socket : IsPipe(pipe'[j])
    BY <1>2, <1>3, <1>4
  <2>3. frames' \in [Socket -> [c : Wires, s : Wires]]
    BY <1>0, <1>1 DEF PipesTyped
  <2> QED BY <2>1, <2>2, <2>3 DEF PipesTyped
<1>6. Current' /\ (misread \subseteq broken)'
  BY <1>0 DEF ReadInv, Current
<1>7. ASSUME NEW j \in Socket PROVE Untouched(j)' /\ ServerReads(j)' /\ ClientReads(j)'
  <2>1. Untouched(j) /\ ServerReads(j) /\ ClientReads(j) /\ (Serving(j)' <=> Serving(j)) /\ j # 0
    BY <1>0 DEF ReadInv, Serving, Socket
  <2>2. j = i => pipe[j] # EmptyPipe
    BY <1>0 DEF EmptyPipe
  <2>3. Untouched(j)'
    BY <1>0, <1>4, <2>1, <2>2 DEF Untouched
  <2>4. pipe'[0].out = pipe[0].out /\ pipe'[j].out = pipe[j].out
    BY <1>3, <1>4
  <2>5. j \notin broken' => j \notin broken /\ j # i /\ (j = channel => i # 0)
    BY <1>0, <2>1
  <2>6. ServerReads(j)'
    <3>1. j # i => pipe'[j] = pipe[j]
      BY <1>4
    <3> QED BY <1>0, <2>1, <2>4, <2>5, <3>1 DEF ServerReads
  <2>7. ClientReads(j)'
    <3>1. i # 0 => pipe'[0] = pipe[0]
      BY <1>4
    <3> QED BY <1>0, <2>1, <2>4, <2>5, <3>1 DEF ClientReads
  <2> QED BY <2>3, <2>6, <2>7
<1> QED BY <1>5, <1>6, <1>7 DEF ReadInv

LEMMA InitReads == Init => ReadInv
<1> SUFFICES ASSUME Init PROVE ReadInv
  OBVIOUS
<1>0. /\ pipe = [k \in {0} \cup Socket |-> EmptyPipe] /\ frames = [k \in Socket |-> NoFrames]
      /\ ends = [k \in Socket |-> Unused] /\ model.status = "disconnected" /\ misread = {} /\ broken = {} /\ served = {} /\ channel = 0
  BY DEF Init, Fresh, Initially
<1>1. PipesTyped
  <2>1. <<>> \in Seq(Doc) /\ {} \in SUBSET FrameSet /\ 1 \in Nat /\ <<>> \in Wires
    BY DEF Wires
  <2>2. IsPipe(EmptyPipe)
    BY <2>1 DEF EmptyPipe, IsPipe
  <2>3. frames \in [Socket -> [c : Wires, s : Wires]]
    BY <1>0, <2>1 DEF NoFrames
  <2>4. pipe = [k \in {0} \cup Socket |-> pipe[k]] /\ \A k \in {0} \cup Socket : pipe[k] = EmptyPipe
    BY <1>0
  <2> QED BY <2>2, <2>3, <2>4 DEF PipesTyped
<1>2. Current
  BY <1>0 DEF Current, Engaged
<1>3. ASSUME NEW k \in Socket PROVE Untouched(k) /\ ServerReads(k) /\ ClientReads(k)
  <2>1. k # 0 /\ ends[k].c = "none" /\ frames[k] = NoFrames /\ pipe[k] = EmptyPipe
    BY <1>0 DEF Socket, Unused
  <2> QED BY <1>0, <2>1 DEF Untouched, ServerReads, ClientReads, Serving
<1> QED BY <1>0, <1>1, <1>2, <1>3 DEF ReadInv

LEMMA NextReads == ASSUME ShellFollows, ShellFollows', ReadInv, [Next]_vars PROVE ReadInv'
<1>1. CASE ClientStep
  BY <1>1, StartReads, TimerFiresReads, SocketOpenedReads, ClientReceivesReads, ClientEndsReads DEF ClientStep
<1>2. CASE ServerStep
  BY <1>2, AcceptReads, ServerReceivesReads, ServerEndsReads DEF ServerStep
<1>3. CASE Stop
  BY <1>3, StopReads
<1>4. CASE \E k \in Socket : Fails(k) \/ \E e \in {"c", "s"} : SendPresent(k, e) \/ SendOther(k, e)
  BY <1>4, FailsReads, SendPresentReads, SendOtherReads
<1>5. CASE \E i \in {0} \cup Socket : Timeout(i)
  BY <1>5, TimeoutReads
<1>6. CASE UNCHANGED vars
  <2>1. UNCHANGED <<model, socket, channel, ends, frames, served, pipe, misread, broken>>
    BY <1>6 DEF vars
  <2>2. PipesTyped' /\ Current'
    BY <2>1 DEF ReadInv, PipesTyped, Current
  <2>3. \A k \in Socket : Untouched(k)' /\ ServerReads(k)' /\ ClientReads(k)'
    BY <2>1 DEF ReadInv, Untouched, ServerReads, ClientReads, Serving
  <2> QED BY <2>1, <2>2, <2>3 DEF ReadInv
<1> QED BY <1>1, <1>2, <1>3, <1>4, <1>5, <1>6 DEF Next

\* The inductive invariant of the pipelines holds, whatever fails, is replaced or is given up when.
THEOREM ReadCorrect == Spec => []ReadInv
<1>1. ShellFollows /\ ShellFollows' /\ ReadInv /\ [Next]_vars => ReadInv'
  BY NextReads
<1> QED BY <1>1, InitReads, ShellFollowsCorrect, PTL DEF Spec

\* No message is taken for another: an alias or the half of a message of one connection never meets those of the next
\* (alias-table.ts, fragment-collector.ts), unless the collector gave up a partial message on that connection.
THEOREM NothingMisreadCorrect == Spec => []NothingMisread
<1>1. ReadInv => NothingMisread
  BY DEF ReadInv, NothingMisread
<1> QED BY <1>1, ReadCorrect, PTL

=============================================================================
