---------------------------- MODULE ClientProgram ----------------------------
(***************************************************************************)
(* The connection program of the websocket client                          *)
(* (transports/websocket/src/client-program.ts): a pure function of the    *)
(* client's state and a message to the next state and the effects to run.  *)
(* The effects of one step touch different things, so they are a set.      *)
(***************************************************************************)
EXTENDS Naturals

CONSTANT MaxAttempts    \* reconnect.maxAttempts; 0 is a client that does not reconnect

ASSUME ClientAssumption == MaxAttempts \in Nat

Status == {"disconnected", "connecting", "connected", "ready", "reconnecting"}
Effect == {"create", "close", "add-channel", "remove-channel", "start-timer", "cancel-timer", "start-keepalive", "stop-keepalive"}

To(status, attempt, do) == [status |-> status, attempt |-> attempt, do |-> do]
Stay(m) == To(m.status, m.attempt, {})
Initially == [status |-> "disconnected", attempt |-> 0]

TryReconnect(attempts, do) ==
  IF attempts >= MaxAttempts
  THEN To("disconnected", 0, do)
  ELSE To("reconnecting", attempts + 1, do \cup {"start-timer"})

OnStart(m) == IF m.status = "disconnected" THEN To("connecting", 1, {"create"}) ELSE Stay(m)

OnOpened(m) == IF m.status = "connecting" THEN To("connected", 0, {"start-keepalive"}) ELSE Stay(m)

\* Faulty variants: the program does not check, or expects only, the state.
OnReadyAlways(m) == To("ready", 0, {"add-channel"} \cup (IF m.status = "connected" THEN {} ELSE {"start-keepalive"}))

OnReadyIfConnected(m) == IF m.status = "connected" THEN To("ready", 0, {"add-channel"}) ELSE Stay(m)

\* "ready" may be told before the open event.
OnReady(m) ==
  CASE m.status = "connected"  -> To("ready", 0, {"add-channel"})
    [] m.status = "connecting" -> To("ready", 0, {"start-keepalive", "add-channel"})
    [] OTHER -> Stay(m)

OnClosed(m) ==
  CASE m.status = "connected" -> TryReconnect(0, {"stop-keepalive"})
    [] m.status = "ready"     -> TryReconnect(0, {"stop-keepalive", "remove-channel"})
    [] OTHER -> Stay(m)

OnError(m) ==
  IF m.status = "connecting" THEN TryReconnect(m.attempt, {}) ELSE OnClosed(m)

OnTimer(m) == IF m.status = "reconnecting" THEN To("connecting", m.attempt, {"create"}) ELSE Stay(m)

\* Faulty variant: stop does not close a socket that is still connecting.
OnStopIfOpen(m) ==
  CASE m.status = "disconnected" -> Stay(m)
    [] OTHER -> To("disconnected", 0, {"cancel-timer"}
                     \cup (IF m.status \in {"connected", "ready"} THEN {"close", "stop-keepalive"} ELSE {})
                     \cup (IF m.status = "ready" THEN {"remove-channel"} ELSE {}))

OnStop(m) ==
  CASE m.status = "disconnected" -> Stay(m)
    [] OTHER -> To("disconnected", 0,
                   {"cancel-timer"}
                     \cup (IF m.status # "reconnecting" THEN {"close"} ELSE {})
                     \cup (IF m.status \in {"connected", "ready"} THEN {"stop-keepalive"} ELSE {})
                     \cup (IF m.status = "ready" THEN {"remove-channel"} ELSE {}))
==============================================================================
