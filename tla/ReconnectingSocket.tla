-------------------------- MODULE ReconnectingSocket --------------------------
(***************************************************************************)
(* The websocket life cycle that PolymarketClobWs (clob-ws.ts) and          *)
(* ManagedFeed (clob-ws-failover.ts) share: connect() makes a socket, its   *)
(* close event arms a timer that connects again, close() stops it all.      *)
(* Each operator is what one callback of the event loop does to one feed;   *)
(* the modules that extend this one add what their own callbacks do.        *)
(***************************************************************************)
EXTENDS Naturals, FiniteSets

CONSTANTS
  Feeds,
  MaxSockets    \* bound: sockets a feed makes in its life

ASSUME SocketAssumption == MaxSockets \in Nat \ {0}

Ids == 1 .. MaxSockets

VARIABLES
  made,      \* feed |-> number of sockets made so far
  socket,    \* feed |-> (socket |-> where it is in its life)
  ws,        \* feed |-> the socket this.ws points to, 0 for null
  timers,    \* feed |-> reconnect timers armed and not fired
  closed     \* feed |-> this.closed

socketVars == <<made, socket, ws, timers, closed>>

Lives == {"none", "connecting", "open", "closing", "gone"}

SocketTypeOK ==
  /\ made \in [Feeds -> 0 .. MaxSockets]
  /\ socket \in [Feeds -> [Ids -> Lives]]
  /\ ws \in [Feeds -> 0 .. MaxSockets]
  /\ timers \in [Feeds -> Nat]
  /\ closed \in [Feeds -> BOOLEAN]

(* After connect() has been called for every feed.                          *)
SocketInit ==
  /\ made = [f \in Feeds |-> 1]
  /\ socket = [f \in Feeds |-> [s \in Ids |-> IF s = 1 THEN "connecting" ELSE "none"]]
  /\ ws = [f \in Feeds |-> 1]
  /\ timers = [f \in Feeds |-> 0]
  /\ closed = [f \in Feeds |-> FALSE]

In(f, s, states) == socket[f][s] \in states

(* The handshake completes.                                                 *)
Opened(f, s) ==
  /\ In(f, s, {"connecting"})
  /\ socket' = [socket EXCEPT ![f][s] = "open"]
  /\ UNCHANGED <<made, ws, timers, closed>>

(* Fault: the close handler arms the timer even when the feed was closed.   *)
GoneRearms(f, s) ==
  /\ In(f, s, {"connecting", "open", "closing"})
  /\ socket' = [socket EXCEPT ![f][s] = "gone"]
  /\ timers' = [timers EXCEPT ![f] = @ + 1]
  /\ UNCHANGED <<made, ws, closed>>

(* Fault: only a socket that had opened is replaced.                        *)
GoneAfterOpen(f, s) ==
  /\ In(f, s, {"connecting", "open", "closing"})
  /\ socket' = [socket EXCEPT ![f][s] = "gone"]
  /\ timers' = IF closed[f] \/ In(f, s, {"connecting"}) THEN timers
               ELSE [timers EXCEPT ![f] = @ + 1]
  /\ UNCHANGED <<made, ws, closed>>

(* The close event of a socket, whoever ended it.                           *)
Gone(f, s) ==
  /\ In(f, s, {"connecting", "open", "closing"})
  /\ socket' = [socket EXCEPT ![f][s] = "gone"]
  /\ timers' = IF closed[f] THEN timers ELSE [timers EXCEPT ![f] = @ + 1]
  /\ UNCHANGED <<made, ws, closed>>

(* The timer calls connect().                                               *)
Reconnect(f) ==
  /\ timers[f] > 0
  /\ made[f] < MaxSockets
  /\ timers' = [timers EXCEPT ![f] = @ - 1]
  /\ closed' = [closed EXCEPT ![f] = FALSE]
  /\ made' = [made EXCEPT ![f] = @ + 1]
  /\ socket' = [socket EXCEPT ![f][made[f] + 1] = "connecting"]
  /\ ws' = [ws EXCEPT ![f] = made[f] + 1]

(* ws.close() on a socket that is gone already does nothing.                *)
Closing(fs) ==
  [f \in Feeds |->
    [s \in Ids |-> IF f \in fs /\ ws[f] = s /\ In(f, s, {"connecting", "open"})
                   THEN "closing" ELSE socket[f][s]]]

(* Fault: close() leaves an armed timer to fire.                            *)
CloseKeepsTimer(fs) ==
  /\ closed' = [f \in Feeds |-> closed[f] \/ f \in fs]
  /\ socket' = Closing(fs)
  /\ ws' = [f \in Feeds |-> IF f \in fs THEN 0 ELSE ws[f]]
  /\ UNCHANGED <<made, timers>>

(* close() of some feeds.  Timers fire in the order they were armed, so the *)
(* one that reconnectTimer names is the last of those that have not fired.  *)
Close(fs) ==
  /\ closed' = [f \in Feeds |-> closed[f] \/ f \in fs]
  /\ timers' = [f \in Feeds |-> IF f \in fs /\ timers[f] > 0 THEN timers[f] - 1 ELSE timers[f]]
  /\ socket' = Closing(fs)
  /\ ws' = [f \in Feeds |-> IF f \in fs THEN 0 ELSE ws[f]]
  /\ UNCHANGED made

-----------------------------------------------------------------------------
Working(f) == {s \in Ids : In(f, s, {"connecting", "open"})}

(* A feed has one socket or one timer that will make the next, never two;   *)
(* once closed it has neither, so it cannot come back to life, wherever     *)
(* close() fell between a disconnection, its timer and the new handshake.   *)
OneConnection ==
  \A f \in Feeds :
    Cardinality(Working(f)) + timers[f] = IF closed[f] THEN 0 ELSE 1
=============================================================================
