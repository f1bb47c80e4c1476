----------------------------- MODULE ClobFailover -----------------------------
(***************************************************************************)
(* PolymarketClobWsFailover (clob-ws-failover.ts): two ManagedFeeds over    *)
(* the same markets, of which the active one is listened to.  Both feeds    *)
(* reconnect on their own; a disconnect of the primary is counted, at the   *)
(* threshold the secondary becomes the active feed and stays it.            *)
(*                                                                         *)
(* Ticks are numbered by when the exchange sent them; a feed delivers its   *)
(* own in order, each at its own pace.                                      *)
(***************************************************************************)
EXTENDS ReconnectingSocket, Sequences

CONSTANTS
  Threshold,    \* failoverAfterDisconnects
  MaxTicks      \* bound on the exchange's ticks

ASSUME FailoverAssumption ==
  /\ Feeds = {"primary", "secondary"}
  /\ Threshold \in Nat /\ MaxTicks \in Nat

VARIABLES
  active, primaryDisconnects, failovers,
  stopped,     \* the wrapper's own closed
  sent,        \* how many ticks the exchange has sent (external)
  wire,        \* feed |-> socket |-> ticks on their way (external)
  ticks,       \* feed |-> ticks it has received
  passed       \* the ticks given to options.onTick: feed and number

vars == <<socketVars, active, primaryDisconnects, failovers, stopped, sent, wire, ticks, passed>>

TypeOK ==
  /\ SocketTypeOK
  /\ active \in Feeds
  /\ primaryDisconnects \in 0 .. MaxSockets
  /\ failovers \in 0 .. MaxSockets
  /\ stopped \in BOOLEAN
  /\ sent \in 0 .. MaxTicks
  /\ wire \in [Feeds -> [Ids -> Seq(1 .. MaxTicks)]]
  /\ ticks \in [Feeds -> 0 .. MaxTicks]
  /\ passed \in Seq([feed : Feeds, number : 1 .. MaxTicks])

(* connect() has connected both.                                            *)
Init ==
  /\ SocketInit
  /\ active = "primary"
  /\ primaryDisconnects = 0
  /\ failovers = 0
  /\ stopped = FALSE
  /\ sent = 0
  /\ wire = [f \in Feeds |-> [s \in Ids |-> <<>>]]
  /\ ticks = [f \in Feeds |-> 0]
  /\ passed = <<>>

Open(f, s) ==
  /\ Opened(f, s)
  /\ UNCHANGED <<active, primaryDisconnects, failovers, stopped, sent, wire, ticks, passed>>

(* onPrimaryDisconnect: the count is over the wrapper's life, never reset.  *)
OnPrimaryDisconnect ==
  LET due == ~stopped /\ primaryDisconnects + 1 >= Threshold /\ active = "primary"
  IN /\ primaryDisconnects' = IF stopped THEN primaryDisconnects ELSE primaryDisconnects + 1
     /\ active' = IF due THEN "secondary" ELSE active
     /\ failovers' = IF due THEN failovers + 1 ELSE failovers

(* A feed's close handler: the wrapper is told first, closed or not.        *)
Drop(f, s) ==
  /\ Gone(f, s)
  /\ IF f = "primary" THEN OnPrimaryDisconnect
     ELSE UNCHANGED <<active, primaryDisconnects, failovers>>
  /\ wire' = [wire EXCEPT ![f][s] = <<>>]
  /\ UNCHANGED <<stopped, sent, ticks, passed>>

TimerFires(f) ==
  /\ Reconnect(f)
  /\ UNCHANGED <<active, primaryDisconnects, failovers, stopped, sent, wire, ticks, passed>>

(* close() stops both feeds at once.                                        *)
CloseBoth ==
  /\ ~stopped
  /\ stopped' = TRUE
  /\ Close(Feeds)
  /\ UNCHANGED <<active, primaryDisconnects, failovers, sent, wire, ticks, passed>>

(* The exchange sends a tick to every socket that is open.                  *)
Send ==
  /\ sent < MaxTicks
  /\ sent' = sent + 1
  /\ wire' = [f \in Feeds |-> [s \in Ids |->
                IF In(f, s, {"open"}) THEN Append(wire[f][s], sent + 1) ELSE wire[f][s]]]
  /\ UNCHANGED <<socketVars, active, primaryDisconnects, failovers, stopped, ticks, passed>>

Pass(f, s) == Append(passed, [feed |-> f, number |-> Head(wire[f][s])])

Arrives(f, s) ==
  /\ In(f, s, {"open", "closing"})
  /\ wire[f][s] # <<>>
  /\ wire' = [wire EXCEPT ![f][s] = Tail(@)]
  /\ UNCHANGED <<socketVars, active, primaryDisconnects, failovers, stopped, sent>>

(* Fault: ticks are passed on whichever feed they come from.                *)
TickFromBoth(f, s) ==
  /\ Arrives(f, s)
  /\ ticks' = [ticks EXCEPT ![f] = @ + 1]
  /\ passed' = Pass(f, s)

(* Every tick is counted by its feed, those of the active one are passed on.*)
Tick(f, s) ==
  /\ Arrives(f, s)
  /\ ticks' = [ticks EXCEPT ![f] = @ + 1]
  /\ passed' = IF f = active THEN Pass(f, s) ELSE passed

Next ==
  \/ \E f \in Feeds, s \in Ids : Open(f, s) \/ Drop(f, s) \/ Tick(f, s)
  \/ \E f \in Feeds : TimerFires(f)
  \/ CloseBoth
  \/ Send

Spec == Init /\ [][Next]_vars

(* Timers fire, a socket being opened or closed is in the end open or gone, *)
(* and what is on the wire of a socket that stays arrives.                  *)
Fairness ==
  /\ \A f \in Feeds : WF_vars(TimerFires(f))
  /\ \A f \in Feeds, s \in Ids :
       /\ WF_vars(In(f, s, {"connecting", "closing"}) /\ (Open(f, s) \/ Drop(f, s)))
       /\ WF_vars(Tick(f, s))

FairSpec == Spec /\ Fairness

-----------------------------------------------------------------------------
(* Properties.                                                              *)

(* What is passed on comes from the primary and then from the secondary,    *)
(* each in the exchange's order over all its sockets.  (The switch itself   *)
(* may repeat ticks, when the secondary lags behind, or skip some.)         *)
PassedInOrder ==
  \A i, j \in 1 .. Len(passed) :
    i < j =>
      \/ passed[i].feed = passed[j].feed /\ passed[i].number < passed[j].number
      \/ passed[i].feed = "primary" /\ passed[j].feed = "secondary"

(* The active feed is served: while it is down something is under way that  *)
(* brings it back, whatever the other feed does (or it has used up the      *)
(* sockets the bound grants it).                                            *)
ActiveComesBack ==
  \A f \in Feeds :
    active = f ~> \/ stopped \/ active # f
                  \/ \E s \in Ids : In(f, s, {"open"})
                  \/ made[f] = MaxSockets
=============================================================================
