------------------------------- MODULE ClobFeed -------------------------------
(***************************************************************************)
(* What changes the market state while phase1-cli.ts runs: PolymarketClobWs *)
(* (clob-ws.ts), the REST gap fill it starts on every reconnect             *)
(* (clob-rest.ts), the consumer of Bitquery's trades (kafka-consumer.ts)    *)
(* and the sentiment refreshes of a timer.  What sentiment does to an entry *)
(* is in MarketSnapshot.                                                    *)
(*                                                                         *)
(* One market is followed through its outcome tokens.  A price is the       *)
(* token it belongs to and its age: seq counts the exchange's moves.  A     *)
(* message carries the one change that normalize keeps of it.  What the     *)
(* exchange holds and sends is external.                                    *)
(***************************************************************************)
EXTENDS ReconnectingSocket, Sequences

CONSTANTS
  Feed,        \* the one feed
  Assets,      \* outcome tokens subscribed to (collectAssetIds)
  YesAsset,    \* tokenIds[0], the one assetToCondition knows
  MaxMoves,    \* bound on the exchange's price moves
  MaxRefreshes \* bound on the sentiment refreshes under way at a time

(* What the constants are taken to be.                                     *)
FeedAssumption ==
  /\ Feeds = {Feed}
  /\ YesAsset \in Assets
  /\ {MaxMoves, MaxRefreshes} \subseteq Nat

VARIABLES
  quote,         \* how often the price has moved on the exchange (external)
  wire,          \* socket |-> messages on their way (external)
  isFirstConnect,
  fills,         \* gap fill requests: not read by the exchange yet, or answered
  entry,         \* the price pMarket was last set from
  consumer,      \* whether trades are consumed
  refreshes      \* sentiment refreshes under way

feedVars == <<socketVars, quote, wire, isFirstConnect, fills>>
otherVars == <<consumer, refreshes>>
vars == <<feedVars, entry, otherVars>>

Prices == [asset : Assets, seq : 0 .. MaxMoves]
Fills == [sock : Ids, asset : Assets, seq : 0 .. MaxMoves, read : BOOLEAN]

TypeOK ==
  /\ SocketTypeOK
  /\ quote \in 0 .. MaxMoves
  /\ wire \in [Ids -> Seq(Prices)]
  /\ isFirstConnect \in BOOLEAN
  /\ fills \subseteq Fills
  /\ entry \in Prices
  /\ consumer \in {"running", "stopped"}
  /\ refreshes \in 0 .. MaxRefreshes

(* bootstrap has set every entry from the market list, the first refresh is *)
(* over, the consumer runs; connect() is called.                            *)
Init ==
  /\ SocketInit
  /\ quote = 0
  /\ wire = [s \in Ids |-> <<>>]
  /\ isFirstConnect = TRUE
  /\ fills = {}
  /\ entry = [asset |-> YesAsset, seq |-> 0]
  /\ consumer = "running"
  /\ refreshes = 0

(* gapFillAssets asks for every asset (they fit in one batch).              *)
GapFill(s) == [sock : {s}, asset : Assets, seq : {0}, read : {FALSE}]

(* The open handler: subscribe, and after the first time fill the gap.      *)
Open(s) ==
  /\ Opened(Feed, s)
  /\ fills' = IF isFirstConnect THEN fills ELSE fills \cup GapFill(s)
  /\ isFirstConnect' = FALSE
  /\ UNCHANGED <<quote, wire, entry, otherVars>>

(* Messages that did not arrive are lost with their socket.                 *)
Drop(s) ==
  /\ Gone(Feed, s)
  /\ wire' = [wire EXCEPT ![s] = <<>>]
  /\ UNCHANGED <<quote, isFirstConnect, fills, entry, otherVars>>

TimerFires ==
  /\ Reconnect(Feed)
  /\ UNCHANGED <<quote, wire, isFirstConnect, fills, entry, otherVars>>

(* The time is up; the sentiment timer is cleared in the same step.         *)
CloseFeed ==
  /\ ~closed[Feed]
  /\ Close({Feed})
  /\ UNCHANGED <<quote, wire, isFirstConnect, fills, entry, otherVars>>

(* The price moves and the exchange tells the subscribed sockets.           *)
Move(a) ==
  /\ quote < MaxMoves
  /\ quote' = quote + 1
  /\ wire' = [s \in Ids |->
                IF In(Feed, s, {"open"})
                THEN Append(wire[s], [asset |-> a, seq |-> quote + 1])
                ELSE wire[s]]
  /\ UNCHANGED <<socketVars, isFirstConnect, fills, entry, otherVars>>

(* A message names its market, so applyTick finds the entry whatever the    *)
(* token.  Messages still arrive while the socket is closing.               *)
Tick(s) ==
  /\ In(Feed, s, {"open", "closing"})
  /\ wire[s] # <<>>
  /\ wire' = [wire EXCEPT ![s] = Tail(@)]
  /\ entry' = Head(wire[s])
  /\ UNCHANGED <<socketVars, quote, isFirstConnect, fills, otherVars>>

(* The exchange reads the midpoint a request asks for.                      *)
FillRead(x) ==
  /\ x \in fills /\ ~x.read
  /\ fills' = (fills \ {x}) \cup {[x EXCEPT !.read = TRUE, !.seq = quote]}
  /\ UNCHANGED <<socketVars, quote, wire, isFirstConnect, entry, otherVars>>

(* The answer is applied.  It names no market, and assetToCondition knows   *)
(* the first token only.                                                    *)
FillApplied(x) ==
  /\ x \in fills /\ x.read
  /\ fills' = fills \ {x}
  /\ entry' = IF x.asset = YesAsset
              THEN [asset |-> x.asset, seq |-> x.seq]
              ELSE entry
  /\ UNCHANGED <<socketVars, quote, wire, isFirstConnect, otherVars>>

(* fetchMidpoint gives up.                                                  *)
FillFailed(x) ==
  /\ x \in fills
  /\ fills' = fills \ {x}
  /\ UNCHANGED <<socketVars, quote, wire, isFirstConnect, entry, otherVars>>

FillEnds == \E x \in fills : FillApplied(x) \/ FillFailed(x)

ApplyBitqueryPrice(price) == entry' = price

(* A message of the consumer: a trade of either token, some time ago, that  *)
(* names its market and not its token.                                      *)
Trade ==
  /\ consumer = "running"
  /\ \E a \in Assets, n \in 0 .. quote :
       ApplyBitqueryPrice([asset |-> a, seq |-> n])
  /\ UNCHANGED <<feedVars, otherVars>>

(* main stops the consumer after the feed, and waits for it.                *)
StopConsumer ==
  /\ closed[Feed] /\ consumer = "running"
  /\ consumer' = "stopped"
  /\ UNCHANGED <<feedVars, entry, refreshes>>

(* The timer does not wait for the refresh before.                          *)
RefreshSentiment ==
  /\ ~closed[Feed] /\ refreshes < MaxRefreshes
  /\ refreshes' = refreshes + 1
  /\ UNCHANGED <<feedVars, entry, consumer>>

RefreshEnds ==
  /\ refreshes > 0
  /\ refreshes' = refreshes - 1
  /\ UNCHANGED <<feedVars, entry, consumer>>

Next ==
  \/ \E s \in Ids : Open(s) \/ Drop(s) \/ Tick(s)
  \/ TimerFires
  \/ CloseFeed
  \/ \E a \in Assets : Move(a)
  \/ \E x \in fills : FillRead(x)
  \/ FillEnds
  \/ Trade
  \/ StopConsumer
  \/ RefreshSentiment
  \/ RefreshEnds

Spec == Init /\ [][Next]_vars

(* Timers fire, requests are answered or time out, main goes on to stop the *)
(* consumer, and a socket that is being opened or closed is in the end open *)
(* or gone.  An open one may stay open and silent for ever.                 *)
Fairness ==
  /\ WF_vars(TimerFires)
  /\ WF_vars(FillEnds)
  /\ WF_vars(StopConsumer)
  /\ WF_vars(RefreshEnds)
  /\ \A s \in Ids : WF_vars(In(Feed, s, {"connecting", "closing"}) /\ (Open(s) \/ Drop(s)))

FairSpec == Spec /\ Fairness

-----------------------------------------------------------------------------
(* Properties.                                                              *)

(* After close() the market state is left alone at last and for good:       *)
(* wherever it fell, no socket, timer, gap fill, consumer or refresh is left *)
(* that would change it.                                                    *)
Quiet ==
  /\ fills = {} /\ \A s \in Ids : wire[s] = <<>>
  /\ consumer = "stopped" /\ refreshes = 0

QuietAfterClose == [](closed[Feed] => <>[](closed[Feed] /\ Quiet))

(* A gap fill brings what was missed, never something older than what the   *)
(* entry has.                                                               *)
GapFillGoesForward ==
  [][fills' # fills => entry'.seq >= entry.seq]_vars

(* pMarket is the price of YES, as the sizing of a NO position ("selling    *)
(* YES at price", kelly/sizer.ts, line 13) takes it.                        *)
PricedInYes == entry.asset = YesAsset
=============================================================================
