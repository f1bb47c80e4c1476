------------------------------- MODULE MCFeeds -------------------------------
(* Constants of the feeds' run.  A process has one of the two clients of the *)
(* exchange's channel, the plain feed or the feed with failover: the other   *)
(* one's variables stay as if it had been closed before the start.           *)
EXTENDS ClobFailover

CONSTANTS yes, no, Tokens, MaxMoves, MaxRefreshes

VARIABLES
  pMade, pSocket, pWs, pTimers, pClosed, quote, pWire, isFirstConnect, fills,
  entry, consumer, refreshes

plainVars == <<pMade, pSocket, pWs, pTimers, pClosed, quote, pWire, isFirstConnect,
               fills, entry, consumer, refreshes>>

MCBothFeeds == {"primary", "secondary"}
MCPlain == "plain"
MCBoth == {yes, no}
MCYes == {yes}

Plain == INSTANCE ClobFeed WITH
  Feeds <- {MCPlain}, Feed <- MCPlain, Assets <- Tokens, YesAsset <- yes,
  made <- pMade, socket <- pSocket, ws <- pWs, timers <- pTimers, closed <- pClosed,
  wire <- pWire

ASSUME PlainAssumption == Plain!FeedAssumption

NoSocket == [s \in Ids |-> "none"]

WithPlainFeed ==
  /\ Plain!Init
  /\ made = [f \in Feeds |-> 0] /\ socket = [f \in Feeds |-> NoSocket]
  /\ ws = [f \in Feeds |-> 0] /\ timers = [f \in Feeds |-> 0]
  /\ closed = [f \in Feeds |-> TRUE] /\ stopped = TRUE
  /\ active = "primary" /\ primaryDisconnects = 0 /\ failovers = 0
  /\ sent = MaxTicks /\ wire = [f \in Feeds |-> [s \in Ids |-> <<>>]]
  /\ ticks = [f \in Feeds |-> 0] /\ passed = <<>>

WithFailover ==
  /\ Init
  /\ pMade = [f \in {MCPlain} |-> 0] /\ pSocket = [f \in {MCPlain} |-> NoSocket]
  /\ pWs = [f \in {MCPlain} |-> 0] /\ pTimers = [f \in {MCPlain} |-> 0]
  /\ pClosed = [f \in {MCPlain} |-> TRUE]
  /\ quote = MaxMoves /\ pWire = [s \in Ids |-> <<>>] /\ isFirstConnect = TRUE
  /\ fills = {} /\ entry = [asset |-> yes, seq |-> 0]
  /\ consumer = "stopped" /\ refreshes = 0

MCSpec ==
  /\ WithPlainFeed \/ WithFailover
  /\ [][\/ Next /\ UNCHANGED plainVars
        \/ Plain!Next /\ UNCHANGED vars]_<<vars, plainVars>>
  /\ Fairness /\ Plain!Fairness

MCTypeOK == TypeOK /\ Plain!TypeOK

(* OneConnection of whichever client runs: one socket or one timer, and      *)
(* neither once it is closed.                                                *)
ConnectedOnce == OneConnection /\ Plain!OneConnection

(* After close() the market state is left alone at last and for good.        *)
QuietAfterClose == Plain!QuietAfterClose

(* Stated in ClobFeed and not among the runs.                                *)
GapFillGoesForward == Plain!GapFillGoesForward
PricedInYes == Plain!PricedInYes
=============================================================================
