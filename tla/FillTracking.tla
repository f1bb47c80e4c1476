----------------------------- MODULE FillTracking ------------------------------
(***************************************************************************)
(* packages/execution/src/polymarket: executor.ts posts the orders of one   *)
(* cycle one after the other, fill-tracker.ts and user-ws.ts then find out  *)
(* what became of them.  The tracker matches order ids with orders by their *)
(* position in two lists, of which the ids leave out the orders that failed. *)
(*                                                                         *)
(* An order is its position in the batch.  The id k is the exchange's for   *)
(* order k, -k the one postLimitOrder made up for it, 0 an unknown one.     *)
(***************************************************************************)
EXTENDS Integers, Sequences, SequencesExt, FiniteSetsExt

CONSTANT Lots   \* the size of every order, in the lots it may be filled by

ASSUME LotsAssumption == Lots \in Nat \ {0}

VARIABLES
  orders,   \* the orders built for the cycle
  posted,   \* how many of them have been posted
  ids,      \* the order ids collected
  filled,   \* what the exchange has filled of each order it holds (external)
  tracking, \* how far trackFills has got
  inbox,    \* latest user-channel message of each order: lots and status
  found,    \* order id |-> the fill taken from the channel
  polled,   \* how many orders have been polled
  fills     \* what trackFills returns

fillVars ==
  <<orders, posted, ids, filled, tracking, inbox, found, polled, fills>>

Positions == DOMAIN orders
Held == DOMAIN filled

Fill(id, order, lots, status, source) ==
  [id |-> id, order |-> order, lots |-> lots, status |-> status,
   source |-> source]

NoFills == [k \in {} |-> 0]

FillInit ==
  /\ orders = <<>>
  /\ posted = 0
  /\ ids = <<>>
  /\ filled = NoFills
  /\ tracking = "off"
  /\ inbox = NoFills
  /\ found = NoFills
  /\ polled = 0
  /\ fills = <<>>

StartBatch(batch) ==
  /\ orders' = batch
  /\ posted' = 0
  /\ ids' = <<>>
  /\ filled' = NoFills
  /\ tracking' = "off"
  /\ inbox' = NoFills
  /\ found' = NoFills
  /\ polled' = 0
  /\ fills' = <<>>

TrackAgain ==
  /\ tracking' = "off"
  /\ inbox' = NoFills
  /\ found' = NoFills
  /\ polled' = 0
  /\ fills' = <<>>
  /\ UNCHANGED <<orders, posted, ids, filled>>

-----------------------------------------------------------------------------
(* liveExecute.                                                             *)

(* Fault: all are posted at once, the ids are listed as the answers come.   *)
PostsAtOnce(id, takes) ==
  /\ posted < Len(orders)
  /\ posted' = posted + 1
  /\ ids' = IF id = 0 THEN ids ELSE <<id>> \o ids
  /\ filled' = IF takes
               THEN [k \in Held \cup {posted + 1} |->
                       IF k \in Held THEN filled[k] ELSE 0]
               ELSE filled
  /\ UNCHANGED <<orders, tracking, inbox, found, polled, fills>>

Posts(id, takes) ==
  /\ posted < Len(orders)
  /\ posted' = posted + 1
  /\ ids' = IF id = 0 THEN ids ELSE Append(ids, id)
  /\ filled' = IF takes
               THEN [k \in Held \cup {posted + 1} |->
                       IF k \in Held THEN filled[k] ELSE 0]
               ELSE filled
  /\ UNCHANGED <<orders, tracking, inbox, found, polled, fills>>

PostAnswered == Posts(posted + 1, TRUE)
PostUnnumbered == Posts(-(posted + 1), FALSE)
PostRefused == Posts(0, FALSE)
PostUnanswered == Posts(0, TRUE)

(* Dry runs number every order themselves and post none.                    *)
PostNone ==
  /\ posted = 0
  /\ posted' = Len(orders)
  /\ ids' = [k \in Positions |-> -k]
  /\ UNCHANGED <<orders, filled, tracking, inbox, found, polled, fills>>

(* No client: no order is posted and there are no ids.                      *)
PostSkipped ==
  /\ posted = 0
  /\ posted' = Len(orders)
  /\ UNCHANGED <<orders, ids, filled, tracking, inbox, found, polled, fills>>

-----------------------------------------------------------------------------
(* The exchange, and what it says on the user channel while that is open:    *)
(* a trade, or how an order stands, late perhaps or not at all.             *)
ExchangeFills(k, lots) ==
  /\ k \in Held /\ lots > 0 /\ filled[k] + lots <= Lots
  /\ filled' = [filled EXCEPT ![k] = @ + lots]
  /\ UNCHANGED <<orders, posted, ids, tracking, inbox, found, polled, fills>>

Statuses == {"matched", "partial", "cancelled"}

(* parseUserFillMessage reads nothing filled as partial.  What comes of an   *)
(* order already found is not looked at.                                    *)
ChannelTells(k, lots, status) ==
  /\ tracking = "waiting" /\ k \notin DOMAIN found
  /\ k \in Held /\ lots <= filled[k]
  /\ lots = 0 => status # "matched"
  /\ inbox' = [j \in DOMAIN inbox \cup {k} |->
                 IF j = k THEN [lots |-> lots, status |-> status] ELSE inbox[j]]
  /\ UNCHANGED <<orders, posted, ids, filled, tracking, found, polled, fills>>

-----------------------------------------------------------------------------
(* trackFills.                                                              *)

Done(result) == tracking' = "done" /\ fills' = result

IdAt(p) == IF p \in DOMAIN ids THEN ids[p] ELSE 0

Simulated ==
  [p \in Positions |-> Fill(IdAt(p), p, Lots, "matched", "simulated")]

TrackSimulated ==
  /\ tracking = "off"
  /\ Done(Simulated)
  /\ UNCHANGED <<orders, posted, ids, filled, inbox, found, polled>>

TrackNothing ==
  /\ tracking = "off" /\ ids = <<>>
  /\ Done(<<>>)
  /\ UNCHANGED <<orders, posted, ids, filled, inbox, found, polled>>

OpenUserChannel ==
  /\ tracking = "off" /\ ids # <<>>
  /\ tracking' = "waiting"
  /\ UNCHANGED <<orders, posted, ids, filled, inbox, found, polled, fills>>

(* Connecting, and making the client that polls, may throw.                 *)
TrackThrows ==
  /\ \/ tracking = "off" /\ ids # <<>>
     \/ tracking = "polling" /\ polled = 0
  /\ tracking' = "threw"
  /\ UNCHANGED <<orders, posted, ids, filled, inbox, found, polled, fills>>

Hits == (ToSet(ids) \cap DOMAIN inbox) \ DOMAIN found

(* waitForFills looks at the messages every half second and keeps the first *)
(* it sees for an order.                                                    *)
CollectHits ==
  /\ tracking = "waiting"
  /\ Hits # {}
  /\ found' = [id \in DOMAIN found \cup Hits |->
                 IF id \in DOMAIN found THEN found[id]
                 ELSE Fill(id, id, inbox[id].lots, inbox[id].status, "exchange")]
  /\ UNCHANGED <<orders, posted, ids, filled, tracking, inbox, polled, fills>>

(* An id that was not heard of gets the order at its position.              *)
Merged ==
  [p \in DOMAIN ids |->
     IF ids[p] \in DOMAIN found
     THEN found[ids[p]]
     ELSE Fill(ids[p], p, Lots, "partial", "assumed")]

(* All are found, or the time is up; the channel is closed.                 *)
StopWaiting ==
  /\ tracking = "waiting"
  /\ IF DOMAIN found = {}
     THEN tracking' = "polling" /\ UNCHANGED fills
     ELSE Done(Merged)
  /\ inbox' = NoFills
  /\ found' = NoFills
  /\ UNCHANGED <<orders, posted, ids, filled, polled>>

(* mapStatus: an order that is neither cancelled, filled nor known to be     *)
(* open counts as matched.                                                  *)
StatusOf(lots) ==
  {"cancelled"} \cup CASE lots = Lots -> {"matched"}
                      [] lots = 0 -> {"partial", "matched"}
                      [] OTHER -> {"partial"}

(* What pollOrderFill may return for an id: what the exchange says, that it *)
(* is cancelled, or nothing filled if the exchange knows it not or is       *)
(* silent for long enough.                                                  *)
FillsReported(id, p, lots) ==
  {Fill(id, p, lots, status, "exchange") : status \in StatusOf(lots)}

(* Fault: the order's own size is reported.                                 *)
PollResultsOwnSize(id, p) == FillsReported(id, p, Lots)

PollResults(id, p) ==
  {Fill(id, p, 0, "cancelled", "exchange")}
    \cup (IF id \in Held THEN FillsReported(id, p, filled[id]) ELSE {})

(* Fault: an order without an id is not passed over.                        *)
PollNextHeld ==
  /\ tracking = "polling" /\ polled < Len(ids)
  /\ polled' = polled + 1
  /\ \E fill \in PollResults(ids[polled + 1], polled + 1) :
       fills' = Append(fills, fill)
  /\ UNCHANGED <<orders, posted, ids, filled, tracking, inbox, found>>

PollNext ==
  /\ tracking = "polling" /\ polled < Len(orders)
  /\ polled' = polled + 1
  /\ IF polled + 1 \in DOMAIN ids
     THEN \E fill \in PollResults(ids[polled + 1], polled + 1) :
            fills' = Append(fills, fill)
     ELSE UNCHANGED fills
  /\ UNCHANGED <<orders, posted, ids, filled, tracking, inbox, found>>

PolledAll ==
  /\ tracking = "polling" /\ polled = Len(orders)
  /\ Done(fills)
  /\ UNCHANGED <<orders, posted, ids, filled, inbox, found, polled>>

Tracks ==
  \/ OpenUserChannel \/ TrackNothing \/ TrackThrows
  \/ CollectHits \/ StopWaiting
  \/ PollNext \/ PolledAll

-----------------------------------------------------------------------------
(* As long as no order before it failed, a fill is filed under the order    *)
(* its id was given for.                                                    *)
FillOfItsOrder ==
  \A p \in DOMAIN fills :
    (\A k \in 1 .. p : ToSet(ids) \cap {k, -k} # {})
      => fills[p].order = Max({fills[p].id, -fills[p].id})

(* A fill that comes from the exchange is one it made, however many others  *)
(* came before or after it.                                                 *)
FillsHappened ==
  \A p \in DOMAIN fills :
    fills[p].source = "exchange" /\ fills[p].lots > 0
      => fills[p].id \in Held /\ fills[p].lots <= filled[fills[p].id]
=============================================================================
