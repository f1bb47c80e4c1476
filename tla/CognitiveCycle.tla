---------------------------- MODULE CognitiveCycle -----------------------------
(***************************************************************************)
(* packages/tee-core/src: what one runCognitiveCycle makes of a snapshot.   *)
(* Markets pass the guards, are ranked by the rules or by a language model, *)
(* sized by fractional Kelly and allocated under the gross limit.           *)
(*                                                                         *)
(* The code computes with floating-point numbers.  Here a Kelly fraction is *)
(* the dollars it makes of the NAV, rounded down.  The mean-variance solver *)
(* is reduced to what its last iteration does to whatever the gradient asks *)
(* for: it is projected onto the position and gross limits.                 *)
(*                                                                         *)
(* NaN is what Number makes of a model's answer that is none: it passes     *)
(* every comparison the code guards with, so it is kept apart from numbers. *)
(***************************************************************************)
EXTENDS MarketSnapshot

CONSTANTS
  Nav,        \* the fund's NAV; this and the next three are dollars
  MaxPosition, MaxGross, MinBet,
  ThetaDen,   \* Kelly's theta is 1 / ThetaDen
  WMarket, WModel, WSentiment,
  DivergenceThreshold,
  NaN,
  ModelRows,  \* the rows a language model may answer with
  ProviderSet \* whether OG_COMPUTE_PROVIDER names one

(* Of a row's confidence only whether it is a number matters.                *)
Confidences == {"number", "text"}

ASSUME CycleAssumption ==
  /\ {Nav, MaxPosition, MaxGross, MinBet} \subseteq Nat
  /\ 0 < MinBet /\ MinBet <= MaxPosition /\ MaxPosition <= MaxGross
  /\ ThetaDen \in Nat \ {0}
  /\ {WMarket, WModel, WSentiment} \subseteq Nat
  /\ NaN \notin Int
  /\ ProviderSet \in BOOLEAN
  /\ \A rows \in ModelRows :
       /\ rows \in Seq(ToSet(rows))
       /\ \A row \in ToSet(rows) :
            row \in [market : {row.market}, side : {row.side},
                    pModel : Int \cup {NaN}, confidence : Confidences]

-----------------------------------------------------------------------------
(* Ingestion and guards.  A market is barred if it is banned, illiquid or    *)
(* about to expire.                                                          *)

(* A snapshot that is too old as a whole is stamped as new, its entries     *)
(* included: no caller asks for strictFreshness.                            *)
Normalized(snapshot) ==
  [m \in DOMAIN snapshot.entry |->
     [snapshot.entry[m] EXCEPT
        !.stale = @ /\ ~snapshot.old,
        !.pMarket = Probability(@),
        !.pSentiment = Probability(@)]]

(* checkMarketGuards.  The drawdown and correlation guards never bite: no    *)
(* caller passes a peak or an open book to compare with.                    *)
PassesGuards(entry) ==
  /\ ~entry.barred
  /\ ~entry.stale
  /\ Magnitude(entry.divergence) >= DivergenceThreshold

-----------------------------------------------------------------------------
(* Ranking.                                                                 *)

RankedByRules(entries) ==
  LET eligible == SetToSeq({m \in DOMAIN entries : PassesGuards(entries[m])})
  IN [k \in DOMAIN eligible |->
        LET m == eligible[k]
            divergence == entries[m].divergence
        IN [market |-> m,
            side |-> IF divergence > 0 THEN "BUY_YES" ELSE "BUY_NO",
            pModel |-> Probability(entries[m].pMarket + divergence),
            confidence |-> "number"]]

(* An answer that is not valid throughout is taken all the same, its rows    *)
(* mended: a side that is none holds, a probability is brought into range.  *)
(* What is no number is in no range and passes as it is.                    *)
Mended(row) ==
  [row EXCEPT
     !.side = IF @ \in {"BUY_YES", "BUY_NO"} THEN @ ELSE "HOLD",
     !.pModel = IF @ = NaN THEN NaN ELSE Probability(@)]

(* What the model answered, without the rows that hold.                     *)
RankedByModel(rows) ==
  LET mended == [k \in DOMAIN rows |-> Mended(rows[k])]
  IN Kept(mended, {k \in DOMAIN rows : mended[k].side # "HOLD"})

(* The model may be out of reach or answer no rows: the rules rank instead. *)
ModelRankings(entries) ==
  {RankedByRules(entries)} \cup {RankedByModel(rows) : rows \in ModelRows}

-----------------------------------------------------------------------------
(* Sizing.                                                                  *)

Blended(entry, pModel) ==
  LET sum == WMarket + WModel + WSentiment
  IN IF sum = 0
     THEN Probability(entry.pMarket)
     ELSE IF pModel = NaN
     THEN NaN
     ELSE Probability((WMarket * entry.pMarket + WModel * pModel
                         + WSentiment * entry.pSentiment) \div sum)

(* Fault: the sign of the edge is lost.                                     *)
FractionalKellyUnsigned(p, price) ==
  IF price <= 0 \/ price >= One THEN 0
  ELSE (Magnitude(p - price) * Nav) \div (ThetaDen * (One - price))

(* theta * (b * p - q) / b with b = (1 - price) / price, in dollars.        *)
FractionalKelly(p, price) ==
  IF price <= 0 \/ price >= One \/ p <= price
  THEN 0
  ELSE ((p - price) * Nav) \div (ThetaDen * (One - price))

Constrained(wager) ==
  LET capped == Min({wager, MaxPosition})
  IN IF capped >= MinBet THEN capped ELSE 0

(* market.ask ?? market.pMarket                                             *)
AskOf(entry) == IF entry.ask = 0 THEN entry.pMarket ELSE entry.ask

(* Kelly's fraction of NaN is not at least the smallest bet, so it is 0.     *)
SizedBet(opportunity, entry) ==
  LET pBlended == Blended(entry, opportunity.pModel)
      yes == opportunity.side = "BUY_YES"
  IN [market |-> opportunity.market,
      outcome |-> IF yes THEN "YES" ELSE "NO",
      pBlended |-> pBlended,
      confidence |-> opportunity.confidence,
      wager |->
        IF pBlended = NaN
        THEN 0
        ELSE Constrained(
          IF yes
          THEN FractionalKelly(pBlended, AskOf(entry))
          ELSE FractionalKelly(One - pBlended, One - entry.pMarket))]

(* A row may name any market of the snapshot; an unknown one is dropped.    *)
Candidates(opportunities, entries) ==
  LET known == Kept(opportunities, {k \in DOMAIN opportunities :
                                      opportunities[k].market \in DOMAIN entries})
      sized == [k \in DOMAIN known |->
                  SizedBet(known[k], entries[known[k].market])]
  IN Kept(sized, {k \in DOMAIN sized : sized[k].wager > 0})

-----------------------------------------------------------------------------
(* Allocation.                                                              *)

Gross(bets) == Total([k \in DOMAIN bets |-> bets[k].wager])

(* What the gradient may ask for.  One confidence that is no number makes    *)
(* one weight NaN, and that weight every gradient of the next iteration.    *)
Requests(bets) ==
  IF \E k \in DOMAIN bets : bets[k].confidence = "text"
  THEN {[k \in DOMAIN bets |-> NaN]}
  ELSE [DOMAIN bets -> 0 .. MaxPosition + 1]

Capped(request) ==
  IF request = NaN THEN NaN ELSE Clamp(request, 0, MaxPosition)

(* Fault: the position limit alone.                                         *)
ProjectedEach(asked) == [k \in DOMAIN asked |-> Capped(asked[k])]

(* One iteration of the solver: the position limit, then the gross limit,    *)
(* which a sum of NaN is not above.                                         *)
Projected(asked) ==
  LET capped == [k \in DOMAIN asked |-> Capped(asked[k])]
      gross == Total(capped)
  IN IF (\A k \in DOMAIN asked : capped[k] # NaN) /\ gross > MaxGross
     THEN [k \in DOMAIN asked |-> (capped[k] * MaxGross) \div gross]
     ELSE capped

WithWager(bet, wager) == [bet EXCEPT !.wager = wager]

(* Bets below the smallest one are dropped, the others take their weight;    *)
(* NaN is not below it.                                                     *)
Weighted(bets, weights) ==
  LET weighted == [k \in DOMAIN bets |-> WithWager(bets[k], weights[k])]
  IN Kept(weighted, {k \in DOMAIN bets :
                       weights[k] = NaN \/ weights[k] >= MinBet})

(* When nothing is left: bets are taken while the gross limit lasts, the    *)
(* one that crosses it is cut to what remains and is the last.              *)
Take(chosen, bet) ==
  LET left == MaxGross - Gross(chosen)
  IN IF bet.wager <= left
     THEN Append(chosen, bet)
     ELSE IF left >= MinBet
          THEN Append(chosen, WithWager(bet, left))
          ELSE chosen

Greedy(bets) == FoldLeft(Take, <<>>, bets)

Orders(bets) ==
  {[k \in DOMAIN bets |-> bets[p[k]]] :
     p \in {f \in [DOMAIN bets -> DOMAIN bets] : IsInjective(f)}}

Allocated(order, asked) ==
  LET weighted == Weighted(order, Projected(asked))
  IN IF weighted = <<>> THEN Greedy(order) ELSE weighted

(* The possible results of allocateMultiMarket.  Its sorting by edge is     *)
(* left out: both ways of allocating are taken in every order.  A single     *)
(* bet keeps its size.                                                      *)
Allocations(bets) ==
  IF Len(bets) <= 1
  THEN {bets}
  ELSE UNION {{Allocated(order, asked) : asked \in Requests(order)} :
                order \in Orders(bets)}

-----------------------------------------------------------------------------
(* Attestation, asked for before the language model is.                     *)

(* What the attestation service says; when it is not configured, does not   *)
(* answer or refuses, a quote that is made up, good if a provider is set.   *)
Quotes ==
  [verified : BOOLEAN, expired : BOOLEAN]
    \cup {[verified |-> ProviderSet, expired |-> FALSE]}

Verifies(quote) == quote.verified /\ ~quote.expired

(* No snapshot is stale here, Normalized has made it new.                   *)
CircuitCloses(quote) == Verifies(quote)

-----------------------------------------------------------------------------
EmptyCycle == <<>>

(* The results of runCognitiveCycle: by the rules, or with the language     *)
(* model, and then nothing at all if the circuit breaker opens.             *)
Results(snapshot, useLlm) ==
  LET entries == Normalized(snapshot)
      BetOn(ranking) == Allocations(Candidates(ranking, entries))
      WithModel(quote) ==
        IF CircuitCloses(quote)
        THEN UNION {BetOn(ranking) : ranking \in ModelRankings(entries)}
        ELSE {EmptyCycle}
  IN IF useLlm
     THEN UNION {WithModel(quote) : quote \in Quotes}
     ELSE BetOn(RankedByRules(entries))

-----------------------------------------------------------------------------
(* What is bet in one cycle stays within the gross limit and every single    *)
(* bet between the smallest and the largest one: projecting and dropping    *)
(* small bets must not undo each other (qp-solver.ts, multi-market.ts).     *)
WithinBudget(bets) ==
  /\ \A k \in DOMAIN bets : bets[k].wager \in MinBet .. MaxPosition
  /\ Gross(bets) <= MaxGross

(* Every bet has a size.                                                     *)
HaveSize(bets) == \A k \in DOMAIN bets : bets[k].wager # NaN

(* No bet of several has a size: the one thing a model's answer can do to    *)
(* the limits, and only with a confidence that is no number.                *)
HaveNoSize(bets) ==
  /\ Len(bets) > 1
  /\ \A k \in DOMAIN bets : bets[k].wager = NaN
  /\ \E k \in DOMAIN bets : bets[k].confidence = "text"

(* A bet is on the side its own probability favours, also when a model says *)
(* otherwise: YES is bought below it and NO above it (cognitive.ts,         *)
(* sizer.ts).                                                               *)
OnItsBelief(bets, entries) ==
  \A k \in DOMAIN bets :
    LET entry == entries[bets[k].market]
    IN IF bets[k].outcome = "YES"
       THEN bets[k].pBlended > AskOf(entry)
       ELSE bets[k].pBlended < entry.pMarket
=============================================================================
