---------------------------- MODULE MarketSnapshot -----------------------------
(***************************************************************************)
(* packages/ingestion/src: the snapshot a cycle of the daemon starts from,  *)
(* as buildMarketSnapshot makes it in a store of its own.  It lists the     *)
(* markets, applies one round of sentiment and then the ticks that arrive   *)
(* while it listens to the feed; a dry run reads a file instead.            *)
(*                                                                         *)
(* A probability is a number of One-ths, a score or confidence one of       *)
(* Full-ths.  A text is what is read off it: how many of its words are good *)
(* or bad news, and what the sentiment classifier makes of it, if it runs.  *)
(***************************************************************************)
EXTENDS Integers, FiniteSetsExt, SequencesExt

CONSTANTS
  Markets,
  One, Full,
  Alpha,        \* sentimentAlpha, in One-ths
  Reports,      \* what may be heard of a market: how it is listed, its
                \* question, the posts about it, the ticks of its tokens
  FixtureFile   \* market |-> its entry in fixtures/market-snapshot.json

Listings == [price : Int, barred : BOOLEAN, takesOrders : BOOLEAN, tokens : Nat]

Texts ==
  [words : Nat, good : Nat, bad : Nat, entities : Nat,
   label : {"positive", "negative", "neutral", "none"}, sure : Nat]

PostTexts ==
  [words : Nat, good : Nat, bad : Nat, entities : Nat,
   overlap : Nat, positive : Nat, negative : Nat]

Ticks == [price : Int, ask : Int, old : BOOLEAN]

Entries ==
  [pMarket : Int, pSentiment : Int, divergence : Int, score : Int,
   confidence : Nat, ask : Int, barred : BOOLEAN, stale : BOOLEAN]

ASSUME SnapshotAssumption ==
  /\ {One, Full} \subseteq Nat /\ One > 2 /\ Full > 0
  /\ Alpha \in Nat
  /\ IsFiniteSet(Markets)
  /\ Reports \subseteq [listing : Listings, question : Texts,
                       posts : Seq(PostTexts), ticks : Seq(Ticks)]
  /\ IsFiniteSet(DOMAIN FixtureFile)
  /\ FixtureFile \in [DOMAIN FixtureFile -> Entries]

Magnitude(n) == Max({n, -n})

Clamp(n, low, high) == Max({low, Min({high, n})})

(* 0.01 to 0.99.                                                            *)
Probability(n) == Clamp(n, 1, One - 1)

(* The elements of a sequence at some of its positions, in their order.     *)
Kept(s, places) ==
  [k \in 1 .. Cardinality(places) |->
     s[CHOOSE j \in places : Cardinality({i \in places : i <= j}) = k]]

Total(amounts) == FoldSeq(LAMBDA x, y : x + y, 0, amounts)

(* Rounded towards zero.                                                    *)
Quotient(n, d) == IF n >= 0 THEN n \div d ELSE -((-n) \div d)

-----------------------------------------------------------------------------
(* Sentiment.                                                               *)

(* sentimentImpliedP: the price, shifted by what is said of the market.     *)
SentimentImpliedP(pMarket, score, confidence) ==
  Probability(pMarket + Quotient(Alpha * score * confidence, Full * Full))

Reading(score, confidence) == [score |-> score, confidence |-> confidence]

NoReading == Reading(0, 0)

LexiconScore(text) ==
  LET hits == text.good + text.bad
  IN IF text.words = 0 THEN NoReading
     ELSE IF hits = 0 THEN Reading(0, Full \div 10)
     ELSE Reading(Quotient(Full * (text.good - text.bad), hits + 1),
                  Min({Full, (3 * Full) \div 10 + (Full * hits) \div text.words}))

(* scoreWithFinbert: the label of the text and how sure the classifier is.  *)
FinbertScore(text) ==
  Reading(CASE text.label = "positive" -> text.sure
            [] text.label = "negative" -> -text.sure
            [] OTHER -> 2 * text.sure - Full,
          text.sure)

(* Votes for and against; with none the post says little.                   *)
PostToScore(post) ==
  LET votes == post.positive + post.negative
  IN IF votes > 0
     THEN Reading(Quotient(Full * (post.positive - post.negative), votes + 1),
                  Min({Full, (2 * Full) \div 5 + (Full * votes) \div 20}))
     ELSE Reading(0, Full \div 4)

(* A quarter for each entity of the market that the text names.             *)
EntityKeywordBoost(text) == Min({Full, (text.entities * Full) \div 4})

(* The market's own question.                                               *)
OfQuestion(text) ==
  LET lexicon == LexiconScore(text)
      finbert == FinbertScore(text)
      boost == EntityKeywordBoost(text) \div 5
  IN IF text.label = "none"
     THEN Reading(lexicon.score, Min({Full, lexicon.confidence \div 2 + boost}))
     ELSE Reading(Quotient(6 * finbert.score + 4 * lexicon.score, 10),
                  Min({Full, finbert.confidence + boost}))

(* Enough words in common with the question, or an entity.                  *)
Matches(post) ==
  20 * post.overlap >= 3 * Full \/ post.entities > 0

OfPost(post) ==
  LET votes == PostToScore(post)
      title == LexiconScore(post)
      closeness == Min({Full, 2 * post.overlap + EntityKeywordBoost(post)})
  IN Reading(IF votes.score # 0 THEN votes.score ELSE title.score,
             (Max({votes.confidence, title.confidence}) * closeness) \div Full)

(* runSentimentPipeline; there are no posts if they cannot be fetched.      *)
Signals(question, posts) ==
  LET own == OfQuestion(question)
      about == Kept(posts, {k \in DOMAIN posts : Matches(posts[k])})
  IN (IF own.confidence > 0 THEN <<own>> ELSE <<>>)
       \o [k \in DOMAIN about |-> OfPost(about[k])]

(* The signals of a market count by their confidence, and together.         *)
MergedSignals(signals) ==
  LET weight == Total([k \in DOMAIN signals |-> signals[k].confidence])
      sum == Total([k \in DOMAIN signals |-> signals[k].score * signals[k].confidence])
  IN Reading(IF weight = 0 THEN 0 ELSE Quotient(sum, weight), Min({weight, Full}))

-----------------------------------------------------------------------------
(* The store.  An entry's ask is 0 until a tick tells one; stale says that   *)
(* it was last changed too long ago.                                        *)

RefreshDivergence(entry) ==
  LET pSentiment == SentimentImpliedP(entry.pMarket, entry.score, entry.confidence)
  IN [entry EXCEPT !.pSentiment = pSentiment,
                   !.divergence = pSentiment - entry.pMarket]

(* fetchActiveMarkets keeps what takes orders and has tokens to trade.      *)
Active(listing) == listing.takesOrders /\ listing.tokens > 0

Bootstrap(listing) ==
  [pMarket |-> Probability(listing.price),
   pSentiment |-> Probability(listing.price),
   divergence |-> 0, score |-> 0, confidence |-> 0,
   ask |-> 0, barred |-> listing.barred, stale |-> FALSE]

(* A market without signals keeps what it had.                              *)
ApplySentiment(entry, signals) ==
  LET merged == MergedSignals(signals)
  IN IF signals = <<>>
     THEN entry
     ELSE RefreshDivergence(
            [entry EXCEPT !.score = merged.score,
                          !.confidence = merged.confidence,
                          !.stale = FALSE])

(* Fault: the divergence is not refreshed.                                  *)
ApplyTickOnly(entry, tick) ==
  [entry EXCEPT !.pMarket = Probability(tick.price),
                !.ask = IF tick.ask = 0 THEN @ ELSE tick.ask,
                !.stale = tick.old]

(* A tick names its market, so either token's price becomes the entry's; it *)
(* is dated by the exchange.                                                *)
ApplyTick(entry, tick) ==
  RefreshDivergence(
    [entry EXCEPT !.pMarket = Probability(tick.price),
                  !.ask = IF tick.ask = 0 THEN @ ELSE tick.ask,
                  !.stale = tick.old])

LiveEntry(report) ==
  FoldLeft(ApplyTick,
           ApplySentiment(Bootstrap(report.listing),
                          Signals(report.question, report.posts)),
           report.ticks)

-----------------------------------------------------------------------------
(* The vaults are asked for last, for however long it takes.                 *)
Aged(entries) == [m \in DOMAIN entries |-> [entries[m] EXCEPT !.stale = TRUE]]

(* buildMarketSnapshot throws if no market is active (CycleCutOff).  The     *)
(* file is dated as its entries are, before the vaults are asked for; a live *)
(* snapshot after.                                                          *)
Snapshots(fixture) ==
  IF fixture
  THEN [old : BOOLEAN, entry : {FixtureFile}]
  ELSE LET Store(reports) ==
             [m \in {n \in Markets : Active(reports[n].listing)} |->
                LiveEntry(reports[m])]
           heard == {Store(reports) : reports \in [Markets -> Reports]} \ {<<>>}
       IN [old : {FALSE}, entry : heard \cup {Aged(entries) : entries \in heard}]

(* Ticks come after the sentiment, of either token, and at any price: a      *)
(* market's divergence is still the one its sentiment makes of the price it *)
(* is listed at.  The guards and the ranking look at the divergence only.   *)
InStep(entry) ==
  /\ entry.divergence = entry.pSentiment - entry.pMarket
  /\ entry.pSentiment = SentimentImpliedP(entry.pMarket, entry.score, entry.confidence)
=============================================================================
