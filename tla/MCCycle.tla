------------------------------- MODULE MCCycle --------------------------------
(* Two markets, in twentieths, that headlines move up or down by as much as  *)
(* eight; some are barred, quiet, quoted with a wide spread or told of late. *)
(* Bets of 2 to 4 dollars, 6 in all.                                         *)
EXTENDS FundCycle

CONSTANTS m1, m2, daemon, cli, deployer, owner

Listing(price, barred) ==
  [price |-> price, barred |-> barred, takesOrders |-> TRUE, tokens |-> 2]

(* A text of six words.                                                      *)
Text(good, bad, label, sure) ==
  [words |-> 6, good |-> good, bad |-> bad, entities |-> 1,
   label |-> label, sure |-> sure]

Post(text, positive, negative, overlap) ==
  [words |-> text.words, good |-> text.good, bad |-> text.bad,
   entities |-> 0, overlap |-> overlap,
   positive |-> positive, negative |-> negative]

Quote(price, ask, old) == [price |-> price, ask |-> ask, old |-> old]

Heard(listing, question, posts, ticks) ==
  [listing |-> listing, question |-> question, posts |-> posts, ticks |-> ticks]

Good == Text(2, 0, "positive", 18)
Bad == Text(0, 2, "negative", 18)
Plain == Text(0, 0, "none", 0)

MCReports ==
  {Heard(Listing(10, FALSE), Good, <<>>, <<Quote(8, 9, FALSE)>>),
   Heard(Listing(12, FALSE), Bad, <<>>, <<Quote(12, 13, FALSE)>>),
   Heard(Listing(8, FALSE), Plain,
         <<Post(Plain, 9, 0, 8), Post(Bad, 0, 0, 5), Post(Bad, 0, 4, 1)>>,
         <<Quote(10, 16, FALSE), Quote(4, 0, FALSE)>>),
   Heard(Listing(8, TRUE), Good, <<>>, <<>>),
   Heard(Listing(12, FALSE), Bad, <<>>, <<Quote(16, 17, TRUE)>>),
   Heard([Listing(12, FALSE) EXCEPT !.takesOrders = FALSE], Bad, <<>>, <<>>)}

Filed(pMarket, pSentiment, ask, score, confidence) ==
  [pMarket |-> pMarket, pSentiment |-> pSentiment,
   divergence |-> pSentiment - pMarket, score |-> score,
   confidence |-> confidence, ask |-> ask, barred |-> FALSE, stale |-> FALSE]

MCFixtureFile ==
  (m1 :> Filed(8, 10, 9, 8, 12)) @@ (m2 :> Filed(13, 10, 13, -7, 14))

Row(market, side, pModel) ==
  [market |-> market, side |-> side, pModel |-> pModel, confidence |-> "number"]

InWords(row) == [row EXCEPT !.confidence = "text"]

MCModelRows ==
  {<<Row(m1, "BUY_YES", 19), Row(m1, "BUY_YES", 12)>>,
   <<Row(m2, "BUY_NO", 18), Row(m1, "SELL", 10)>>,
   <<Row("unknown", "BUY_YES", 19), Row(m2, "BUY_NO", 0)>>,
   <<Row(m1, "BUY_YES", NaN), InWords(Row(m1, "BUY_YES", 19)),
     Row(m2, "BUY_NO", 0)>>}

MCRecords == [cycle : 1 .. MaxCycles, submitted : 0 .. 2]

Start(on) ==
  [flag \in {"live", "llm", "crossChain", "anchor", "trackFills", "signs",
             "commandLine"} |-> flag \in on]

MCStarts ==
  {Start({"live", "trackFills", "signs"}),
   Start({"live", "llm", "crossChain", "anchor", "signs"}),
   Start({"llm", "anchor", "trackFills"}),
   Start({"anchor", "commandLine"})}

MCWriters == {daemon, cli}
MCWallets == {deployer, owner}
MCMarkets == {m1, m2}
MCListed == {m1, m2}
=============================================================================
