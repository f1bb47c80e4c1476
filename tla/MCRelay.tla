------------------------------- MODULE MCRelay -------------------------------
(* Constants of the relay runs: a two-tick day, batches of one and two      *)
(* intents, a policy contract that is laxer, stricter or paused.            *)
EXTENDS RelayPipeline

CONSTANTS daemon, cli

Order(n) ==
  [usd |-> n, attested |-> TRUE, permitted |-> TRUE, buildable |-> TRUE]

MCBatches ==
  {<<Order(1), Order(2)>>,
   <<Order(3), [Order(1) EXCEPT !.buildable = FALSE], Order(1)>>,
   <<[Order(1) EXCEPT !.permitted = FALSE], Order(4)>>,
   <<Order(1), [Order(1) EXCEPT !.attested = FALSE]>>}

MCSmallBatches == {<<Order(1), Order(2)>>, <<Order(3)>>}

MCPolicy == [validUntil |-> 2, daily |-> 4, perTx |-> 3, maxNav |-> 6]

MCShortPolicy == [MCPolicy EXCEPT !.validUntil = 1]

MCStricter ==
  [validUntil |-> 5, daily |-> 3, perTx |-> 2, maxNav |-> 9, paused |-> FALSE]

MCOnChain == {NoContract, MCStricter, [MCStricter EXCEPT !.paused = TRUE]}

MCNoContract == {NoContract}
MCPausable == {MCStricter, [MCStricter EXCEPT !.paused = TRUE]}

MCDaemon == {daemon}
MCCli == {cli}
MCBoth == {daemon, cli}
=============================================================================
