------------------------------ MODULE MCBridge -------------------------------
(* Constants of the cross-chain runs.                                       *)
EXTENDS CrossChainRelay, TLC

CONSTANTS r1, r2, i1, i2, owner, hot

MCRuns == {r1, r2}
MCIntents == {i1, i2}
MCWallets == {owner, hot}
MCWallet == r1 :> owner @@ r2 :> hot
=============================================================================
