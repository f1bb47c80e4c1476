------------------------------- MODULE MCToken --------------------------------
(* Constants of the agent token's runs: two proofs, of which one is too     *)
(* short to spell a hash.                                                   *)
EXTENDS AgentToken

CONSTANTS long, short, zero, fresh, none,
  seller, buyer, uri, empty, key, nokey, executor, investor

MCProofs == {long, short}
MCHashOf == [p \in MCProofs |-> IF p = long THEN fresh ELSE none]
MCHashes == {zero, fresh}
MCAccounts == {seller, buyer}
MCUris == {uri, empty}
MCKeys == {key, nokey}
MCExecutors == {executor}
MCInvestors == {investor}
MCNone == {}
=============================================================================
