------------------------------ MODULE MCCommands ------------------------------
(* Constants of the transfer commands' runs.  A run's proof and key are     *)
(* named after it.                                                          *)
EXTENDS TransferCommands

CONSTANTS zero, none, seller, buyer, uri, demouri, empty,
  plain, demoplain, nokey, own, sale, resale, copy, demo

MCAccounts == {seller, buyer}
MCUris == {uri, demouri, empty}
MCRuns == {sale, resale, copy, demo}
MCDemo == {demo}
MCSale == {sale}
MCNone == {}

MCHashes == {zero, plain, demoplain}
MCKeys == Runs \cup {nokey}
MCHashOf == [p \in Runs |-> IF p = demo THEN none ELSE plain]
MCOwn == [r \in Runs |-> r]
MCKind == [r \in Runs |-> CASE r = demo -> "demo"
                             [] r = copy -> "clone"
                             [] OTHER -> "transfer"]
MCReceiver == [r \in Runs |-> buyer]
=============================================================================
