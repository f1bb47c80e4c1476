---------------------------- MODULE IntentBridge -----------------------------
(***************************************************************************)
(* contracts/IntentBridge.sol: the registry of signed trade intents on the  *)
(* control chain.  An intent is its hash; the signature, which the relayer  *)
(* makes over the very fields it submits, is taken to recover to somebody.  *)
(* Each operator is the effect of one transaction that does not revert.     *)
(***************************************************************************)
EXTENDS Naturals

CONSTANTS Intents, Wallets, Owner

ASSUME BridgeAssumption == Owner \in Wallets

VARIABLES
  relayers,      \* wallets allowed to mark intents executed
  submittedAt,   \* the intents whose submittedAt is not zero
  executed,      \* the intents marked executed
  intentCount

bridgeVars == <<relayers, submittedAt, executed, intentCount>>

BridgeTypeOK ==
  /\ relayers \subseteq Wallets
  /\ submittedAt \subseteq Intents
  /\ executed \subseteq Intents
  /\ intentCount \in Nat

BridgeInit ==
  /\ relayers = {Owner}
  /\ submittedAt = {}
  /\ executed = {}
  /\ intentCount = 0

SetRelayer(wallet, allowed) ==
  /\ relayers' = IF allowed THEN relayers \cup {wallet} ELSE relayers \ {wallet}
  /\ UNCHANGED <<submittedAt, executed, intentCount>>

(* Fault: a second submission of an intent overwrites the first.            *)
CanSubmitAgain(i) == i \in Intents

CanSubmit(i) == i \notin submittedAt

SubmitIntent(i) ==
  /\ CanSubmit(i)
  /\ submittedAt' = submittedAt \cup {i}
  /\ executed' = executed \ {i}
  /\ intentCount' = intentCount + 1
  /\ UNCHANGED relayers

CanMark(wallet, i) ==
  /\ wallet \in relayers \cup {Owner}
  /\ i \in submittedAt
  /\ i \notin executed

MarkExecuted(wallet, i) ==
  /\ CanMark(wallet, i)
  /\ executed' = executed \cup {i}
  /\ UNCHANGED <<relayers, submittedAt, intentCount>>
=============================================================================
