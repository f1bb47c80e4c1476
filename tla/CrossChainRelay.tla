--------------------------- MODULE CrossChainRelay ---------------------------
(***************************************************************************)
(* packages/relayer/src/cross-chain-relayer.ts: for every intent, register  *)
(* it on the bridge, place its order on the other chain's exchange, mark it *)
(* executed on the bridge.  Any error in between is caught and reported as  *)
(* "not submitted", and nothing is retried.                                 *)
(*                                                                         *)
(* A run is one call of relayCrossChainIntents: several may be under way at *)
(* once, a caller may pass an intent that an earlier run was given, and a   *)
(* run that dies never resumes.  Only live runs appear: a dry run sends     *)
(* nothing anywhere.  A transaction sits in pool until it is mined, which   *)
(* may be after its sender stopped waiting for it.                          *)
(***************************************************************************)
EXTENDS IntentBridge

CONSTANTS
  Runs,
  Wallet,   \* run |-> the wallet its transactions are sent from
  None,     \* no intent
  Events    \* which of "connection", "place", "answer", "unnumbered", "crash",
            \* "revoke", "outsider" occur

ASSUME RunsAssumption == Wallet \in [Runs -> Wallets] /\ None \notin Intents

VARIABLES
  todo,     \* intents each run has still to relay
  current,  \* the one it is at
  at,       \* how far it has got with it
  report,   \* the RelayResult it returned for each intent
  pool,     \* transactions sent and not mined
  orders,   \* number of orders the exchange holds for each intent (external)
  unnumbered \* number of answers without an order id it gave (external)

runVars == <<todo, current, at, report>>
exchangeVars == <<orders, unnumbered>>
vars == <<bridgeVars, runVars, pool, exchangeVars>>

States == {"ready", "submitting", "registered", "confirmed", "marking",
           "settled", "crashed"}

(* failed is {submitted: false, executed: false}, registered is {true,      *)
(* false}, executed is {true, true}.                                        *)
Results == {"none", "failed", "registered", "executed"}

Transactions == [kind : {"submit", "mark"}, intent : Intents, run : Runs]

Tx(k, i, r) == [kind |-> k, intent |-> i, run |-> r]

TypeOK ==
  /\ BridgeTypeOK
  /\ todo \in [Runs -> SUBSET Intents]
  /\ current \in [Runs -> Intents \cup {None}]
  /\ at \in [Runs -> States]
  /\ report \in [Runs -> [Intents -> Results]]
  /\ pool \subseteq Transactions
  /\ orders \in [Intents -> Nat]
  /\ unnumbered \in [Intents -> Nat]

Init ==
  /\ BridgeInit
  /\ todo \in [Runs -> SUBSET Intents]
  /\ current = [r \in Runs |-> None]
  /\ at = [r \in Runs |-> "ready"]
  /\ report = [r \in Runs |-> [i \in Intents |-> "none"]]
  /\ pool = {}
  /\ orders = [i \in Intents |-> 0]
  /\ unnumbered = [i \in Intents |-> 0]

-----------------------------------------------------------------------------
(* Steps of a run.                                                          *)

Goto(r, state) == at' = [at EXCEPT ![r] = state]

(* A result is pushed and the loop moves to the next intent.                *)
Return(r, i, result) ==
  /\ report' = [report EXCEPT ![r][i] = result]
  /\ Goto(r, "ready")

(* The submission is signed and sent.                                       *)
SendSubmit(r, i) ==
  /\ at[r] = "ready" /\ i \in todo[r]
  /\ todo' = [todo EXCEPT ![r] = @ \ {i}]
  /\ current' = [current EXCEPT ![r] = i]
  /\ pool' = pool \cup {Tx("submit", i, r)}
  /\ Goto(r, "submitting")
  /\ UNCHANGED <<bridgeVars, report, exchangeVars>>

(* Estimating its gas already shows that it would revert, or there is no    *)
(* bridge configured or reachable: nothing is sent.                         *)
SubmitRefused(r, i) ==
  /\ at[r] = "ready" /\ i \in todo[r]
  /\ ~CanSubmit(i) \/ "connection" \in Events
  /\ todo' = [todo EXCEPT ![r] = @ \ {i}]
  /\ Return(r, i, "failed")
  /\ UNCHANGED <<bridgeVars, current, pool, exchangeVars>>

(* submitToPolygon: the exchange confirms the order.                        *)
PlaceConfirmed(r) ==
  /\ at[r] = "registered"
  /\ orders' = [orders EXCEPT ![current[r]] = @ + 1]
  /\ Goto(r, "confirmed")
  /\ UNCHANGED <<bridgeVars, todo, current, report, pool, unnumbered>>

(* It cannot be built, there is no client, or the exchange refuses it.      *)
PlaceFailed(r) ==
  /\ "place" \in Events
  /\ at[r] = "registered"
  /\ Return(r, current[r], "registered")
  /\ UNCHANGED <<bridgeVars, todo, current, pool, exchangeVars>>

(* The exchange takes it but the answer is lost, which looks the same.      *)
PlaceUnanswered(r) ==
  /\ "answer" \in Events
  /\ at[r] = "registered"
  /\ orders' = [orders EXCEPT ![current[r]] = @ + 1]
  /\ Return(r, current[r], "registered")
  /\ UNCHANGED <<bridgeVars, todo, current, pool, unnumbered>>

(* The exchange answers without an order id, as when it refuses the order   *)
(* in its answer: postLimitOrder makes an id up, so the order counts as     *)
(* placed.                                                                  *)
PlaceUnnumbered(r) ==
  /\ "unnumbered" \in Events
  /\ at[r] = "registered"
  /\ unnumbered' = [unnumbered EXCEPT ![current[r]] = @ + 1]
  /\ Goto(r, "confirmed")
  /\ UNCHANGED <<bridgeVars, todo, current, report, pool, orders>>

(* The id it answers with is empty: the order counts as placed too, but     *)
(* there is no hash to mark the intent with.                                *)
PlaceBlank(r) ==
  /\ "unnumbered" \in Events
  /\ at[r] = "registered"
  /\ unnumbered' = [unnumbered EXCEPT ![current[r]] = @ + 1]
  /\ Return(r, current[r], "executed")
  /\ UNCHANGED <<bridgeVars, todo, current, pool, orders>>

(* Fault: the intent is marked without waiting for the exchange's answer.   *)
SendMarkEarly(r) ==
  /\ at[r] \in {"registered", "confirmed"}
  /\ pool' = pool \cup {Tx("mark", current[r], r)}
  /\ Goto(r, "marking")
  /\ UNCHANGED <<bridgeVars, todo, current, report, exchangeVars>>

SendMark(r) ==
  /\ at[r] = "confirmed"
  /\ pool' = pool \cup {Tx("mark", current[r], r)}
  /\ Goto(r, "marking")
  /\ UNCHANGED <<bridgeVars, todo, current, report, exchangeVars>>

MarkRefused(r) ==
  /\ at[r] = "confirmed"
  /\ ~CanMark(Wallet[r], current[r])
  /\ Return(r, current[r], "failed")
  /\ UNCHANGED <<bridgeVars, todo, current, pool, exchangeVars>>

ReturnExecuted(r) ==
  /\ at[r] = "settled"
  /\ Return(r, current[r], "executed")
  /\ UNCHANGED <<bridgeVars, todo, current, pool, exchangeVars>>

(* An awaited call throws; what it had sent stays sent.                     *)
LoseConnection(r) ==
  /\ "connection" \in Events
  /\ at[r] \in {"submitting", "registered", "confirmed", "marking", "settled"}
  /\ Return(r, current[r], "failed")
  /\ UNCHANGED <<bridgeVars, todo, current, pool, exchangeVars>>

Crash(r) ==
  /\ "crash" \in Events
  /\ at[r] # "crashed"
  /\ Goto(r, "crashed")
  /\ UNCHANGED <<bridgeVars, todo, current, report, pool, exchangeVars>>

-----------------------------------------------------------------------------
(* The control chain.                                                       *)

Awaits(r, i, state) == at[r] = state /\ current[r] = i

(* A run still waiting for its transaction learns what became of it.        *)
Inform(r, i, state, next) ==
  IF Awaits(r, i, state)
  THEN Goto(r, next) /\ UNCHANGED report
  ELSE UNCHANGED <<at, report>>

(* Fault: nobody learns that a transaction reverted.                        *)
InformNobody(r, i, state) == UNCHANGED <<at, report>>

InformReverted(r, i, state) ==
  IF Awaits(r, i, state)
  THEN Return(r, i, "failed")
  ELSE UNCHANGED <<at, report>>

MineSubmit(r, i) ==
  /\ Tx("submit", i, r) \in pool
  /\ pool' = pool \ {Tx("submit", i, r)}
  /\ IF CanSubmit(i)
     THEN SubmitIntent(i) /\ Inform(r, i, "submitting", "registered")
     ELSE UNCHANGED bridgeVars /\ InformReverted(r, i, "submitting")
  /\ UNCHANGED <<todo, current, exchangeVars>>

MineMark(r, i) ==
  /\ Tx("mark", i, r) \in pool
  /\ pool' = pool \ {Tx("mark", i, r)}
  /\ IF CanMark(Wallet[r], i)
     THEN MarkExecuted(Wallet[r], i) /\ Inform(r, i, "marking", "settled")
     ELSE UNCHANGED bridgeVars /\ InformReverted(r, i, "marking")
  /\ UNCHANGED <<todo, current, exchangeVars>>

(* submitIntent is open to everybody.                                       *)
SubmitByOutsider(i) ==
  /\ "outsider" \in Events
  /\ SubmitIntent(i)
  /\ UNCHANGED <<runVars, pool, exchangeVars>>

(* The owner's own entry means nothing: onlyRelayer lets the owner through. *)
OwnerSetsRelayer(wallet, allowed) ==
  /\ "revoke" \in Events
  /\ SetRelayer(wallet, allowed)
  /\ UNCHANGED <<runVars, pool, exchangeVars>>

-----------------------------------------------------------------------------
Step(r) ==
  \/ \E i \in Intents : SendSubmit(r, i) \/ SubmitRefused(r, i)
  \/ PlaceConfirmed(r)
  \/ PlaceFailed(r)
  \/ PlaceUnanswered(r)
  \/ PlaceUnnumbered(r)
  \/ PlaceBlank(r)
  \/ SendMark(r)
  \/ MarkRefused(r)
  \/ ReturnExecuted(r)

Mine(r) == \E i \in Intents : MineSubmit(r, i) \/ MineMark(r, i)

Outside ==
  \/ \E r \in Runs : LoseConnection(r) \/ Crash(r)
  \/ \E i \in Intents : SubmitByOutsider(i)
  \/ \E w \in Wallets \ {Owner}, allowed \in BOOLEAN : OwnerSetsRelayer(w, allowed)

Next == (\E r \in Runs : Step(r) \/ Mine(r)) \/ Outside

Spec == Init /\ [][Next]_vars

(* A call that does not fail returns, so a run moves on (whether a call     *)
(* fails is nobody's duty), and the chain mines what it is sent.            *)
FairSpec == Spec /\ \A r \in Runs : WF_vars(Step(r)) /\ WF_vars(Mine(r))

-----------------------------------------------------------------------------
(* Properties.                                                              *)

(* What the relayer takes for an order: one the exchange holds, or an       *)
(* answer of the exchange without a number.                                 *)
Acted(i) == orders[i] + unnumbered[i]

(* An intent is acted on at most once, and only when it is registered,      *)
(* however many runs are given it and whatever the exchange answers.        *)
OrdersRegistered ==
  \A i \in Intents : Acted(i) = 0 \/ (Acted(i) = 1 /\ i \in submittedAt)

(* The bridge marks an intent executed after its order was placed, as       *)
(* IntentBridge.sol, line 85, says.                                         *)
MarkedAfterOrder == \A i \in executed : orders[i] # 0

(* The promise of OrderOnce, kept through the bridge's refusal of a second  *)
(* submission.  Acting twice on one intent would map to no phase at all.    *)
PhaseOf(i) ==
  CASE i \in executed /\ Acted(i) = 1 -> "executed"
    [] i \notin executed /\ i \in submittedAt /\ Acted(i) = 1 -> "placed"
    [] i \notin executed /\ i \in submittedAt /\ Acted(i) = 0 -> "registered"
    [] i \notin executed /\ i \notin submittedAt /\ Acted(i) = 0 -> "new"
    [] OTHER -> "broken"

phaseMap == [i \in Intents |-> PhaseOf(i)]

Once == INSTANCE OrderOnce WITH phase <- phaseMap

OrderedOnce == Once!OOSpec

(* What a run returns as done is done: "executed" means that the order is   *)
(* placed and the bridge says so, unless the exchange answered without a    *)
(* number; "registered" means that the bridge has the intent.               *)
(* (A "failed" intent may be registered, placed or even executed.)          *)
ReportsAreTrue ==
  \A r \in Runs, i \in Intents :
    /\ report[r][i] = "executed" =>
         \/ orders[i] = 1 /\ i \in executed
         \/ unnumbered[i] = 1
    /\ report[r][i] = "registered" => i \in submittedAt

(* Every run comes to an end: unless it dies, it goes through all the       *)
(* intents it was handed and returns a result for each.                     *)
EveryIntentAnswered ==
  <>[]\A r \in Runs : at[r] = "crashed" \/ (todo[r] = {} /\ at[r] = "ready")

(* What is registered by a relayer is carried through to execution, if      *)
(* nothing fails on the way.                                                *)
RegisteredIsExecuted ==
  \A i \in Intents : i \in submittedAt ~> i \in executed
=============================================================================
