---------------------------- MODULE RelayPipeline ----------------------------
(***************************************************************************)
(* Live relaying of trade intents to the exchange: relayIntents of          *)
(* packages/execution/src/relayer/pipeline.ts with the session policy it    *)
(* merges (policy/on-chain.ts), the checks (policy/validator.ts), the       *)
(* sequential posting (polymarket/executor.ts) and the daily spend ledger,  *)
(* a JSON file that every relaying process shares (policy/daily-spend.ts).  *)
(*                                                                         *)
(* A relayer is an operating-system process: the fund daemon, the           *)
(* scheduler loop, a run of the command line.  Code between two awaits is   *)
(* one step, except where it touches the shared file: a read and the two    *)
(* halves of writeFileSync (truncate, fill) are steps of their own.         *)
(*                                                                         *)
(* A rotation writes a new policy file, good for whatever time it is given, *)
(* longer or shorter than the one before; the operator names it in .env,    *)
(* which a process reads when it starts and never again.                    *)
(*                                                                         *)
(* A dry run posts nothing and records nothing, so only live relays appear. *)
(* Dollars are naturals.  The ledger's orderIds are left out: nothing reads *)
(* them but the filter that keeps them distinct.                            *)
(***************************************************************************)
EXTENDS Units, Sequences

CONSTANTS
  Relayers,
  EarlyReaders,     \* relayers that read the ledger before they think (cli.ts)
  Batches,          \* what a cognitive cycle may hand over: sequences of intents
  SessionPolicy,    \* the session policy file at the start
  SessionTTLs,      \* how many ticks a rotated session may be given
  OnChainPolicies,  \* values the ExecutionPolicy contract may be given
  NoContract,       \* no EXECUTION_POLICY_ADDRESS configured
  Faults,           \* which of "fetch", "client", "reject", "unnumbered",
                    \* "answer", "crash" occur
  TicksPerDay,
  MaxTime,          \* bound on the clock
  MaxFaults,        \* bound on the faults that lose a record of spending
  MaxPlaced         \* bound: no cycle begins on a day that has seen this much

PolicyType == [validUntil : Nat, daily : Nat, perTx : Nat, maxNav : Nat]

(* permitted abstracts the checks that depend on the intent alone: chain,   *)
(* target, attestation length, signature, selector, timestamp; buildable    *)
(* those of the order builder: a known token and a price in range.          *)
IntentType ==
  [usd : Nat, attested : BOOLEAN, permitted : BOOLEAN, buildable : BOOLEAN]

ASSUME RelayAssumption ==
  /\ EarlyReaders \subseteq Relayers
  /\ Batches \subseteq Seq(IntentType)
  /\ SessionPolicy \in PolicyType
  /\ \A p \in OnChainPolicies \ {NoContract} :
       /\ [validUntil |-> p.validUntil, daily |-> p.daily,
           perTx |-> p.perTx, maxNav |-> p.maxNav] \in PolicyType
       /\ p.paused \in BOOLEAN
  /\ SessionTTLs \subseteq Nat
  /\ MaxTime \in Nat /\ MaxFaults \in Nat /\ MaxPlaced \in Nat
  /\ TicksPerDay \in Nat \ {0}

VARIABLES
  now,
  offPolicy,   \* the session policy file .env names
  onChain,     \* what the ExecutionPolicy contract holds
  ledger,      \* daily-spend.json
  placed,      \* dollars of orders the exchange took, by day (external)
  faults,      \* how often a record of spending was lost
  session,     \* the session policy file each process was started with
  at,          \* where each relayer is
  batch,       \* the intents of the cycle it relays
  policy,      \* the policy it loaded, then the one it merged
  spent,       \* the spending it validates against
  orders,      \* the intents it approved and built orders for
  pending,     \* those it has yet to post
  accepted,    \* whether the exchange confirmed any
  base         \* what recordSpend read before it writes

world == <<now, offPolicy, onChain>>
local == <<session, at, batch, policy, spent, orders, pending, accepted, base>>
vars == <<world, ledger, placed, faults, local>>

DayOf(t) == t \div TicksPerDay
Today == DayOf(now)
Days == 0 .. DayOf(MaxTime)

States ==
  {"idle", "started", "thinking", "fetching", "posting", "writing", "filling"}

NoEntry == [date |-> 0, spentUsdc |-> 0]

TypeOK ==
  /\ now \in 0 .. MaxTime
  /\ offPolicy \in PolicyType
  /\ onChain \in OnChainPolicies \cup {NoContract}
  /\ ledger \in [date : Days, spentUsdc : Nat, readable : BOOLEAN]
  /\ placed \in [Days -> Nat]
  /\ faults \in 0 .. MaxFaults
  /\ session \in [Relayers -> PolicyType]
  /\ at \in [Relayers -> States]
  /\ batch \in [Relayers -> Batches \cup {<<>>}]
  /\ policy \in [Relayers -> PolicyType]
  /\ spent \in [Relayers -> Nat]
  /\ \A r \in Relayers :
       orders[r] \subseteq DOMAIN batch[r] /\ pending[r] \subseteq orders[r]
  /\ accepted \in [Relayers -> BOOLEAN]
  /\ base \in [Relayers -> [date : Days, spentUsdc : Nat]]

Init ==
  /\ now = 0
  /\ offPolicy = SessionPolicy
  /\ onChain \in OnChainPolicies \cup {NoContract}
  /\ ledger = [date |-> 0, spentUsdc |-> 0, readable |-> FALSE]
  /\ placed = [d \in Days |-> 0]
  /\ faults = 0
  /\ session = [r \in Relayers |-> SessionPolicy]
  /\ at = [r \in Relayers |-> "idle"]
  /\ batch = [r \in Relayers |-> <<>>]
  /\ policy = [r \in Relayers |-> SessionPolicy]
  /\ spent = [r \in Relayers |-> 0]
  /\ orders = [r \in Relayers |-> {}]
  /\ pending = [r \in Relayers |-> {}]
  /\ accepted = [r \in Relayers |-> FALSE]
  /\ base = [r \in Relayers |-> NoEntry]

(* The end of a cycle, by whatever way: the process keeps nothing of it.    *)
Forget(r) ==
  /\ at' = [at EXCEPT ![r] = "idle"]
  /\ batch' = [batch EXCEPT ![r] = <<>>]
  /\ policy' = [policy EXCEPT ![r] = SessionPolicy]
  /\ spent' = [spent EXCEPT ![r] = 0]
  /\ orders' = [orders EXCEPT ![r] = {}]
  /\ pending' = [pending EXCEPT ![r] = {}]
  /\ accepted' = [accepted EXCEPT ![r] = FALSE]
  /\ base' = [base EXCEPT ![r] = NoEntry]
  /\ UNCHANGED session

-----------------------------------------------------------------------------
(* Policy and ledger.                                                       *)

LesserOf(a, b) == IF a <= b THEN a ELSE b

(* The stricter of the two, limit by limit; the session policy alone when   *)
(* there is no contract, and also when the contract is paused.              *)
Merge(off, on) ==
  IF on = NoContract \/ on.paused
  THEN off
  ELSE [validUntil |-> LesserOf(off.validUntil, on.validUntil),
        daily |-> LesserOf(off.daily, on.daily),
        perTx |-> LesserOf(off.perTx, on.perTx),
        maxNav |-> LesserOf(off.maxNav, on.maxNav)]

(* A file of another day, a missing one and one that does not parse all     *)
(* count as nothing spent.                                                  *)
LoadDailySpend ==
  IF ledger.readable /\ ledger.date = Today THEN ledger.spentUsdc ELSE 0

UsdOf(b, some) == TotalOf([i \in some |-> b[i].usd])

(* Fault: a session is still good at the instant it expires.                *)
InSessionInclusive(p) == now <= p.validUntil

InSession(p) == now < p.validUntil

(* Fault: the running total is not advanced as intents are approved.        *)
ApprovesEachAlone(chosen, b, p, s) ==
  \A i \in DOMAIN b :
    i \in chosen <=>
      /\ InSession(p)
      /\ b[i].permitted
      /\ b[i].usd <= p.perTx
      /\ s + b[i].usd <= p.daily
      /\ 2 * b[i].usd <= p.maxNav

(* chosen is the set of intents validateIntents approves from batch b, in   *)
(* order, each counted against the daily limit after those approved before. *)
Approves(chosen, b, p, s) ==
  \A i \in DOMAIN b :
    i \in chosen <=>
      /\ InSession(p)
      /\ b[i].permitted
      /\ b[i].usd <= p.perTx
      /\ s + UsdOf(b, {j \in chosen : j < i}) + b[i].usd <= p.daily
      /\ 2 * b[i].usd <= p.maxNav

-----------------------------------------------------------------------------
(* A relay, step by step.                                                   *)

(* A process starts: a run of the command line, or the daemon once more.    *)
(* What .env names then is its session policy file until it ends.           *)
Start(r) ==
  /\ at[r] = "idle"
  /\ session' = [session EXCEPT ![r] = offPolicy]
  /\ at' = [at EXCEPT ![r] = IF r \in EarlyReaders THEN "started" ELSE "idle"]
  /\ UNCHANGED <<world, ledger, placed, faults,
                 batch, policy, spent, orders, pending, accepted, base>>

(* cli.ts reads the ledger when it starts, before the cognitive cycle, and  *)
(* hands that figure to relayIntents.                                       *)
ReadEarly(r) ==
  /\ r \in EarlyReaders
  /\ at[r] = "started"
  /\ at' = [at EXCEPT ![r] = "thinking"]
  /\ spent' = [spent EXCEPT ![r] = LoadDailySpend]
  /\ UNCHANGED <<world, ledger, placed, faults,
                 session, batch, policy, orders, pending, accepted, base>>

(* A cycle's intents reach relayIntents, which loads the session policy and *)
(* then awaits the contract.                                                *)
Begin(r) ==
  /\ at[r] = IF r \in EarlyReaders THEN "thinking" ELSE "idle"
  /\ placed[Today] < MaxPlaced
  /\ \E b \in Batches : batch' = [batch EXCEPT ![r] = b]
  /\ policy' = [policy EXCEPT ![r] = session[r]]
  /\ at' = [at EXCEPT ![r] = "fetching"]
  /\ UNCHANGED <<world, ledger, placed, faults,
                 session, spent, orders, pending, accepted, base>>

(* One intent without attestation aborts the whole cycle.                   *)
Abort(r) ==
  /\ at[r] = "fetching"
  /\ \E i \in DOMAIN batch[r] : ~batch[r][i].attested
  /\ Forget(r)
  /\ UNCHANGED <<world, ledger, placed, faults>>

FetchedPolicies(r) ==
  {Merge(policy[r], onChain)}
    \cup (IF "fetch" \in Faults THEN {policy[r]} ELSE {})

(* The contract has answered, or failed to: everything from there to the    *)
(* first post is one synchronous stretch.                                   *)
Validate(r) ==
  LET s == IF r \in EarlyReaders THEN spent[r] ELSE LoadDailySpend
      b == batch[r]
  IN /\ at[r] = "fetching"
     /\ \A i \in DOMAIN b : b[i].attested
     /\ \E p \in FetchedPolicies(r), chosen \in SUBSET DOMAIN b :
          /\ Approves(chosen, b, p, s)
          /\ LET built == {i \in chosen : b[i].buildable} IN
             IF built = {}
             THEN Forget(r)
             ELSE /\ at' = [at EXCEPT ![r] = "posting"]
                  /\ policy' = [policy EXCEPT ![r] = p]
                  /\ spent' = [spent EXCEPT ![r] = s]
                  /\ orders' = [orders EXCEPT ![r] = built]
                  /\ pending' = [pending EXCEPT ![r] = built]
                  /\ UNCHANGED <<session, batch, accepted, base>>
     /\ UNCHANGED <<world, ledger, placed, faults>>

(* No credentials, or the client cannot be made: nothing is posted.         *)
ClientUnavailable(r) ==
  /\ "client" \in Faults
  /\ at[r] = "posting" /\ pending[r] = orders[r]
  /\ Forget(r)
  /\ UNCHANGED <<world, ledger, placed, faults>>

(* Orders are posted one at a time, in the order of the batch.              *)
Posting(r, i) ==
  /\ at[r] = "posting"
  /\ i \in pending[r]
  /\ \A j \in pending[r] : i <= j
  /\ pending' = [pending EXCEPT ![r] = @ \ {i}]
  /\ UNCHANGED <<world, ledger, session, at, batch, policy, spent, orders, base>>

Place(r, i) == placed' = [placed EXCEPT ![Today] = @ + batch[r][i].usd]

PostAccepted(r, i) ==
  /\ Posting(r, i)
  /\ Place(r, i)
  /\ accepted' = [accepted EXCEPT ![r] = TRUE]
  /\ UNCHANGED faults

PostRejected(r, i) ==
  /\ "reject" \in Faults
  /\ Posting(r, i)
  /\ UNCHANGED <<placed, accepted, faults>>

(* The exchange answers without an order id, as when it refuses the order   *)
(* in its answer: an id is made up and the order counts as posted.          *)
PostUnnumbered(r, i) ==
  /\ "unnumbered" \in Faults
  /\ Posting(r, i)
  /\ accepted' = [accepted EXCEPT ![r] = TRUE]
  /\ UNCHANGED <<placed, faults>>

(* The exchange takes the order but the answer never arrives.               *)
PostUnanswered(r, i) ==
  /\ "answer" \in Faults /\ faults < MaxFaults
  /\ Posting(r, i)
  /\ Place(r, i)
  /\ faults' = faults + 1
  /\ UNCHANGED accepted

(* No order was confirmed: there is nothing to record.                      *)
NothingSubmitted(r) ==
  /\ at[r] = "posting" /\ pending[r] = {} /\ ~accepted[r]
  /\ Forget(r)
  /\ UNCHANGED <<world, ledger, placed, faults>>

(* recordSpend: read the ledger, truncate the file, write the new one.      *)
RecordRead(r) ==
  /\ at[r] = "posting" /\ pending[r] = {} /\ accepted[r]
  /\ at' = [at EXCEPT ![r] = "writing"]
  /\ base' = [base EXCEPT ![r] = [date |-> Today, spentUsdc |-> LoadDailySpend]]
  /\ UNCHANGED <<world, ledger, placed, faults,
                 session, batch, policy, spent, orders, pending, accepted>>

RecordTruncate(r) ==
  /\ at[r] = "writing"
  /\ at' = [at EXCEPT ![r] = "filling"]
  /\ ledger' = [ledger EXCEPT !.readable = FALSE]
  /\ UNCHANGED <<world, placed, faults,
                 session, batch, policy, spent, orders, pending, accepted, base>>

(* Fault: only the first order's size is recorded.                          *)
RecordedFirstOnly(r) ==
  batch[r][CHOOSE i \in orders[r] : \A j \in orders[r] : i <= j].usd

(* The sizes of all the orders, posted or not.                              *)
Recorded(r) == UsdOf(batch[r], orders[r])

(* Fault: the amount recorded replaces what the ledger held.                *)
RecordFillReplaces(r) ==
  /\ at[r] = "filling"
  /\ ledger' = [date |-> base[r].date,
                spentUsdc |-> Recorded(r),
                readable |-> TRUE]
  /\ Forget(r)
  /\ UNCHANGED <<world, placed, faults>>

RecordFill(r) ==
  /\ at[r] = "filling"
  /\ ledger' = [date |-> base[r].date,
                spentUsdc |-> base[r].spentUsdc + Recorded(r),
                readable |-> TRUE]
  /\ Forget(r)
  /\ UNCHANGED <<world, placed, faults>>

(* The process dies, or the write throws and the cycle is abandoned; the    *)
(* next cycle starts from what the file then holds.                         *)
Crash(r) ==
  /\ "crash" \in Faults
  /\ at[r] # "idle"
  /\ IF at[r] \in {"posting", "writing", "filling"}
     THEN faults < MaxFaults /\ faults' = faults + 1
     ELSE UNCHANGED faults
  /\ Forget(r)
  /\ UNCHANGED <<world, ledger, placed>>

-----------------------------------------------------------------------------
(* The world around the relayers.                                           *)

Elsewhere == UNCHANGED <<ledger, placed, faults, local>>

Tick ==
  /\ now < MaxTime
  /\ now' = now + 1
  /\ UNCHANGED <<offPolicy, onChain>> /\ Elsewhere

(* rotateSessionKey writes a policy file good from now for as long as it is *)
(* told, whatever the old one had left, and the operator names it in .env.  *)
RenewSession ==
  /\ \E ttl \in SessionTTLs :
       offPolicy' = [offPolicy EXCEPT !.validUntil = now + ttl]
  /\ UNCHANGED <<now, onChain>> /\ Elsewhere

(* The contract's owner updates, pauses or unpauses it.                     *)
SetOnChain ==
  /\ onChain # NoContract
  /\ \E p \in OnChainPolicies \ {NoContract} : onChain' = p
  /\ UNCHANGED <<now, offPolicy>> /\ Elsewhere

PostOutcome(r) ==
  \E i \in DOMAIN batch[r] :
    \/ PostAccepted(r, i)
    \/ PostRejected(r, i)
    \/ PostUnnumbered(r, i)
    \/ PostUnanswered(r, i)

Relay(r) ==
  \/ Start(r)
  \/ ReadEarly(r)
  \/ Begin(r)
  \/ Abort(r)
  \/ Validate(r)
  \/ ClientUnavailable(r)
  \/ PostOutcome(r)
  \/ NothingSubmitted(r)
  \/ RecordRead(r)
  \/ RecordTruncate(r)
  \/ RecordFill(r)
  \/ Crash(r)

Next ==
  \/ \E r \in Relayers : Relay(r)
  \/ Tick
  \/ RenewSession
  \/ SetOnChain

Spec == Init /\ [][Next]_vars

-----------------------------------------------------------------------------
(* Properties.                                                              *)

(* The orders the exchange took on any one day stay within the session's    *)
(* daily limit.                                                             *)
DailyCapKept == \A d \in Days : placed[d] <= SessionPolicy.daily

(* A crash between posting and recording, a file left truncated and an      *)
(* answer that never came all make relayIntents forget spending.  Each such *)
(* event lets through at most one more daily limit, never more; and without *)
(* them the daily cap is kept whatever midnight does to a cycle under way.  *)
BudgetPerFault ==
  \A d \in Days : placed[d] <= SessionPolicy.daily * (1 + faults)

(* Between cycles the ledger accounts for what was placed today, up to one  *)
(* daily limit for each record lost: it may count an order that was         *)
(* refused, it may not miss one.                                            *)
LedgerCoversPlaced ==
  (\A r \in Relayers : at[r] \in {"idle", "started", "thinking"})
     => placed[Today] <= LoadDailySpend + SessionPolicy.daily * faults

(* A cycle never approves more than the daily limit it works under leaves   *)
(* over the spending it read, however old that reading is and whoever else  *)
(* relays meanwhile.                                                        *)
CycleFitsItsReading ==
  \A r \in Relayers :
    at[r] \in {"posting", "writing", "filling"}
      => spent[r] + UsdOf(batch[r], orders[r]) <= policy[r].daily

(* From the moment the session a process was started with expires, it takes *)
(* on no order, even when it loaded the policy before and awaited the       *)
(* contract since, and even when the session has been renewed meanwhile:    *)
(* the orders under way are worked off, and more take a restart.            *)
ExpiryFreezesOrders ==
  [][\A r \in Relayers :
       now >= session[r].validUntil => pending'[r] \subseteq pending[r]]_vars

(* Not so of the session .env names: when a rotation shortens it, a process *)
(* started before goes on to take orders after it has expired.              *)
RotationFreezesOrders ==
  [][now >= offPolicy.validUntil
       => \A r \in Relayers : pending'[r] \subseteq pending[r]]_vars

(* While the on-chain policy is paused no relay that reads it goes on to    *)
(* post: ExecutionPolicy.sol, line 89, allows no order then.                *)
PauseStopsRelays ==
  [][onChain # NoContract /\ onChain.paused
       => \A r \in Relayers : pending'[r] \subseteq pending[r]]_vars
=============================================================================
