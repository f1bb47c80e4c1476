------------------------------- MODULE FundCycle -------------------------------
(***************************************************************************)
(* packages/daemon/src: one cycle after another, each from a snapshot of    *)
(* the markets to bets, orders, fills and an anchored record; and the       *)
(* execution layer's command line, which anchors a record of its own.       *)
(*                                                                         *)
(* Which intents are approved and what the ledger of the day makes of them  *)
(* is RelayPipeline's, how an intent crosses the bridge CrossChainRelay's:  *)
(* here any part of the intents is approved, and crossing takes a step.     *)
(***************************************************************************)
EXTENDS CognitiveCycle, FillTracking, AuditTrail

CONSTANTS
  Daemon, CommandLine,  \* the two that anchor
  Starts,               \* the flags the daemon may be started with: --live,
                        \* --llm, --cross-chain, --anchor, --track-fills;
                        \* whether it is given a key to sign with, and
                        \* whether the command line is run besides
  Listed,               \* markets fixtures/token-map.json has a token for
  MaxCycles,            \* bound: cycles begun
  MaxErrors             \* bound: cycles that an error or the process' end cut off

ASSUME DaemonAssumption ==
  /\ Daemon # CommandLine /\ Writers = {Daemon, CommandLine}
  /\ Listed \subseteq Markets
  /\ Starts \subseteq [live : BOOLEAN, llm : BOOLEAN, crossChain : BOOLEAN,
                     anchor : BOOLEAN, trackFills : BOOLEAN,
                     signs : BOOLEAN, commandLine : BOOLEAN]
  /\ {MaxCycles, MaxErrors} \subseteq Nat

VARIABLES
  flags,     \* how the daemon was started
  at,        \* where runFundCycle is
  cycle,     \* number of the cycle, its cycleId
  errors,    \* cycles cut off
  snapshot,  \* the market snapshot, until orders are built
  intents    \* the cycle's intents, until orders are built

cycleVars == <<flags, at, cycle, errors, snapshot, intents>>
vars == <<cycleVars, fillVars, auditVars>>

NoSnapshot == [old |-> FALSE, entry |-> << >>]

Init ==
  /\ flags \in Starts
  /\ at = "idle"
  /\ cycle = 0
  /\ errors = 0
  /\ snapshot = NoSnapshot
  /\ intents = <<>>
  /\ FillInit
  /\ AuditInit

GoesTo(from, to) == at = from /\ at' = to

(* cli.ts asks for the file unless it is live.                              *)
BuildSnapshot ==
  /\ GoesTo("idle", "deciding")
  /\ cycle < MaxCycles
  /\ cycle' = cycle + 1
  /\ snapshot' \in Snapshots(~flags.live)
  /\ UNCHANGED <<flags, errors, intents, fillVars, auditVars>>

(* shouldRebalance and the number of tradeable markets are only printed.    *)
RunCognitiveCycle ==
  /\ GoesTo("deciding", "relaying")
  /\ \E bets \in Results(snapshot, flags.llm) :
       /\ flags.signs => HaveSize(bets)
       /\ intents' = bets
  /\ UNCHANGED <<flags, cycle, errors, snapshot, fillVars, auditVars>>

(* An intent without a size cannot be signed: BigInt refuses NaN.            *)
SigningThrows ==
  /\ GoesTo("deciding", "idle")
  /\ flags.signs
  /\ \E bets \in Results(snapshot, flags.llm) : ~HaveSize(bets)
  /\ snapshot' = NoSnapshot
  /\ UNCHANGED <<flags, cycle, errors, intents, fillVars, auditVars>>

-----------------------------------------------------------------------------
(* relayIntents.                                                            *)

(* Some intents are not approved, or their price is out of bounds.          *)
Chosen(from) ==
  {Kept(from, kept) :
     kept \in SUBSET {k \in DOMAIN from : from[k].market \in Listed}}

(* Of an order only the outcome it is filed under and the outcome its token *)
(* pays for are kept; the token map has a market's YES token and no other.  *)
BuildOrders(approved) ==
  [k \in DOMAIN approved |-> [outcome |-> approved[k].outcome, token |-> "YES"]]

RelayIntents ==
  /\ GoesTo("relaying", "posting")
  /\ \E approved \in Chosen(intents) : StartBatch(BuildOrders(approved))
  /\ snapshot' = NoSnapshot
  /\ intents' = <<>>
  /\ UNCHANGED <<flags, cycle, errors, auditVars>>

(* The key that signs orders signs intents too; without it there is no      *)
(* client to post with.                                                     *)
Execute ==
  /\ at = "posting"
  /\ \/ ~flags.live /\ PostNone
     \/ flags.live /\ PostSkipped
     \/ /\ flags.live /\ flags.signs
        /\ PostAnswered \/ PostUnnumbered \/ PostRefused \/ PostUnanswered
  /\ UNCHANGED <<cycleVars, auditVars>>

Executed ==
  /\ GoesTo("posting", "tracking")
  /\ posted = Len(orders)
  /\ UNCHANGED <<flags, cycle, errors, snapshot, intents, fillVars, auditVars>>

-----------------------------------------------------------------------------
(* trackFills, here and again in formatRelayReport.                         *)
Tracking ==
  /\ at \in {"tracking", "reporting"}
  /\ IF flags.live /\ flags.trackFills THEN Tracks ELSE TrackSimulated
  /\ UNCHANGED <<cycleVars, auditVars>>

(* With --cross-chain relayCrossChainIntents runs before the anchoring.     *)
Tracked ==
  /\ tracking = "done"
  /\ \/ flags.crossChain /\ GoesTo("tracking", "crossing")
     \/ ~flags.crossChain /\ GoesTo("tracking", "auditing")
  /\ UNCHANGED <<flags, cycle, errors, snapshot, intents, fillVars, auditVars>>

CrossChain ==
  /\ GoesTo("crossing", "auditing")
  /\ UNCHANGED <<flags, cycle, errors, snapshot, intents, fillVars, auditVars>>

-----------------------------------------------------------------------------
(* buildRedactedAuditRecord; of its numbers only two are told apart.        *)
Record(number, submitted) == [cycle |-> number, submitted |-> submitted]

(* The fills of the first tracking are forgotten, the report has its own.   *)
Audit ==
  /\ at = "auditing"
  /\ IF flags.anchor
     THEN at' = "anchoring" /\ StartAnchor(Daemon, Record(cycle, Len(ids)))
     ELSE at' = "anchored" /\ UNCHANGED auditVars
  /\ UNCHANGED <<flags, cycle, errors, snapshot, intents, fillVars>>

Anchoring ==
  /\ at = "anchoring"
  /\ AnchorStep(Daemon)
  /\ UNCHANGED <<cycleVars, fillVars>>

Anchored ==
  /\ GoesTo("anchoring", "anchored")
  /\ anchoring[Daemon] = "anchored"
  /\ UNCHANGED <<flags, cycle, errors, snapshot, intents, fillVars, auditVars>>

Report ==
  /\ at = "anchored"
  /\ IF flags.trackFills
     THEN at' = "reporting" /\ TrackAgain
     ELSE at' = "idle" /\ StartBatch(<<>>)
  /\ UNCHANGED <<flags, cycle, errors, snapshot, intents, auditVars>>

Reported ==
  /\ GoesTo("reporting", "idle")
  /\ tracking = "done"
  /\ StartBatch(<<>>)
  /\ UNCHANGED <<flags, cycle, errors, snapshot, intents, auditVars>>

(* The loop catches what the tracking or the anchoring throws.              *)
CycleThrows ==
  /\ \/ at \in {"tracking", "reporting"} /\ tracking = "threw"
     \/ at = "anchoring" /\ anchoring[Daemon] = "failed"
  /\ at' = "idle"
  /\ StartBatch(<<>>)
  /\ UNCHANGED <<flags, cycle, errors, snapshot, intents, auditVars>>

(* Any other call throws, or the process ends and is started again.         *)
CycleCutOff ==
  /\ at # "idle" /\ errors < MaxErrors
  /\ at' = "idle"
  /\ errors' = errors + 1
  /\ snapshot' = NoSnapshot
  /\ intents' = <<>>
  /\ StartBatch(<<>>)
  /\ Proceed(Daemon, "failed")
  /\ UNCHANGED <<flags, cycle, agent, roots, stored, unmined, draft, agents>>

-----------------------------------------------------------------------------
Decide == BuildSnapshot \/ RunCognitiveCycle \/ SigningThrows

CarryOut ==
  \/ RelayIntents \/ Execute \/ Executed
  \/ Tracking \/ Tracked \/ CrossChain
  \/ Audit \/ Anchoring \/ Anchored
  \/ Report \/ Reported \/ CycleThrows

CommandLineStep ==
  /\ \/ flags.commandLine /\ anchoring[CommandLine] = "no"
          /\ StartAnchor(CommandLine, Record(1, 0))
     \/ AnchorStep(CommandLine)
  /\ UNCHANGED <<cycleVars, fillVars>>

Outside ==
  \/ /\ \E k \in Held :
          \/ \E lots \in 1 .. Lots : ExchangeFills(k, lots)
          \/ \E lots \in 0 .. filled[k], status \in Statuses :
               ChannelTells(k, lots, status)
     /\ UNCHANGED <<cycleVars, auditVars>>
  \/ /\ MineRoot \/ LoseRoot \/ \E wallet \in Wallets : SetAgent(wallet)
     /\ UNCHANGED <<cycleVars, fillVars>>

Next == Decide \/ CarryOut \/ CycleCutOff \/ CommandLineStep \/ Outside

Spec == Init /\ [][Next]_vars

(* What is awaited for as long as it takes, nothing in the code ends it: the *)
(* exchange taking an order or saying how it stands, the chains an intent   *)
(* crosses, the upload of a record and the receipt for its root.            *)
Untimed ==
  \/ at = "posting" /\ flags.live /\ flags.signs /\ posted < Len(orders)
  \/ at \in {"tracking", "reporting"} /\ tracking = "polling"
       /\ polled < Len(orders) /\ polled + 1 \in DOMAIN ids
  \/ at = "crossing" /\ flags.live
  \/ at = "anchoring" /\ anchoring[Daemon] \in {"uploading", "waiting"}

(* Every other call the daemon awaits once it has decided returns or throws. *)
FairSpec == Spec /\ WF_vars(CarryOut /\ ~Untimed)

-----------------------------------------------------------------------------
CycleTypeOK ==
  /\ flags \in Starts
  /\ at \in {"idle", "deciding", "relaying", "posting", "tracking", "crossing",
            "auditing", "anchoring", "anchored", "reporting"}
  /\ cycle \in 0 .. MaxCycles
  /\ errors \in 0 .. MaxErrors
  /\ AuditTypeOK

(* The snapshot a live cycle decides on is in step with itself, whatever     *)
(* headlines and ticks it was made of (aggregator/store.ts).                *)
SnapshotInStep ==
  at = "deciding" /\ flags.live =>
    \A m \in DOMAIN snapshot.entry : InStep(snapshot.entry[m])

(* The bets of a cycle stay within the limits of the strategy, whatever the  *)
(* model answers; or they have no size at all, which only a model that does *)
(* not put its confidence in numbers can bring about, and only for a daemon *)
(* that does not sign them (qp-solver.ts, cognitive.ts).                    *)
BetsWithinBudget ==
  \/ WithinBudget(intents)
  \/ flags.llm /\ ~flags.signs /\ HaveNoSize(intents)

(* Every intent has a size.  Not so: see BetsWithinBudget.                   *)
BetsHaveSize == HaveSize(intents)

(* The bets of a cycle are on the side of its blended probability.          *)
BetsOnBelief ==
  at = "relaying" => OnItsBelief(intents, Normalized(snapshot))

(* An order is for the token of the outcome its intent bets on.  sizer.ts:13 *)
(* sizes a bet on NO as one that is equivalent to selling YES.              *)
OrderBuysOutcome ==
  \A k \in DOMAIN orders : orders[k].token = orders[k].outcome

(* Once decided, a cycle ends, whatever is refused, unanswered or reverted;  *)
(* one that does not hangs where the code waits without a limit, and        *)
(* nowhere else.  cli.ts has one cycle at a time: that one is the last.     *)
CycleEnds ==
  \/ at \notin {"idle", "deciding"} ~> at = "idle"
  \/ <>[]Untimed
=============================================================================
