--------------------------- MODULE InvestorCommands ----------------------------
(***************************************************************************)
(* How an investor's programs use the fund: depositStablecoin and           *)
(* redeemStablecoin of the command line (fund-client.ts), and the same      *)
(* steps in the product's and the portal's pages (lib/fund-actions.ts).  A  *)
(* deposit in a token is several calls and up to two transactions; a wallet *)
(* may be used by several programs at once, each of which may stop anywhere.*)
(*                                                                         *)
(* The token (external) keeps balances and what each wallet allows the fund *)
(* to take.  A transaction sent is mined some time, whether its sender      *)
(* still waits or not; sent ones are mined in any order, which is more than *)
(* a wallet's nonces leave.                                                 *)
(***************************************************************************)
EXTENDS PhronesisFund

CONSTANTS
  Runs,
  Native,        \* the symbol of the native coin
  Endowment      \* what a wallet has of each token at first

ASSUME CommandAssumption ==
  /\ Native \notin Stablecoins
  /\ Endowment \in Nat

VARIABLES
  coins,         \* token |-> wallet |-> amount
  leave,         \* token |-> wallet |-> what the fund may take
  run,           \* what a run is asked for and how far it is
  pool,          \* transactions sent and not mined
  alone          \* runs that nothing in their wallet overlaps (history)

tokenVars == <<coins, leave>>
commandVars == <<tokenVars, run, pool, alone>>

Underway == {"listed", "allowance", "approving", "spend", "spending"}
Ended == {"ok", "reverted", "failed"}
RunsOf(pcs) == [pc : pcs, kind : {"deposit", "redeem"}, token : Stablecoins \cup {Native},
                wallet : Accounts, amount : Amounts]

CommandTypeOK ==
  /\ TypeOK
  /\ coins \in [Stablecoins -> [Accounts -> Nat]]
  /\ leave \in [Stablecoins -> [Accounts -> Nat]]
  /\ run \in [Runs -> RunsOf({"idle"} \cup Underway \cup Ended)]
  /\ pool \subseteq Runs \X {"approve", "spend"}
  /\ alone \subseteq Runs

CommandInit ==
  /\ Init
  /\ coins = [t \in Stablecoins |-> [a \in Accounts |-> Endowment]]
  /\ leave = [t \in Stablecoins |-> [a \in Accounts |-> 0]]
  /\ run \in [Runs -> RunsOf({"idle"})]
  /\ pool = {} /\ alone = {}

-----------------------------------------------------------------------------
At(r, pc) == run[r].pc = pc
Goto(r, pc) == run' = [run EXCEPT ![r].pc = pc]

(* Runs that still do something in a wallet.                                *)
Active(a) ==
  {r \in Runs : /\ run[r].wallet = a
                 /\ (run[r].pc \in Underway \/ \E what \in {"approve", "spend"} : <<r, what>> \in pool)}

(* A command or a click.  The native coin needs nobody's leave.             *)
Start(r) ==
  /\ At(r, "idle")
  /\ Goto(r, IF run[r].token = Native THEN "spend" ELSE "listed")
  /\ alone' = IF Active(run[r].wallet) = {} THEN alone \cup {r}
              ELSE alone \ Active(run[r].wallet)
  /\ UNCHANGED <<vars, tokenVars, pool>>

ReadListed(r) ==
  /\ At(r, "listed")
  /\ Goto(r, IF run[r].token \notin allowedStablecoins THEN "failed"
             ELSE IF run[r].kind = "deposit" THEN "allowance" ELSE "spend")
  /\ UNCHANGED <<vars, tokenVars, pool, alone>>

Send(r, what, pc) == pool' = pool \cup {<<r, what>>} /\ Goto(r, pc)

(* Fault: any allowance is taken to do.                                     *)
EnsureErc20AllowanceAny(r) ==
  /\ At(r, "allowance")
  /\ IF leave[run[r].token][run[r].wallet] > 0
     THEN Goto(r, "spend") /\ UNCHANGED pool
     ELSE Send(r, "approve", "approving")
  /\ UNCHANGED <<vars, tokenVars, alone>>

(* The allowance is read; one that falls short is replaced.                 *)
EnsureErc20Allowance(r) ==
  /\ At(r, "allowance")
  /\ IF leave[run[r].token][run[r].wallet] >= run[r].amount
     THEN Goto(r, "spend") /\ UNCHANGED pool
     ELSE Send(r, "approve", "approving")
  /\ UNCHANGED <<vars, tokenVars, alone>>

SendSpend(r) ==
  /\ At(r, "spend") /\ Send(r, "spend", "spending")
  /\ UNCHANGED <<vars, tokenVars, alone>>

(* Declined, a call that fails, a run that is killed, a page that is left.  *)
GivesUp(r) ==
  /\ run[r].pc \in Underway /\ Goto(r, "failed")
  /\ UNCHANGED <<vars, tokenVars, pool, alone>>

-----------------------------------------------------------------------------
(* Transactions are mined.  wait() informs the run, if it still waits.      *)

Mined(r, what) == <<r, what>> \in pool /\ pool' = pool \ {<<r, what>>}

Inform(r, waiting, pc) ==
  run' = IF At(r, waiting) THEN [run EXCEPT ![r].pc = pc] ELSE run

(* Fault: the allowance is raised by the amount.                            *)
ApprovedRaised(r) == leave[run[r].token][run[r].wallet] + run[r].amount

(* approve(spender, amount) of the token.                                   *)
Approved(r) == run[r].amount

MineApprove(r) ==
  /\ Mined(r, "approve")
  /\ leave' = [leave EXCEPT ![run[r].token][run[r].wallet] = Approved(r)]
  /\ Inform(r, "approving", "spend")
  /\ UNCHANGED <<vars, coins, alone>>

(* depositERC20 takes the amount with transferFrom.                         *)
TakeFrom(t, a, amount) ==
  /\ amount <= leave[t][a] /\ amount <= coins[t][a]
  /\ leave' = [leave EXCEPT ![t][a] = @ - amount]
  /\ coins' = [coins EXCEPT ![t][a] = @ - amount]

Payout(t, shares) == FromNormalized(ValueOf(shares), stablecoinDecimals[t])

Spend(r) ==
  LET t == run[r].token  a == run[r].wallet  n == run[r].amount
      pays == run[r].kind = "deposit"
  IN \/ t = Native /\ (IF pays THEN Deposit(a, n) ELSE Redeem(a, n)) /\ UNCHANGED tokenVars
     \/ t # Native /\ pays /\ DepositERC20(a, t, n) /\ TakeFrom(t, a, n)
     \/ /\ t # Native /\ ~pays /\ RedeemERC20(a, t, n)
        /\ coins' = [coins EXCEPT ![t][a] = @ + Payout(t, n)]
        /\ UNCHANGED leave

MineSpend(r) ==
  /\ Mined(r, "spend") /\ Spend(r)
  /\ Inform(r, "spending", "ok")
  /\ UNCHANGED alone

RevertSpend(r) ==
  /\ Mined(r, "spend") /\ ~ENABLED Spend(r)
  /\ Inform(r, "spending", "reverted")
  /\ UNCHANGED <<vars, tokenVars, alone>>

CommandStep ==
  \E r \in Runs :
    \/ Start(r) \/ ReadListed(r) \/ EnsureErc20Allowance(r) \/ SendSpend(r) \/ GivesUp(r)
    \/ MineApprove(r) \/ MineSpend(r) \/ RevertSpend(r)

CommandNext ==
  \/ CommandStep
  \/ Ownership /\ UNCHANGED commandVars

CommandSpec == CommandInit /\ [][CommandNext]_<<vars, commandVars>>

-----------------------------------------------------------------------------
(* Properties.                                                              *)

(* A wallet's standing leave to the fund is what one run asked for that has *)
(* not succeeded: however runs overlap, overwrite each other's approval or  *)
(* die between approval and deposit, leaves do not add up, and a wallet     *)
(* whose deposits all went through has left none behind.                    *)
StandingAllowance ==
  \A t \in Stablecoins, a \in Accounts :
    leave[t][a] > 0 =>
      \E r \in Runs : /\ run[r].pc \notin {"idle", "ok"} /\ run[r].kind = "deposit"
                      /\ run[r].token = t /\ run[r].wallet = a
                      /\ leave[t][a] <= run[r].amount

(* A deposit that nothing in its wallet overlaps is not refused for want of *)
(* leave, whatever approvals earlier runs have left standing.               *)
AloneIsAllowed ==
  \A r \in alone :
    At(r, "spending") /\ run[r].kind = "deposit" /\ run[r].token # Native =>
      leave[run[r].token][run[r].wallet] >= run[r].amount

(* The same for any deposit, overlapped or not.                             *)
EachIsAllowed ==
  \A r \in Runs :
    At(r, "spending") /\ run[r].kind = "deposit" /\ run[r].token # Native =>
      leave[run[r].token][run[r].wallet] >= run[r].amount
=============================================================================
