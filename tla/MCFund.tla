------------------------------- MODULE MCFund -------------------------------
(***************************************************************************)
(* Small instances of the fund.  Base 2 and two fund decimals keep the      *)
(* rounding of the conversions (a token with fewer decimals, one with as    *)
(* many, one with more) while ONE is 4.                                     *)
(*                                                                         *)
(* Either anybody calls the contracts as they please and no program runs,   *)
(* or two programs use one wallet while the owner posts prices and lists.   *)
(***************************************************************************)
EXTENDS InvestorCommands, TLC

CONSTANTS alice, bob, usdc, og

MCAccounts == {alice, bob}
MCStablecoins == {usdc}
MCRuns == {1, 2}
Symmetric == Permutations(MCAccounts)

VARIABLE programs

MCInit ==
  /\ CommandInit
  /\ programs \in BOOLEAN
  /\ \A r, q \in Runs : run[r].wallet = run[q].wallet
  /\ ~programs => \A r, q \in Runs : run[r] = run[q] /\ run[r].amount = 1
                                     /\ run[r].kind = "redeem" /\ run[r].token = Native

MCNext ==
  /\ UNCHANGED programs
  /\ \/ ~programs /\ Next /\ UNCHANGED commandVars
     \/ programs /\ CommandNext

MCSpec == MCInit /\ [][MCNext]_<<vars, commandVars, programs>>
=============================================================================
