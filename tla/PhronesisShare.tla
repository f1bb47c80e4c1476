--------------------------- MODULE PhronesisShare ---------------------------
(***************************************************************************)
(* contracts/PhronesisShare.sol: the fractional share token of the fund.    *)
(* Mint and Burn are only called by the fund (onlyFund), inside its own     *)
(* transactions, so they are effects here and not actions; module           *)
(* PhronesisFund calls them.  Approve, Transfer and TransferFrom are        *)
(* transactions of their own.  A reverted transaction changes nothing and   *)
(* is simply not a step.                                                    *)
(***************************************************************************)
EXTENDS Naturals, FiniteSets, Units

CONSTANTS
  Accounts,       \* addresses that may hold shares
  Amounts,        \* amounts a caller may name in one transaction
  MaxUint,        \* type(uint256).max, the allowance that never shrinks
  ApproveAmounts  \* amounts a caller may approve

ASSUME AccountsAssumption == IsFiniteSet(Accounts)
ASSUME AmountsAssumption ==
  /\ Amounts \subseteq Nat
  /\ MaxUint \in Nat
  /\ ApproveAmounts \subseteq 0 .. MaxUint

VARIABLES
  totalSupply,
  balanceOf,      \* account |-> shares
  allowance       \* holder |-> (spender |-> shares)

shareVars == <<totalSupply, balanceOf, allowance>>

ShareTypeOK ==
  /\ totalSupply \in Nat
  /\ balanceOf \in [Accounts -> Nat]
  /\ allowance \in [Accounts -> [Accounts -> Nat]]

ShareInit ==
  /\ totalSupply = 0
  /\ balanceOf = [a \in Accounts |-> 0]
  /\ allowance = [a \in Accounts |-> [b \in Accounts |-> 0]]

-----------------------------------------------------------------------------
(* Effects of the calls the fund makes.                                     *)

Mint(to, amount) ==
  /\ totalSupply' = totalSupply + amount
  /\ balanceOf' = [balanceOf EXCEPT ![to] = @ + amount]
  /\ UNCHANGED allowance

Burn(from, amount) ==
  /\ balanceOf[from] >= amount
  /\ balanceOf' = [balanceOf EXCEPT ![from] = @ - amount]
  /\ totalSupply' = totalSupply - amount
  /\ UNCHANGED allowance

-----------------------------------------------------------------------------
(* Transactions of the holders.                                             *)

(* Fault: both balances are computed from the values before the transfer.   *)
MoveFromStaleBalances(from, to, amount) ==
  /\ balanceOf[from] >= amount
  /\ balanceOf' = [balanceOf EXCEPT ![from] = balanceOf[from] - amount,
                                   ![to] = balanceOf[to] + amount]
  /\ UNCHANGED totalSupply

(* _transfer: the sender is debited in storage before the recipient is      *)
(* credited, so a transfer to oneself credits the debited balance.          *)
Move(from, to, amount) ==
  /\ balanceOf[from] >= amount
  /\ LET debited == [balanceOf EXCEPT ![from] = @ - amount]
     IN  balanceOf' = [debited EXCEPT ![to] = @ + amount]
  /\ UNCHANGED totalSupply

Approve(holder, spender, amount) ==
  /\ allowance' = [allowance EXCEPT ![holder][spender] = amount]
  /\ UNCHANGED <<totalSupply, balanceOf>>

Transfer(holder, to, amount) ==
  /\ Move(holder, to, amount)
  /\ UNCHANGED allowance

TransferFrom(spender, from, to, amount) ==
  /\ allowance[from][spender] >= amount
  /\ allowance' = IF allowance[from][spender] = MaxUint
                  THEN allowance
                  ELSE [allowance EXCEPT ![from][spender] = @ - amount]
  /\ Move(from, to, amount)

ShareNext ==
  \/ \E holder, spender \in Accounts, amount \in ApproveAmounts :
       Approve(holder, spender, amount)
  \/ \E holder, to \in Accounts, amount \in Amounts :
       Transfer(holder, to, amount)
  \/ \E spender, from, to \in Accounts, amount \in Amounts :
       TransferFrom(spender, from, to, amount)

-----------------------------------------------------------------------------
(* Every share in circulation is in exactly one account's balance, however  *)
(* deposits, redemptions, self-transfers and delegated transfers of         *)
(* different holders interleave: totalSupply is the sum of the balances.    *)
SupplyIsTotalOfBalances == totalSupply = TotalOf(balanceOf)
=============================================================================
