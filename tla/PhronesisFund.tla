---------------------------- MODULE PhronesisFund ----------------------------
(***************************************************************************)
(* contracts/PhronesisFund.sol, the capital side: deposits and redemptions  *)
(* in the chain's native coin and in allowlisted stablecoins, the NAV the   *)
(* owner posts, and the ledger the contract keeps of what it holds.  The    *)
(* agent-token side of the same contract shares no state with it and is a   *)
(* separate component.                                                      *)
(*                                                                         *)
(* A transaction is one atomic step; one that reverts is no step at all.    *)
(* redeem's external call comes after its last state change, so whatever    *)
(* the recipient calls back is an ordinary later step here.  Allowlisted    *)
(* tokens are taken to be plain ERC-20s that move exactly the amount asked  *)
(* and call nobody back (contracts/mocks/MockStablecoin.sol).               *)
(*                                                                         *)
(* Amounts are naturals in small fixed point: the code's 1e18 is ONE =      *)
(* Base^FundDecimals and a token's 10^decimals is Base^d.                   *)
(***************************************************************************)
EXTENDS PhronesisShare

CONSTANTS
  Stablecoins,    \* ERC-20 contracts the owner may allowlist
  Decimals,       \* decimals_ values the owner may pass
  Navs,           \* NAV values the owner may post
  MaxAUM,         \* config.maxAUM
  Base,           \* 10 in the code
  FundDecimals,   \* 18 in the code
  MaxSupply,      \* bound: no deposit takes the share supply beyond it
  MaxHoldings     \* bound: no payment takes a holding of the fund beyond it

ONE == Base ^ FundDecimals

ASSUME FundAssumption ==
  /\ IsFiniteSet(Stablecoins)
  /\ Decimals \subseteq Nat
  /\ Navs \subseteq Nat
  /\ MaxAUM \in Nat /\ MaxSupply \in Nat /\ MaxHoldings \in Nat
  /\ FundDecimals \in Nat
  /\ Base \in Nat \ {0}
  /\ ONE \in Nat \ {0}
  /\ \A d \in Decimals \cup {0} :
       /\ d <= FundDecimals => Base ^ (FundDecimals - d) \in Nat \ {0}
       /\ d > FundDecimals => Base ^ (d - FundDecimals) \in Nat \ {0}

VARIABLES
  navPerShare,
  totalAssets,          \* normalised to FundDecimals
  allowedStablecoins,   \* the set of tokens whose flag is true
  stablecoinDecimals,   \* token |-> decimals recorded by the owner
  stablecoinBalances,   \* token |-> the fund's own ledger, native decimals
  nativeHeld,           \* address(this).balance
  tokensHeld            \* token |-> what the token says the fund holds

ledgerVars == <<totalAssets, stablecoinBalances, nativeHeld, tokensHeld>>
policyVars == <<navPerShare, allowedStablecoins, stablecoinDecimals>>
vars == <<shareVars, ledgerVars, policyVars>>

TypeOK ==
  /\ ShareTypeOK
  /\ navPerShare \in Nat
  /\ totalAssets \in Nat
  /\ allowedStablecoins \subseteq Stablecoins
  /\ stablecoinDecimals \in [Stablecoins -> Decimals \cup {0}]
  /\ stablecoinBalances \in [Stablecoins -> Nat]
  /\ nativeHeld \in Nat
  /\ tokensHeld \in [Stablecoins -> Nat]

Init ==
  /\ ShareInit
  /\ navPerShare = ONE
  /\ totalAssets = 0
  /\ allowedStablecoins = {}
  /\ stablecoinDecimals = [t \in Stablecoins |-> 0]
  /\ stablecoinBalances = [t \in Stablecoins |-> 0]
  /\ nativeHeld = 0
  /\ tokensHeld = [t \in Stablecoins |-> 0]

-----------------------------------------------------------------------------
(* Conversions.  Both round down.                                           *)

ToNormalized(amount, d) ==
  IF d <= FundDecimals
  THEN amount * Base ^ (FundDecimals - d)
  ELSE amount \div Base ^ (d - FundDecimals)

(* Fault: a payout in a token with fewer decimals is rounded up.            *)
FromNormalizedRoundedUp(amount, d) ==
  IF d <= FundDecimals
  THEN (amount + Base ^ (FundDecimals - d) - 1) \div Base ^ (FundDecimals - d)
  ELSE amount * Base ^ (d - FundDecimals)

FromNormalized(amount, d) ==
  IF d <= FundDecimals
  THEN amount \div Base ^ (FundDecimals - d)
  ELSE amount * Base ^ (d - FundDecimals)

(* Faults: the conversions between value and shares round up.               *)
SharesForRoundedUp(value) ==
  (value * ONE + navPerShare - 1) \div navPerShare

ValueOfRoundedUp(shares) == (shares * navPerShare + ONE - 1) \div ONE

SharesFor(value) == (value * ONE) \div navPerShare

ValueOf(shares) == (shares * navPerShare) \div ONE

-----------------------------------------------------------------------------
(* Transactions.                                                            *)

(* The checks both deposits share: division by a zero NAV reverts, the cap  *)
(* is on the normalised total, dust that buys no share is refused.          *)
Issue(investor, value) ==
  /\ totalAssets + value <= MaxAUM
  /\ navPerShare # 0
  /\ SharesFor(value) # 0
  /\ totalSupply + SharesFor(value) <= MaxSupply
  /\ totalAssets' = totalAssets + value
  /\ Mint(investor, SharesFor(value))

(* The checks both redemptions share.                                       *)
Retire(investor, shares) ==
  /\ shares # 0
  /\ ValueOf(shares) # 0
  /\ ValueOf(shares) <= totalAssets
  /\ Burn(investor, shares)
  /\ totalAssets' = totalAssets - ValueOf(shares)

Deposit(investor, value) ==
  /\ value # 0
  /\ Issue(investor, value)
  /\ nativeHeld + value <= MaxHoldings
  /\ nativeHeld' = nativeHeld + value
  /\ UNCHANGED <<stablecoinBalances, tokensHeld, policyVars>>

(* The payout is a native transfer: it fails, and the redemption with it,   *)
(* when the value of the shares is not held in the native coin.             *)
Redeem(investor, shares) ==
  /\ Retire(investor, shares)
  /\ ValueOf(shares) <= nativeHeld
  /\ nativeHeld' = nativeHeld - ValueOf(shares)
  /\ UNCHANGED <<stablecoinBalances, tokensHeld, policyVars>>

(* Fault: the token ledger is credited with the normalised amount.          *)
DepositERC20CreditsNormalized(investor, t, amount) ==
  LET value == ToNormalized(amount, stablecoinDecimals[t]) IN
  /\ t \in allowedStablecoins
  /\ amount # 0
  /\ Issue(investor, value)
  /\ stablecoinBalances' = [stablecoinBalances EXCEPT ![t] = @ + value]
  /\ tokensHeld[t] + amount <= MaxHoldings
  /\ tokensHeld' = [tokensHeld EXCEPT ![t] = @ + amount]
  /\ UNCHANGED <<nativeHeld, policyVars>>

DepositERC20(investor, t, amount) ==
  /\ t \in allowedStablecoins
  /\ amount # 0
  /\ Issue(investor, ToNormalized(amount, stablecoinDecimals[t]))
  /\ stablecoinBalances' = [stablecoinBalances EXCEPT ![t] = @ + amount]
  /\ tokensHeld[t] + amount <= MaxHoldings
  /\ tokensHeld' = [tokensHeld EXCEPT ![t] = @ + amount]
  /\ UNCHANGED <<nativeHeld, policyVars>>

RedeemERC20(investor, t, shares) ==
  LET amount == FromNormalized(ValueOf(shares), stablecoinDecimals[t]) IN
  /\ t \in allowedStablecoins
  /\ Retire(investor, shares)
  /\ amount # 0
  /\ amount <= stablecoinBalances[t]
  /\ stablecoinBalances' = [stablecoinBalances EXCEPT ![t] = @ - amount]
  /\ amount <= tokensHeld[t]
  /\ tokensHeld' = [tokensHeld EXCEPT ![t] = @ - amount]
  /\ UNCHANGED <<nativeHeld, policyVars>>

(* receive(): native coin sent without a call counts as assets, buys no     *)
(* shares and is not held to the cap.                                       *)
Receive(value) ==
  /\ nativeHeld + value <= MaxHoldings
  /\ totalAssets' = totalAssets + value
  /\ nativeHeld' = nativeHeld + value
  /\ UNCHANGED <<shareVars, stablecoinBalances, tokensHeld, policyVars>>

(* Anybody may transfer tokens to the contract's address: only the token    *)
(* knows.                                                                   *)
TokenGift(t, amount) ==
  /\ tokensHeld[t] + amount <= MaxHoldings
  /\ tokensHeld' = [tokensHeld EXCEPT ![t] = @ + amount]
  /\ UNCHANGED <<shareVars, totalAssets, stablecoinBalances, nativeHeld,
                 policyVars>>

UpdateNav(nav) ==
  /\ navPerShare' = nav
  /\ UNCHANGED <<shareVars, ledgerVars, allowedStablecoins, stablecoinDecimals>>

(* Delisting a token keeps the decimals recorded for it.                    *)
SetStablecoinAllowed(t, allowed, d) ==
  /\ IF allowed
     THEN /\ allowedStablecoins' = allowedStablecoins \cup {t}
          /\ stablecoinDecimals' = [stablecoinDecimals EXCEPT ![t] = d]
     ELSE /\ allowedStablecoins' = allowedStablecoins \ {t}
          /\ UNCHANGED stablecoinDecimals
  /\ UNCHANGED <<shareVars, ledgerVars, navPerShare>>

Investing ==
  \E a \in Accounts, n \in Amounts :
    \/ Deposit(a, n)
    \/ Redeem(a, n)
    \/ \E t \in Stablecoins : DepositERC20(a, t, n) \/ RedeemERC20(a, t, n)

Gifts ==
  \E n \in Amounts : Receive(n) \/ \E t \in Stablecoins : TokenGift(t, n)

Ownership ==
  \/ \E nav \in Navs : UpdateNav(nav)
  \/ \E t \in Stablecoins, allowed \in BOOLEAN, d \in Decimals :
       SetStablecoinAllowed(t, allowed, d)

Next ==
  \/ Investing
  \/ Gifts
  \/ Ownership
  \/ ShareNext /\ UNCHANGED <<ledgerVars, policyVars>>

Spec == Init /\ [][Next]_vars

-----------------------------------------------------------------------------
(* Properties.                                                              *)

(* redeemERC20 checks the fund's own ledger and then asks the token to pay: *)
(* the ledger never promises more of a token than the fund really holds, so *)
(* the payout cannot fail for lack of tokens.                               *)
StablecoinsHeld == \A t \in Stablecoins : stablecoinBalances[t] <= tokensHeld[t]

(* What the ledger says is held, in normalised units.                       *)
NormalizedLedger ==
  [t \in Stablecoins |->
     ToNormalized(stablecoinBalances[t], stablecoinDecimals[t])]

LedgerValue == nativeHeld + TotalOf(NormalizedLedger)

AssetsHeld == totalAssets <= LedgerValue

KeepsDecimals ==
  \A t \in Stablecoins :
    stablecoinBalances[t] # 0 => stablecoinDecimals'[t] = stablecoinDecimals[t]

(* totalAssets is one number over several holdings, each rounded on its own *)
(* way in and out.  No transaction makes it claim more than is held, except *)
(* the owner re-listing a token it holds under other decimals.              *)
AssetsStayHeld == [][AssetsHeld /\ KeepsDecimals => AssetsHeld']_vars

(* The shares in circulation, at the posted NAV, are worth no more than     *)
(* totalAssets.                                                             *)
Solvent == totalSupply * navPerShare <= totalAssets * ONE

(* Deposits and redemptions in any currency and order, transfers and gifts  *)
(* never make a solvent fund insolvent: only a NAV increase can.            *)
StaysSolvent == [][Solvent /\ navPerShare' <= navPerShare => Solvent']_vars

(* Nobody gains by depositing and redeeming at one NAV, whatever the NAV.   *)
RoundTripGainsNothing ==
  navPerShare # 0 =>
    \A value \in 0 .. MaxAUM : ValueOf(SharesFor(value)) <= value

(* The AUM cap: no transaction that issues shares leaves the fund above it, *)
(* whichever currency it is paid in.                                        *)
CapOnIssue == [][totalSupply' > totalSupply => totalAssets' <= MaxAUM]_vars
=============================================================================
