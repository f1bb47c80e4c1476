------------------------- MODULE PhronesisFund_proof -------------------------
(***************************************************************************)
(* Theorems about the fund, for every set of accounts, stablecoins, NAVs,   *)
(* decimals and amounts and every cap and bound; and about the programs     *)
(* that investors use it with, however many of them share a wallet.         *)
(***************************************************************************)
EXTENDS InvestorCommands, Integers, FiniteSetTheorems, FunctionTheorems, TLAPS

-----------------------------------------------------------------------------
(* Arithmetic.                                                              *)

(* Integer division rounds down.                                            *)
LEMMA DivFloor ==
  ASSUME NEW x \in Nat, NEW y \in Nat \ {0}
  PROVE  /\ x \div y \in Nat
         /\ (x \div y) * y <= x
         /\ x < (x \div y) * y + y
BY SMT

(* It returns the largest natural that fits.                                *)
LEMMA DivLeast ==
  ASSUME NEW x \in Nat, NEW y \in Nat \ {0}, NEW z \in Nat, x <= z * y
  PROVE  x \div y <= z
<1> DEFINE q == x \div y
<1>1. q \in Nat /\ q * y <= x
  BY DivFloor
<1> SUFFICES ASSUME q >= z + 1
             PROVE  FALSE
  BY <1>1
<1> HIDE DEF q
<1>2. q * y >= (z + 1) * y
  BY <1>1
<1> QED
  BY <1>1, <1>2

LEMMA ProductMonotone ==
  ASSUME NEW x \in Nat, NEW y \in Nat, NEW z \in Nat, x <= y
  PROVE  x * z <= y * z /\ z * x <= z * y
<1> DEFINE d == y - x
<1>1. d \in Nat /\ y = x + d
  OBVIOUS
<1> HIDE DEF d
<1>2. d * z \in Nat /\ y * z = x * z + d * z /\ z * y = z * x + d * z
  BY <1>1
<1>3. x * z \in Nat /\ z * x \in Nat
  OBVIOUS
<1> QED
  BY <1>2, <1>3

LEMMA ProductNat ==
  ASSUME NEW x \in Nat, NEW y \in Nat
  PROVE  x * y \in Nat
OBVIOUS

-----------------------------------------------------------------------------
(* The fund's conversions.                                                  *)

LEMMA OnePositive == ONE \in Nat \ {0}
BY FundAssumption

LEMMA ScaledNat ==
  ASSUME NEW d \in Decimals \cup {0}, NEW n \in Nat
  PROVE  /\ ToNormalized(n, d) \in Nat
         /\ FromNormalized(n, d) \in Nat
<1>1. CASE d <= FundDecimals
  <2> DEFINE k == Base ^ (FundDecimals - d)
  <2>1. k \in Nat \ {0}
    BY <1>1, FundAssumption
  <2> HIDE DEF k
  <2>2. n * k \in Nat /\ n \div k \in Nat
    BY <2>1, DivFloor, ProductNat
  <2> QED
    BY <1>1, <2>2 DEF ToNormalized, FromNormalized, k
<1>2. CASE ~(d <= FundDecimals)
  <2> DEFINE k == Base ^ (d - FundDecimals)
  <2>0. d > FundDecimals
    BY <1>2, FundAssumption
  <2>1. k \in Nat \ {0}
    BY <2>0, FundAssumption
  <2> HIDE DEF k
  <2>2. n * k \in Nat /\ n \div k \in Nat
    BY <2>1, DivFloor, ProductNat
  <2> QED
    BY <1>2, <2>2 DEF ToNormalized, FromNormalized, k
<1> QED
  BY <1>1, <1>2

(* The shares bought are worth no more than what they cost.                 *)
LEMMA SharesForFloor ==
  ASSUME NEW value \in Nat, navPerShare \in Nat \ {0}
  PROVE  /\ SharesFor(value) \in Nat
         /\ SharesFor(value) * navPerShare <= value * ONE
<1>1. value * ONE \in Nat
  BY OnePositive, ProductNat
<1> QED
  BY <1>1, DivFloor DEF SharesFor

(* The amount paid is worth no more than the shares burned.                 *)
LEMMA ValueOfFloor ==
  ASSUME NEW shares \in Nat, navPerShare \in Nat
  PROVE  /\ ValueOf(shares) \in Nat
         /\ ValueOf(shares) * ONE <= shares * navPerShare
<1>1. shares * navPerShare \in Nat
  BY ProductNat
<1> QED
  BY <1>1, OnePositive, DivFloor DEF ValueOf

-----------------------------------------------------------------------------
(* What the total of a ledger does when one entry changes.                  *)

LEMMA LabelsCounted ==
  ASSUME NEW x, NEW units, IsFiniteSet(units)
  PROVE  IsFiniteSet({x} \X units) /\ Cardinality({x} \X units) = Cardinality(units)
<1>1. IsFiniteSet({x}) /\ Cardinality({x}) = 1
  BY FS_Singleton
<1>2. IsFiniteSet({x} \X units) /\ Cardinality({x} \X units) = Cardinality({x}) * Cardinality(units)
  BY <1>1, FS_Product
<1>3. Cardinality(units) \in Nat
  BY FS_CardinalityType
<1> QED
  BY <1>1, <1>2, <1>3

LEMMA UpToCounted ==
  ASSUME NEW n \in Nat
  PROVE  IsFiniteSet(1 .. n) /\ Cardinality(1 .. n) = n
BY FS_Interval

(* The units of one holder number exactly its entry.                        *)
LEMMA UnitsOfHolder ==
  ASSUME NEW f, NEW x, f[x] \in Nat
  PROVE  /\ IsFiniteSet(UnitsOf(f, x))
         /\ Cardinality(UnitsOf(f, x)) = f[x]
BY LabelsCounted, UpToCounted DEF UnitsOf

(* A finite ledger has finitely many units, so its total is a natural.      *)
LEMMA UnitsFinite ==
  ASSUME NEW S, IsFiniteSet(S), NEW f \in [S -> Nat]
  PROVE  IsFiniteSet(Units(f)) /\ TotalOf(f) \in Nat
<1> DEFINE Parts == {UnitsOf(f, x) : x \in S}
<1>1. IsFiniteSet(Parts)
  <2>1. [x \in S |-> UnitsOf(f, x)] \in Surjection(S, Parts)
    BY Fun_IsSurj
  <2> QED
    BY <2>1, FS_Surjection
<1>2. \A P \in Parts : IsFiniteSet(P)
  BY UnitsOfHolder
<1>3. IsFiniteSet(UNION Parts)
  BY <1>1, <1>2, FS_UNION
<1> QED
  BY <1>3, FS_CardinalityType DEF Units, TotalOf

(* The total splits into one holder's entry and everybody else's.           *)
LEMMA TotalSplits ==
  ASSUME NEW S, IsFiniteSet(S), NEW f \in [S -> Nat], NEW a \in S
  PROVE  LET rest == UNION {UnitsOf(f, x) : x \in S \ {a}}
         IN  /\ IsFiniteSet(rest)
             /\ Cardinality(rest) \in Nat
             /\ TotalOf(f) = Cardinality(rest) + f[a]
<1> DEFINE rest == UNION {UnitsOf(f, x) : x \in S \ {a}}
<1>1. Units(f) = rest \cup UnitsOf(f, a)
  BY DEF Units
<1>2. rest \cap UnitsOf(f, a) = {}
  BY DEF UnitsOf
<1>3. IsFiniteSet(rest)
  BY <1>1, UnitsFinite, FS_Subset
<1>4. IsFiniteSet(UnitsOf(f, a)) /\ Cardinality(UnitsOf(f, a)) = f[a]
  BY UnitsOfHolder
<1>5. Cardinality(rest \cup UnitsOf(f, a)) =
        Cardinality(rest) + Cardinality(UnitsOf(f, a)) - Cardinality({})
  BY <1>2, <1>3, <1>4, FS_Union
<1>6. Cardinality({}) = 0 /\ Cardinality(rest) \in Nat
  BY <1>3, FS_EmptySet, FS_CardinalityType
<1> QED
  BY <1>1, <1>3, <1>4, <1>5, <1>6 DEF TotalOf

(* When one entry changes, the total changes by as much.                    *)
LEMMA OneEntryChanges ==
  ASSUME NEW S, IsFiniteSet(S), NEW f \in [S -> Nat], NEW g \in [S -> Nat],
         NEW a \in S, \A x \in S \ {a} : g[x] = f[x]
  PROVE  /\ TotalOf(f) \in Nat
         /\ TotalOf(g) \in Nat
         /\ TotalOf(g) = TotalOf(f) - f[a] + g[a]
<1> DEFINE restOf(h) == UNION {UnitsOf(h, x) : x \in S \ {a}}
<1>1. \A x \in S \ {a} : UnitsOf(g, x) = UnitsOf(f, x)
  BY DEF UnitsOf
<1>2. restOf(g) = restOf(f)
  <2>1. {UnitsOf(g, x) : x \in S \ {a}} = {UnitsOf(f, x) : x \in S \ {a}}
    BY <1>1
  <2> QED
    BY <2>1
<1>3. /\ Cardinality(restOf(f)) \in Nat
      /\ TotalOf(f) = Cardinality(restOf(f)) + f[a]
  BY TotalSplits
<1>4. TotalOf(g) = Cardinality(restOf(g)) + g[a]
  BY TotalSplits
<1>5. f[a] \in Nat /\ g[a] \in Nat
  OBVIOUS
<1> HIDE DEF restOf
<1> QED
  BY <1>2, <1>3, <1>4, <1>5

(* An empty ledger totals zero.                                             *)
LEMMA TotalOfEmptyLedger ==
  ASSUME NEW S
  PROVE  TotalOf([x \in S |-> 0]) = 0
<1>1. Units([x \in S |-> 0]) = {}
  BY DEF Units, UnitsOf
<1> QED
  BY <1>1, FS_EmptySet DEF TotalOf

(* One holder's entry is part of the total.                                 *)
LEMMA EntryWithinTotal ==
  ASSUME NEW S, IsFiniteSet(S), NEW f \in [S -> Nat], NEW a \in S
  PROVE  f[a] <= TotalOf(f)
<1>1. PICK k \in Nat : TotalOf(f) = k + f[a]
  BY TotalSplits
<1>2. f[a] \in Nat
  OBVIOUS
<1> QED
  BY <1>1, <1>2

-----------------------------------------------------------------------------
(* Share ledger effects: what each one does to types and to the total.      *)

ShareInv == ShareTypeOK /\ SupplyIsTotalOfBalances

LEMMA MintKeepsShareInv ==
  ASSUME ShareInv, NEW a \in Accounts, NEW n \in Nat, Mint(a, n)
  PROVE  ShareInv' /\ totalSupply' = totalSupply + n
<1>1. balanceOf \in [Accounts -> Nat] /\ balanceOf[a] \in Nat
  BY DEF ShareInv, ShareTypeOK
<1>2. /\ balanceOf' \in [Accounts -> Nat]
      /\ balanceOf'[a] = balanceOf[a] + n
      /\ \A x \in Accounts \ {a} : balanceOf'[x] = balanceOf[x]
  BY <1>1 DEF Mint
<1>3. /\ TotalOf(balanceOf) \in Nat
      /\ TotalOf(balanceOf') = TotalOf(balanceOf) - balanceOf[a] + balanceOf'[a]
  BY <1>1, <1>2, AccountsAssumption, OneEntryChanges
<1> QED
  BY <1>1, <1>2, <1>3
  DEF Mint, ShareInv, ShareTypeOK, SupplyIsTotalOfBalances

LEMMA BurnKeepsShareInv ==
  ASSUME ShareInv, NEW a \in Accounts, NEW n \in Nat, Burn(a, n)
  PROVE  ShareInv' /\ totalSupply' = totalSupply - n
<1>1. balanceOf \in [Accounts -> Nat] /\ balanceOf[a] \in Nat
  BY DEF ShareInv, ShareTypeOK
<1>2. /\ balanceOf' \in [Accounts -> Nat]
      /\ balanceOf'[a] = balanceOf[a] - n
      /\ \A x \in Accounts \ {a} : balanceOf'[x] = balanceOf[x]
  BY <1>1 DEF Burn
<1>3. /\ TotalOf(balanceOf) \in Nat
      /\ TotalOf(balanceOf') = TotalOf(balanceOf) - balanceOf[a] + balanceOf'[a]
  BY <1>1, <1>2, AccountsAssumption, OneEntryChanges
<1>4. balanceOf[a] <= TotalOf(balanceOf)
  BY <1>1, AccountsAssumption, EntryWithinTotal
<1>5. balanceOf[a] >= n
  BY DEF Burn
<1> QED
  BY <1>1, <1>2, <1>3, <1>4, <1>5
  DEF Burn, ShareInv, ShareTypeOK, SupplyIsTotalOfBalances

(* A transfer moves shares between two entries, or debits and credits the   *)
(* same one.                                                                *)
LEMMA MoveKeepsTotal ==
  ASSUME ShareInv, NEW a \in Accounts, NEW b \in Accounts, NEW n \in Nat,
         Move(a, b, n)
  PROVE  /\ balanceOf' \in [Accounts -> Nat]
         /\ totalSupply' = totalSupply
         /\ TotalOf(balanceOf') = TotalOf(balanceOf)
<1> DEFINE debited == [balanceOf EXCEPT ![a] = @ - n]
<1>1. balanceOf \in [Accounts -> Nat] /\ balanceOf[a] \in Nat
  BY DEF ShareInv, ShareTypeOK
<1>2. balanceOf[a] >= n
  BY DEF Move
<1>3. /\ debited \in [Accounts -> Nat]
      /\ debited[a] = balanceOf[a] - n
      /\ \A x \in Accounts \ {a} : debited[x] = balanceOf[x]
  BY <1>1, <1>2
<1>4. /\ balanceOf' = [debited EXCEPT ![b] = @ + n]
      /\ totalSupply' = totalSupply
  BY DEF Move
<1> HIDE DEF debited
<1>5. /\ balanceOf' \in [Accounts -> Nat]
      /\ balanceOf'[b] = debited[b] + n
      /\ \A x \in Accounts \ {b} : balanceOf'[x] = debited[x]
  BY <1>3, <1>4
<1>6. /\ TotalOf(balanceOf) \in Nat
      /\ TotalOf(debited) = TotalOf(balanceOf) - balanceOf[a] + debited[a]
  BY <1>1, <1>3, AccountsAssumption, OneEntryChanges
<1>7. TotalOf(balanceOf') = TotalOf(debited) - debited[b] + balanceOf'[b]
  BY <1>3, <1>5, AccountsAssumption, OneEntryChanges
<1>8. debited[b] \in Nat
  BY <1>3
<1> QED
  BY <1>1, <1>3, <1>4, <1>5, <1>6, <1>7, <1>8

LEMMA ShareNextKeepsShareInv ==
  ASSUME ShareInv, ShareNext
  PROVE  ShareInv' /\ totalSupply' = totalSupply
<1>1. ASSUME NEW a \in Accounts, NEW b \in Accounts, NEW n \in ApproveAmounts,
             Approve(a, b, n)
      PROVE  ShareInv' /\ totalSupply' = totalSupply
  BY <1>1, AmountsAssumption
  DEF Approve, ShareInv, ShareTypeOK, SupplyIsTotalOfBalances
<1>2. ASSUME NEW a \in Accounts, NEW b \in Accounts, NEW n \in Amounts,
             Transfer(a, b, n)
      PROVE  ShareInv' /\ totalSupply' = totalSupply
  BY <1>2, MoveKeepsTotal, AmountsAssumption
  DEF Transfer, ShareInv, ShareTypeOK, SupplyIsTotalOfBalances
<1>3. ASSUME NEW s \in Accounts, NEW a \in Accounts, NEW b \in Accounts,
             NEW n \in Amounts, TransferFrom(s, a, b, n)
      PROVE  ShareInv' /\ totalSupply' = totalSupply
  <2>1. /\ balanceOf' \in [Accounts -> Nat]
        /\ totalSupply' = totalSupply
        /\ TotalOf(balanceOf') = TotalOf(balanceOf)
    BY <1>3, MoveKeepsTotal, AmountsAssumption DEF TransferFrom
  <2>2. allowance' \in [Accounts -> [Accounts -> Nat]]
    BY <1>3, AmountsAssumption DEF TransferFrom, ShareInv, ShareTypeOK
  <2> QED
    BY <2>1, <2>2 DEF ShareInv, ShareTypeOK, SupplyIsTotalOfBalances
<1> QED
  BY <1>1, <1>2, <1>3 DEF ShareNext

-----------------------------------------------------------------------------
(* The inductive invariant.  Each part needs the types; that the ledger     *)
(* never exceeds the tokens held is inductive with them; the supply being   *)
(* the total of the balances is what keeps Burn's totalSupply a natural.    *)
FundInv == TypeOK /\ SupplyIsTotalOfBalances /\ StablecoinsHeld

LEMMA IssueKeeps ==
  ASSUME FundInv, NEW a \in Accounts, NEW value \in Nat, Issue(a, value)
  PROVE  /\ ShareInv'
         /\ totalAssets' \in Nat
         /\ totalAssets' = totalAssets + value
         /\ totalSupply' = totalSupply + SharesFor(value)
         /\ SharesFor(value) \in Nat
         /\ SharesFor(value) * navPerShare <= value * ONE
<1>1. navPerShare \in Nat \ {0}
  BY DEF FundInv, TypeOK, Issue
<1>2. SharesFor(value) \in Nat /\ SharesFor(value) * navPerShare <= value * ONE
  BY <1>1, SharesForFloor
<1>3. ShareInv /\ Mint(a, SharesFor(value))
  BY DEF FundInv, TypeOK, ShareInv, Issue
<1>4. ShareInv' /\ totalSupply' = totalSupply + SharesFor(value)
  BY <1>2, <1>3, MintKeepsShareInv
<1> QED
  BY <1>2, <1>4 DEF FundInv, TypeOK, Issue

LEMMA RetireKeeps ==
  ASSUME FundInv, NEW a \in Accounts, NEW shares \in Nat, Retire(a, shares)
  PROVE  /\ ShareInv'
         /\ totalAssets' \in Nat
         /\ totalAssets' = totalAssets - ValueOf(shares)
         /\ totalSupply' = totalSupply - shares
         /\ ValueOf(shares) \in Nat
         /\ ValueOf(shares) * ONE <= shares * navPerShare
<1>1. navPerShare \in Nat
  BY DEF FundInv, TypeOK
<1>2. ValueOf(shares) \in Nat /\ ValueOf(shares) * ONE <= shares * navPerShare
  BY <1>1, ValueOfFloor
<1>3. ShareInv /\ Burn(a, shares)
  BY DEF FundInv, TypeOK, ShareInv, Retire
<1>4. ShareInv' /\ totalSupply' = totalSupply - shares
  BY <1>3, BurnKeepsShareInv
<1> QED
  BY <1>2, <1>4 DEF FundInv, TypeOK, Retire
LEMMA DepositKeeps ==
  ASSUME FundInv, NEW a \in Accounts, NEW n \in Amounts, Deposit(a, n)
  PROVE  FundInv'
<1>1. n \in Nat /\ Issue(a, n)
  BY AmountsAssumption DEF Deposit
<1>2. ShareInv' /\ totalAssets' \in Nat
  BY <1>1, IssueKeeps
<1> QED
  BY <1>1, <1>2
  DEF Deposit, FundInv, TypeOK, ShareInv, StablecoinsHeld, policyVars

LEMMA RedeemKeeps ==
  ASSUME FundInv, NEW a \in Accounts, NEW n \in Amounts, Redeem(a, n)
  PROVE  FundInv'
<1>1. n \in Nat /\ Retire(a, n)
  BY AmountsAssumption DEF Redeem
<1>2. ShareInv' /\ totalAssets' \in Nat /\ ValueOf(n) \in Nat
  BY <1>1, RetireKeeps
<1> QED
  BY <1>1, <1>2
  DEF Redeem, FundInv, TypeOK, ShareInv, StablecoinsHeld, policyVars

LEMMA DepositERC20Keeps ==
  ASSUME FundInv, NEW a \in Accounts, NEW t \in Stablecoins, NEW n \in Amounts,
         DepositERC20(a, t, n)
  PROVE  FundInv'
<1> DEFINE value == ToNormalized(n, stablecoinDecimals[t])
<1>1. n \in Nat /\ value \in Nat /\ Issue(a, value)
  BY AmountsAssumption, ScaledNat DEF DepositERC20, FundInv, TypeOK
<1>2. ShareInv' /\ totalAssets' \in Nat
  <2> HIDE DEF value
  <2> QED
    BY <1>1, IssueKeeps
<1> QED
  BY <1>1, <1>2
  DEF DepositERC20, FundInv, TypeOK, ShareInv, StablecoinsHeld, policyVars

LEMMA RedeemERC20Keeps ==
  ASSUME FundInv, NEW a \in Accounts, NEW t \in Stablecoins, NEW n \in Amounts,
         RedeemERC20(a, t, n)
  PROVE  FundInv'
<1> DEFINE amount == FromNormalized(ValueOf(n), stablecoinDecimals[t])
<1>1. n \in Nat /\ Retire(a, n)
  BY AmountsAssumption DEF RedeemERC20
<1>2. ShareInv' /\ totalAssets' \in Nat /\ ValueOf(n) \in Nat
  BY <1>1, RetireKeeps
<1>3. amount \in Nat
  BY <1>2, ScaledNat DEF FundInv, TypeOK
<1>4. /\ amount <= stablecoinBalances[t] /\ amount <= tokensHeld[t]
      /\ stablecoinBalances' = [stablecoinBalances EXCEPT ![t] = @ - amount]
      /\ tokensHeld' = [tokensHeld EXCEPT ![t] = @ - amount]
      /\ UNCHANGED <<nativeHeld, policyVars>>
  BY DEF RedeemERC20
<1> HIDE DEF amount
<1> QED
  BY <1>2, <1>3, <1>4
  DEF FundInv, TypeOK, ShareInv, StablecoinsHeld, policyVars

LEMMA NextKeepsFundInv == FundInv /\ [Next]_vars => FundInv'
<1> SUFFICES ASSUME FundInv, [Next]_vars
             PROVE  FundInv'
  OBVIOUS
<1>1. CASE Investing
  BY <1>1, DepositKeeps, RedeemKeeps, DepositERC20Keeps, RedeemERC20Keeps
  DEF Investing
<1>2. CASE Gifts
  <2>1. ASSUME NEW n \in Amounts, Receive(n)
        PROVE  FundInv'
    BY <2>1, AmountsAssumption
    DEF Receive, FundInv, TypeOK, ShareTypeOK, SupplyIsTotalOfBalances,
        StablecoinsHeld, shareVars, policyVars
  <2>2. ASSUME NEW n \in Amounts, NEW t \in Stablecoins, TokenGift(t, n)
        PROVE  FundInv'
    BY <2>2, AmountsAssumption
    DEF TokenGift, FundInv, TypeOK, ShareTypeOK, SupplyIsTotalOfBalances,
        StablecoinsHeld, shareVars, policyVars
  <2> QED
    BY <1>2, <2>1, <2>2 DEF Gifts
<1>3. CASE Ownership
  <2>1. ASSUME NEW nav \in Navs, UpdateNav(nav)
        PROVE  FundInv'
    BY <2>1, FundAssumption
    DEF UpdateNav, FundInv, TypeOK, ShareTypeOK, SupplyIsTotalOfBalances,
        StablecoinsHeld, shareVars, ledgerVars
  <2>2. ASSUME NEW t \in Stablecoins, NEW allowed \in BOOLEAN,
               NEW d \in Decimals, SetStablecoinAllowed(t, allowed, d)
        PROVE  FundInv'
    BY <2>2
    DEF SetStablecoinAllowed, FundInv, TypeOK, ShareTypeOK,
        SupplyIsTotalOfBalances, StablecoinsHeld, shareVars, ledgerVars
  <2> QED
    BY <1>3, <2>1, <2>2 DEF Ownership
<1>4. CASE ShareNext /\ UNCHANGED <<ledgerVars, policyVars>>
  BY <1>4, ShareNextKeepsShareInv
  DEF FundInv, TypeOK, ShareInv, StablecoinsHeld, ledgerVars, policyVars
<1>5. CASE UNCHANGED vars
  BY <1>5
  DEF FundInv, TypeOK, ShareTypeOK, SupplyIsTotalOfBalances, StablecoinsHeld,
      vars, shareVars, ledgerVars, policyVars
<1> QED
  BY <1>1, <1>2, <1>3, <1>4, <1>5 DEF Next

LEMMA InitFundInv == Init => FundInv
<1> SUFFICES ASSUME Init
             PROVE  FundInv
  OBVIOUS
<1>1. TotalOf(balanceOf) = 0
  BY TotalOfEmptyLedger DEF Init, ShareInit
<1>2. TypeOK
  BY OnePositive DEF Init, ShareInit, TypeOK, ShareTypeOK
<1> QED
  BY <1>1, <1>2
  DEF Init, ShareInit, FundInv, SupplyIsTotalOfBalances, StablecoinsHeld

LEMMA FundInvariant == Spec => []FundInv
BY InitFundInv, NextKeepsFundInv, PTL DEF Spec

(* contracts/PhronesisFund.sol, contracts/PhronesisShare.sol: every         *)
(* reachable state is well typed; no balance, supply or ledger underflows.  *)
THEOREM FundTypeOK == Spec => []TypeOK
BY FundInvariant, PTL DEF FundInv

(* Shares are conserved: whatever the holders and the fund do, the supply   *)
(* is the sum of the balances.                                              *)
THEOREM FundSupplyConserved == Spec => []SupplyIsTotalOfBalances
BY FundInvariant, PTL DEF FundInv

(* An ERC-20 redemption that passes the fund's liquidity check never lacks  *)
(* the tokens to pay.                                                       *)
THEOREM FundStablecoinsHeld == Spec => []StablecoinsHeld
BY FundInvariant, PTL DEF FundInv
-----------------------------------------------------------------------------
(* Solvency.                                                                *)

(* Shares bought at the posted NAV cost at least their worth.               *)
LEMMA IssueKeepsSolvent ==
  ASSUME FundInv, Solvent, NEW a \in Accounts, NEW value \in Nat,
         Issue(a, value), navPerShare' = navPerShare
  PROVE  Solvent'
<1> DEFINE m == SharesFor(value)
<1>1. /\ m \in Nat
      /\ m * navPerShare <= value * ONE
      /\ totalSupply' = totalSupply + m
      /\ totalAssets' = totalAssets + value
  BY IssueKeeps
<1>2. /\ totalSupply \in Nat /\ totalAssets \in Nat /\ navPerShare \in Nat
      /\ ONE \in Nat
  BY OnePositive DEF FundInv, TypeOK, ShareTypeOK
<1>3. totalSupply * navPerShare <= totalAssets * ONE
  BY DEF Solvent
<1> HIDE DEF m
<1>4. /\ (totalSupply + m) * navPerShare
           = totalSupply * navPerShare + m * navPerShare
      /\ (totalAssets + value) * ONE = totalAssets * ONE + value * ONE
  BY <1>1, <1>2
<1>5. (totalSupply + m) * navPerShare <= (totalAssets + value) * ONE
  BY <1>1, <1>2, <1>3, <1>4
<1> QED
  BY <1>1, <1>5 DEF Solvent

(* The amount paid for shares is at most their worth.                       *)
LEMMA RetireKeepsSolvent ==
  ASSUME FundInv, Solvent, NEW a \in Accounts, NEW shares \in Nat,
         Retire(a, shares), navPerShare' = navPerShare
  PROVE  Solvent'
<1> DEFINE v == ValueOf(shares)
<1>1. /\ v \in Nat
      /\ v * ONE <= shares * navPerShare
      /\ totalSupply' = totalSupply - shares
      /\ totalAssets' = totalAssets - v
  BY RetireKeeps
<1>2. /\ totalSupply \in Nat /\ totalAssets \in Nat /\ navPerShare \in Nat
      /\ ONE \in Nat
  BY OnePositive DEF FundInv, TypeOK, ShareTypeOK
<1>3. totalSupply * navPerShare <= totalAssets * ONE
  BY DEF Solvent
<1> HIDE DEF v
<1>4. /\ (totalSupply - shares) * navPerShare
           = totalSupply * navPerShare - shares * navPerShare
      /\ (totalAssets - v) * ONE = totalAssets * ONE - v * ONE
  BY <1>1, <1>2
<1>5. (totalSupply - shares) * navPerShare <= (totalAssets - v) * ONE
  BY <1>1, <1>2, <1>3, <1>4
<1> QED
  BY <1>1, <1>5 DEF Solvent

(* Fewer assets are needed at a lower NAV, and more assets are no harm.     *)
LEMMA SolventMonotone ==
  ASSUME FundInv, FundInv', Solvent,
         totalSupply' = totalSupply, navPerShare' <= navPerShare,
         totalAssets' >= totalAssets
  PROVE  Solvent'
<1>1. /\ totalSupply \in Nat /\ totalAssets \in Nat /\ navPerShare \in Nat
      /\ navPerShare' \in Nat /\ totalAssets' \in Nat /\ ONE \in Nat
  BY OnePositive DEF FundInv, TypeOK, ShareTypeOK
<1>2. totalSupply * navPerShare' <= totalSupply * navPerShare
  BY <1>1, ProductMonotone
<1>3. totalAssets * ONE <= totalAssets' * ONE
  BY <1>1, ProductMonotone
<1>4. totalSupply * navPerShare <= totalAssets * ONE
  BY DEF Solvent
<1>5. /\ totalSupply * navPerShare' \in Nat /\ totalSupply * navPerShare \in Nat
      /\ totalAssets * ONE \in Nat /\ totalAssets' * ONE \in Nat
  BY <1>1, ProductNat
<1>6. totalSupply * navPerShare' <= totalAssets' * ONE
  BY <1>2, <1>3, <1>4, <1>5
<1> QED
  BY <1>6 DEF Solvent

LEMMA StepStaysSolvent ==
  ASSUME FundInv, Next, Solvent, navPerShare' <= navPerShare
  PROVE  Solvent'
<1>0. FundInv'
  BY NextKeepsFundInv
<1>1. ASSUME NEW a \in Accounts, NEW n \in Amounts,
             Deposit(a, n) \/ Redeem(a, n)
      PROVE  Solvent'
  <2>1. n \in Nat /\ navPerShare' = navPerShare
    BY <1>1, AmountsAssumption DEF Deposit, Redeem, policyVars
  <2>2. Issue(a, n) \/ Retire(a, n)
    BY <1>1 DEF Deposit, Redeem
  <2> QED
    BY <2>1, <2>2, IssueKeepsSolvent, RetireKeepsSolvent
<1>2. ASSUME NEW a \in Accounts, NEW t \in Stablecoins, NEW n \in Amounts,
             DepositERC20(a, t, n) \/ RedeemERC20(a, t, n)
      PROVE  Solvent'
  <2> DEFINE value == ToNormalized(n, stablecoinDecimals[t])
  <2>1. n \in Nat /\ value \in Nat /\ navPerShare' = navPerShare
    BY <1>2, AmountsAssumption, ScaledNat
    DEF DepositERC20, RedeemERC20, policyVars, FundInv, TypeOK
  <2>2. Issue(a, value) \/ Retire(a, n)
    BY <1>2 DEF DepositERC20, RedeemERC20
  <2> HIDE DEF value
  <2> QED
    BY <2>1, <2>2, IssueKeepsSolvent, RetireKeepsSolvent
<1>3. CASE Gifts
  <2>1. totalSupply' = totalSupply /\ totalAssets' >= totalAssets
    BY <1>3, AmountsAssumption
    DEF Gifts, Receive, TokenGift, shareVars, FundInv, TypeOK
  <2> QED
    BY <1>0, <2>1, SolventMonotone
<1>4. CASE Ownership
  <2>1. totalSupply' = totalSupply /\ totalAssets' = totalAssets
    BY <1>4
    DEF Ownership, UpdateNav, SetStablecoinAllowed, shareVars, ledgerVars
  <2>2. totalAssets' >= totalAssets
    BY <2>1 DEF FundInv, TypeOK
  <2> QED
    BY <1>0, <2>1, <2>2, SolventMonotone
<1>5. CASE ShareNext /\ UNCHANGED <<ledgerVars, policyVars>>
  <2>1. totalSupply' = totalSupply
    BY <1>5, ShareNextKeepsShareInv DEF FundInv, TypeOK, ShareInv
  <2>2. totalAssets' >= totalAssets
    BY <1>5 DEF FundInv, TypeOK, ledgerVars
  <2> QED
    BY <1>0, <2>1, <2>2, SolventMonotone
<1> QED
  BY <1>1, <1>2, <1>3, <1>4, <1>5 DEF Next, Investing

(* No deposit, redemption, transfer, payment or listing decision turns a    *)
(* solvent fund insolvent: only the owner raising the NAV can.              *)
THEOREM FundStaysSolvent == Spec => StaysSolvent
<1>1. FundInv /\ [Next]_vars =>
        [Solvent /\ navPerShare' <= navPerShare => Solvent']_vars
  BY StepStaysSolvent
<1> QED
  BY <1>1, FundInvariant, PTL DEF Spec, StaysSolvent

(* Whatever the NAV, redeeming what a deposit bought returns at most the    *)
(* deposit.                                                                 *)
THEOREM FundRoundTrip == Spec => []RoundTripGainsNothing
<1>1. FundInv => RoundTripGainsNothing
  <2> SUFFICES ASSUME FundInv, navPerShare # 0, NEW value \in 0 .. MaxAUM
               PROVE  ValueOf(SharesFor(value)) <= value
    BY DEF RoundTripGainsNothing
  <2> DEFINE m == SharesFor(value)
  <2>1. navPerShare \in Nat \ {0} /\ value \in Nat
    BY FundAssumption DEF FundInv, TypeOK
  <2>2. m \in Nat /\ m * navPerShare <= value * ONE
    BY <2>1, SharesForFloor
  <2> HIDE DEF m
  <2>3. m * navPerShare \in Nat
    BY <2>1, <2>2, ProductNat
  <2>4. (m * navPerShare) \div ONE <= value
    BY <2>1, <2>2, <2>3, OnePositive, DivLeast
  <2> QED
    BY <2>4 DEF ValueOf, m
<1> QED
  BY <1>1, FundInvariant, PTL
-----------------------------------------------------------------------------
(* The assets claimed and the holdings recorded.                            *)

(* The fund rounds each deposit down on its own, so the normalised ledger   *)
(* grows by at least what the deposit was credited with.                    *)
LEMMA NormalizedDeposit ==
  ASSUME NEW d \in Decimals \cup {0}, NEW b \in Nat, NEW n \in Nat
  PROVE  ToNormalized(b + n, d) >= ToNormalized(b, d) + ToNormalized(n, d)
<1>1. CASE d <= FundDecimals
  <2> DEFINE k == Base ^ (FundDecimals - d)
  <2>1. k \in Nat \ {0}
    BY <1>1, FundAssumption
  <2> HIDE DEF k
  <2>2. (b + n) * k = b * k + n * k /\ b * k \in Nat /\ n * k \in Nat
    BY <2>1
  <2> QED
    BY <1>1, <2>2 DEF ToNormalized, k
<1>2. CASE ~(d <= FundDecimals)
  <2> DEFINE k == Base ^ (d - FundDecimals)
             qb == b \div k
             qn == n \div k
             q == (b + n) \div k
  <2>0. d > FundDecimals
    BY <1>2, FundAssumption
  <2>1. k \in Nat \ {0}
    BY <2>0, FundAssumption
  <2> HIDE DEF k
  <2>2. /\ qb \in Nat /\ qb * k <= b
        /\ qn \in Nat /\ qn * k <= n
        /\ q \in Nat /\ b + n < q * k + k
    BY <2>1, DivFloor
  <2> HIDE DEF qb, qn, q
  <2>3. (qb + qn) * k = qb * k + qn * k /\ (q + 1) * k = q * k + k
    BY <2>1, <2>2
  <2>4. qb * k \in Nat /\ qn * k \in Nat /\ q * k \in Nat
    BY <2>1, <2>2, ProductNat
  <2>5. (qb + qn) * k < (q + 1) * k
    BY <2>1, <2>2, <2>3, <2>4
  <2>6. q >= qb + qn
    <3> SUFFICES ASSUME q + 1 <= qb + qn
                 PROVE  FALSE
      BY <2>2
    <3>1. (q + 1) * k <= (qb + qn) * k
      BY <2>1, <2>2, ProductMonotone
    <3> QED
      BY <2>3, <2>4, <2>5, <3>1, <2>1
  <2> QED
    BY <1>2, <2>6 DEF ToNormalized, qb, qn, q, k
<1> QED
  BY <1>1, <1>2

(* It rounds each payout down as well: the normalised ledger falls by at    *)
(* most the value redeemed.                                                 *)
LEMMA NormalizedPayout ==
  ASSUME NEW d \in Decimals \cup {0}, NEW b \in Nat, NEW v \in Nat,
         FromNormalized(v, d) <= b
  PROVE  ToNormalized(b - FromNormalized(v, d), d) >= ToNormalized(b, d) - v
<1>1. CASE d <= FundDecimals
  <2> DEFINE k == Base ^ (FundDecimals - d)
             q == v \div k
  <2>1. k \in Nat \ {0}
    BY <1>1, FundAssumption
  <2>2. FromNormalized(v, d) = q
    BY <1>1 DEF FromNormalized
  <2> HIDE DEF k
  <2>3. q \in Nat /\ q * k <= v
    BY <2>1, DivFloor
  <2> HIDE DEF q
  <2>4. (b - q) * k = b * k - q * k /\ b * k \in Nat /\ q * k \in Nat
    BY <2>1, <2>3
  <2>5. (b - q) * k >= b * k - v
    BY <2>3, <2>4
  <2> QED
    BY <1>1, <2>2, <2>5 DEF ToNormalized, k
<1>2. CASE ~(d <= FundDecimals)
  <2> DEFINE k == Base ^ (d - FundDecimals)
             qb == b \div k
             q == (b - v * k) \div k
  <2>0. d > FundDecimals
    BY <1>2, FundAssumption
  <2>1. k \in Nat \ {0}
    BY <2>0, FundAssumption
  <2>2. FromNormalized(v, d) = v * k
    BY <1>2 DEF FromNormalized
  <2> HIDE DEF k
  <2>3. v * k \in Nat /\ b - v * k \in Nat
    BY <2>1, <2>2, ProductNat
  <2>4. qb \in Nat /\ qb * k <= b /\ q \in Nat /\ b - v * k < q * k + k
    BY <2>1, <2>3, DivFloor
  <2> HIDE DEF qb, q
  <2>5. (q + v + 1) * k = q * k + v * k + k
    BY <2>1, <2>4
  <2>6. qb * k \in Nat /\ q * k \in Nat
    BY <2>1, <2>4, ProductNat
  <2>7. qb * k < (q + v + 1) * k
    BY <2>1, <2>3, <2>4, <2>5, <2>6
  <2>8. q >= qb - v
    <3> SUFFICES ASSUME q + v + 1 <= qb
                 PROVE  FALSE
      BY <2>4
    <3>1. (q + v + 1) * k <= qb * k
      BY <2>1, <2>4, ProductMonotone
    <3> QED
      BY <2>1, <2>3, <2>5, <2>6, <2>7, <3>1
  <2> QED
    BY <1>2, <2>2, <2>8 DEF ToNormalized, qb, q, k
<1> QED
  BY <1>1, <1>2

LEMMA NormalizedLedgerType ==
  ASSUME FundInv
  PROVE  /\ NormalizedLedger \in [Stablecoins -> Nat]
         /\ TotalOf(NormalizedLedger) \in Nat
<1>1. \A t \in Stablecoins :
        ToNormalized(stablecoinBalances[t], stablecoinDecimals[t]) \in Nat
  BY ScaledNat DEF FundInv, TypeOK
<1>2. NormalizedLedger \in [Stablecoins -> Nat]
  BY <1>1 DEF NormalizedLedger
<1> QED
  BY <1>2, FundAssumption, UnitsFinite

(* The ledger's total after the entry of one token changed.                 *)
LEMMA OneTokenChanges ==
  ASSUME FundInv, FundInv', NEW t \in Stablecoins,
         UNCHANGED stablecoinDecimals,
         \A x \in Stablecoins \ {t} :
           stablecoinBalances'[x] = stablecoinBalances[x]
  PROVE  TotalOf(NormalizedLedger)' =
           TotalOf(NormalizedLedger)
             - ToNormalized(stablecoinBalances[t], stablecoinDecimals[t])
             + ToNormalized(stablecoinBalances'[t], stablecoinDecimals[t])
<1>1. NormalizedLedger \in [Stablecoins -> Nat]
  BY NormalizedLedgerType
<1>2. NormalizedLedger' \in [Stablecoins -> Nat]
  <2>1. \A x \in Stablecoins :
          ToNormalized(stablecoinBalances'[x], stablecoinDecimals[x]) \in Nat
    BY ScaledNat DEF FundInv, TypeOK
  <2> QED
    BY <2>1 DEF NormalizedLedger
<1>3. \A x \in Stablecoins \ {t} : NormalizedLedger'[x] = NormalizedLedger[x]
  BY DEF NormalizedLedger
<1>4. /\ NormalizedLedger[t] =
           ToNormalized(stablecoinBalances[t], stablecoinDecimals[t])
      /\ NormalizedLedger'[t] =
           ToNormalized(stablecoinBalances'[t], stablecoinDecimals[t])
  BY DEF NormalizedLedger
<1>5. TotalOf(NormalizedLedger') =
        TotalOf(NormalizedLedger) - NormalizedLedger[t] + NormalizedLedger'[t]
  BY <1>1, <1>2, <1>3, FundAssumption, OneEntryChanges
<1> QED
  BY <1>4, <1>5

LEMMA BackedAfter ==
  ASSUME NEW assets \in Nat, NEW native \in Nat, NEW total \in Nat,
         NEW assetsNew \in Nat, NEW nativeNew \in Nat,
         assets <= native + total, assetsNew - assets = nativeNew - native
  PROVE  assetsNew <= nativeNew + total
OBVIOUS

(* A step that leaves the normalised ledger alone.                          *)
LEMMA SameLedger ==
  ASSUME FundInv, FundInv', AssetsHeld, NormalizedLedger' = NormalizedLedger,
         totalAssets' - totalAssets = nativeHeld' - nativeHeld
  PROVE  AssetsHeld'
<1>1. TotalOf(NormalizedLedger)' = TotalOf(NormalizedLedger)
  OBVIOUS
<1>2. /\ totalAssets \in Nat /\ nativeHeld \in Nat
      /\ totalAssets' \in Nat /\ nativeHeld' \in Nat
  BY DEF FundInv, TypeOK
<1>3. TotalOf(NormalizedLedger) \in Nat
  BY NormalizedLedgerType
<1>4. totalAssets <= nativeHeld + TotalOf(NormalizedLedger)
  BY DEF AssetsHeld, LedgerValue
<1>5. totalAssets' <= nativeHeld' + TotalOf(NormalizedLedger)
  BY <1>2, <1>3, <1>4, BackedAfter
<1> QED
  BY <1>1, <1>5 DEF AssetsHeld, LedgerValue

LEMMA DepositERC20KeepsAssetsHeld ==
  ASSUME FundInv, AssetsHeld, NEW a \in Accounts, NEW t \in Stablecoins,
         NEW n \in Amounts, DepositERC20(a, t, n)
  PROVE  AssetsHeld'
<1> DEFINE d == stablecoinDecimals[t]
           b == stablecoinBalances[t]
           before == ToNormalized(b, d)
           after == ToNormalized(b + n, d)
           value == ToNormalized(n, d)
           total == TotalOf(NormalizedLedger)
<1>1. /\ n \in Nat /\ b \in Nat /\ d \in Decimals \cup {0}
      /\ nativeHeld \in Nat /\ totalAssets \in Nat
  BY AmountsAssumption DEF FundInv, TypeOK
<1>2. /\ totalAssets' = totalAssets + value
      /\ nativeHeld' = nativeHeld
      /\ UNCHANGED stablecoinDecimals
      /\ stablecoinBalances'[t] = b + n
      /\ \A x \in Stablecoins \ {t} :
           stablecoinBalances'[x] = stablecoinBalances[x]
  BY <1>1 DEF DepositERC20, Issue, policyVars, FundInv, TypeOK
<1>3. TotalOf(NormalizedLedger)' = total - before + after
  BY <1>2, DepositERC20Keeps, OneTokenChanges
<1>4. before \in Nat /\ after \in Nat /\ value \in Nat
  <2> HIDE DEF b, d
  <2>1. b + n \in Nat
    BY <1>1
  <2> QED
    BY <1>1, <2>1, ScaledNat
<1>5. after >= before + value
  <2> HIDE DEF d, b
  <2> QED
    BY <1>1, NormalizedDeposit
<1>6. total \in Nat /\ totalAssets <= nativeHeld + total
  BY NormalizedLedgerType DEF AssetsHeld, LedgerValue
<1> HIDE DEF before, after, value, total
<1>7. totalAssets + value <= nativeHeld + (total - before + after)
  BY <1>1, <1>4, <1>5, <1>6
<1> QED
  BY <1>2, <1>3, <1>7 DEF AssetsHeld, LedgerValue

LEMMA RedeemERC20KeepsAssetsHeld ==
  ASSUME FundInv, AssetsHeld, NEW a \in Accounts, NEW t \in Stablecoins,
         NEW n \in Amounts, RedeemERC20(a, t, n)
  PROVE  AssetsHeld'
<1> DEFINE d == stablecoinDecimals[t]
           b == stablecoinBalances[t]
           v == ValueOf(n)
           paid == FromNormalized(v, d)
           before == ToNormalized(b, d)
           after == ToNormalized(b - paid, d)
           total == TotalOf(NormalizedLedger)
<1>1. /\ n \in Nat /\ b \in Nat /\ d \in Decimals \cup {0}
      /\ nativeHeld \in Nat /\ totalAssets \in Nat
  BY AmountsAssumption DEF FundInv, TypeOK
<1>2. v \in Nat /\ Retire(a, n)
  BY <1>1, RetireKeeps DEF RedeemERC20
<1>3. paid \in Nat /\ paid <= b /\ b - paid \in Nat
  <2>1. paid \in Nat
    <3> HIDE DEF v, d
    <3> QED
      BY <1>1, <1>2, ScaledNat
  <2>2. paid <= b
    BY DEF RedeemERC20
  <2> HIDE DEF paid, b
  <2> QED
    BY <1>1, <2>1, <2>2
<1>4. /\ totalAssets' = totalAssets - v
      /\ nativeHeld' = nativeHeld
      /\ UNCHANGED stablecoinDecimals
      /\ stablecoinBalances'[t] = b - paid
      /\ \A x \in Stablecoins \ {t} :
           stablecoinBalances'[x] = stablecoinBalances[x]
  BY <1>1 DEF RedeemERC20, Retire, policyVars, FundInv, TypeOK
<1>5. TotalOf(NormalizedLedger)' = total - before + after
  BY <1>4, RedeemERC20Keeps, OneTokenChanges
<1>6. before \in Nat /\ after \in Nat
  <2> HIDE DEF b, d, paid
  <2> QED
    BY <1>1, <1>3, ScaledNat
<1>7. after >= before - v
  <2> HIDE DEF d, b, v
  <2> QED
    BY <1>1, <1>2, <1>3, NormalizedPayout
<1>8. total \in Nat /\ totalAssets <= nativeHeld + total
  BY NormalizedLedgerType DEF AssetsHeld, LedgerValue
<1> HIDE DEF before, after, v, total
<1>9. totalAssets - v <= nativeHeld + (total - before + after)
  BY <1>1, <1>2, <1>6, <1>7, <1>8
<1> QED
  BY <1>4, <1>5, <1>9 DEF AssetsHeld, LedgerValue

(* Listing a token again can revalue what is held of it; under KeepsDecimals *)
(* it does not.                                                             *)
LEMMA ListingKeepsLedger ==
  ASSUME FundInv, KeepsDecimals, UNCHANGED stablecoinBalances,
         NEW t \in Stablecoins, NEW allowed \in BOOLEAN, NEW d \in Decimals,
         SetStablecoinAllowed(t, allowed, d)
  PROVE  NormalizedLedger' = NormalizedLedger
<1>1. \A x \in Decimals \cup {0} : ToNormalized(0, x) = 0
  <2> TAKE x \in Decimals \cup {0}
  <2>1. CASE x <= FundDecimals
    <3>1. Base ^ (FundDecimals - x) \in Nat
      BY <2>1, FundAssumption
    <3> QED
      BY <2>1, <3>1 DEF ToNormalized
  <2>2. CASE ~(x <= FundDecimals)
    <3>0. x > FundDecimals
      BY <2>2, FundAssumption
    <3>1. Base ^ (x - FundDecimals) \in Nat \ {0}
      BY <3>0, FundAssumption
    <3>2. 0 \div (Base ^ (x - FundDecimals)) = 0
      BY <3>1
    <3> QED
      BY <2>2, <3>2 DEF ToNormalized
  <2> QED
    BY <2>1, <2>2
<1>2. \A x \in Stablecoins : stablecoinDecimals'[x] \in Decimals \cup {0}
  BY DEF SetStablecoinAllowed, FundInv, TypeOK
<1>3. \A x \in Stablecoins :
        ToNormalized(stablecoinBalances[x], stablecoinDecimals'[x]) =
          ToNormalized(stablecoinBalances[x], stablecoinDecimals[x])
  <2> TAKE x \in Stablecoins
  <2>1. CASE stablecoinBalances[x] # 0
    BY <2>1 DEF KeepsDecimals
  <2>2. CASE stablecoinBalances[x] = 0
    BY <2>2, <1>1, <1>2 DEF FundInv, TypeOK
  <2> QED
    BY <2>1, <2>2
<1> QED
  BY <1>3 DEF NormalizedLedger

LEMMA StepKeepsAssetsHeld ==
  ASSUME FundInv, Next, AssetsHeld, KeepsDecimals
  PROVE  AssetsHeld'
<1>0. /\ FundInv'
      /\ nativeHeld' \in Nat /\ totalAssets' \in Nat
      /\ nativeHeld \in Nat /\ totalAssets \in Nat
  BY NextKeepsFundInv DEF FundInv, TypeOK
<1>1. ASSUME NEW a \in Accounts, NEW n \in Amounts,
             Deposit(a, n) \/ Redeem(a, n)
      PROVE  AssetsHeld'
  <2>1. NormalizedLedger' = NormalizedLedger
    BY <1>1 DEF Deposit, Redeem, policyVars, NormalizedLedger
  <2>2. n \in Nat /\ ValueOf(n) \in Nat
    BY AmountsAssumption, ValueOfFloor DEF FundInv, TypeOK
  <2>3. totalAssets' - totalAssets = nativeHeld' - nativeHeld
    BY <1>0, <1>1, <2>2 DEF Deposit, Redeem, Issue, Retire
  <2> QED
    BY <1>0, <2>1, <2>3, SameLedger
<1>2. ASSUME NEW a \in Accounts, NEW t \in Stablecoins, NEW n \in Amounts,
             DepositERC20(a, t, n) \/ RedeemERC20(a, t, n)
      PROVE  AssetsHeld'
  BY <1>2, DepositERC20KeepsAssetsHeld, RedeemERC20KeepsAssetsHeld
<1>3. CASE Gifts
  <2>1. NormalizedLedger' = NormalizedLedger
    BY <1>3 DEF Gifts, Receive, TokenGift, policyVars, NormalizedLedger
  <2>2. totalAssets' - totalAssets = nativeHeld' - nativeHeld
    BY <1>0, <1>3, AmountsAssumption DEF Gifts, Receive, TokenGift
  <2> QED
    BY <1>0, <2>1, <2>2, SameLedger
<1>4. CASE Ownership
  <2>1. UNCHANGED <<stablecoinBalances, nativeHeld, totalAssets>>
    BY <1>4 DEF Ownership, UpdateNav, SetStablecoinAllowed, ledgerVars
  <2>2. NormalizedLedger' = NormalizedLedger
    <3>1. CASE \E nav \in Navs : UpdateNav(nav)
      BY <3>1 DEF UpdateNav, ledgerVars, NormalizedLedger
    <3>2. CASE \E t \in Stablecoins, allowed \in BOOLEAN, d \in Decimals :
                 SetStablecoinAllowed(t, allowed, d)
      BY <2>1, <3>2, ListingKeepsLedger
    <3> QED
      BY <1>4, <3>1, <3>2 DEF Ownership
  <2> QED
    BY <1>0, <2>1, <2>2, SameLedger
<1>5. CASE ShareNext /\ UNCHANGED <<ledgerVars, policyVars>>
  <2>1. NormalizedLedger' = NormalizedLedger
    BY <1>5 DEF ledgerVars, policyVars, NormalizedLedger
  <2> QED
    BY <1>0, <1>5, <2>1, SameLedger DEF ledgerVars
<1> QED
  BY <1>1, <1>2, <1>3, <1>4, <1>5 DEF Next, Investing

(* totalAssets is backed: as long as the owner does not re-list a token the *)
(* fund holds under other decimals, no rounding of a deposit or a payout,   *)
(* in any currency, makes the fund claim more than its ledger records.      *)
THEOREM FundAssetsStayHeld == Spec => AssetsStayHeld
<1>1. FundInv /\ [Next]_vars => [AssetsHeld /\ KeepsDecimals => AssetsHeld']_vars
  BY StepKeepsAssetsHeld
<1> QED
  BY <1>1, FundInvariant, PTL DEF Spec, AssetsStayHeld

(* No deposit leaves the fund above the AUM cap.                            *)
THEOREM FundCapOnIssue == Spec => CapOnIssue
<1>1. ASSUME FundInv, Next, totalSupply' > totalSupply
      PROVE  totalAssets' <= MaxAUM
  <2>1. ASSUME NEW a \in Accounts, NEW v, Issue(a, v)
        PROVE  totalAssets' <= MaxAUM
    BY <2>1 DEF Issue
  <2>2. ASSUME NEW a \in Accounts, NEW n \in Amounts, Retire(a, n)
        PROVE  FALSE
    BY <1>1, <2>2, AmountsAssumption, RetireKeeps
    DEF FundInv, TypeOK, ShareTypeOK
  <2>3. CASE Investing
    BY <2>1, <2>2, <2>3
    DEF Investing, Deposit, Redeem, DepositERC20, RedeemERC20
  <2>4. CASE Gifts \/ Ownership
    BY <1>1, <2>4
    DEF Gifts, Ownership, Receive, TokenGift, UpdateNav, SetStablecoinAllowed,
        shareVars, FundInv, TypeOK, ShareTypeOK
  <2>5. CASE ShareNext /\ UNCHANGED <<ledgerVars, policyVars>>
    BY <1>1, <2>5, ShareNextKeepsShareInv
    DEF FundInv, TypeOK, ShareInv, ShareTypeOK
  <2> QED
    BY <1>1, <2>3, <2>4, <2>5 DEF Next
<1>2. FundInv /\ [Next]_vars =>
        [totalSupply' > totalSupply => totalAssets' <= MaxAUM]_vars
  BY <1>1
<1> QED
  BY <1>2, FundInvariant, PTL DEF Spec, CapOnIssue

-----------------------------------------------------------------------------
(* The programs of investors.                                               *)

States == {"idle"} \cup Underway \cup Ended

LeaveType ==
  /\ leave \in [Stablecoins -> [Accounts -> Nat]]
  /\ run \in [Runs -> RunsOf(States)]

(* Which runs are about an allowance, and what a transaction in the pool    *)
(* says of its run.                                                         *)
RunFits(r) ==
  /\ run[r].pc \in {"listed", "allowance", "approving"} => run[r].token \in Stablecoins
  /\ run[r].pc \in {"allowance", "approving"} => run[r].kind = "deposit"
  /\ <<r, "approve">> \in pool =>
       /\ run[r].pc \in {"approving", "failed"}
       /\ run[r].kind = "deposit" /\ run[r].token \in Stablecoins
  /\ <<r, "spend">> \in pool => run[r].pc \in {"spending", "failed"}

RunsFit == \A r \in Runs : RunFits(r)

LeaveInv == LeaveType /\ RunsFit /\ StandingAllowance

cvars == <<vars, commandVars>>

LEMMA LeaveInit == CommandInit => LeaveInv
BY DEF CommandInit, LeaveInv, LeaveType, RunsFit, RunFits, StandingAllowance, RunsOf, States

(* A run moves on and nothing else changes but transactions of its own.     *)
LEMMA Moves ==
  ASSUME LeaveInv, NEW r \in Runs, NEW pc \in States \ {"idle", "ok"}, Goto(r, pc),
         UNCHANGED leave,
         \A q \in Runs \ {r} : \A what \in {"approve", "spend"} :
           <<q, what>> \in pool' => <<q, what>> \in pool,
         RunFits(r)'
  PROVE  LeaveInv'
<1>1. /\ run'[r].pc = pc /\ run'[r].kind = run[r].kind /\ run'[r].token = run[r].token
      /\ run'[r].wallet = run[r].wallet /\ run'[r].amount = run[r].amount
      /\ \A q \in Runs : q # r => run'[q] = run[q]
  BY DEF LeaveInv, LeaveType, RunsOf, Goto
<1>2. LeaveType'
  BY DEF LeaveInv, LeaveType, RunsOf, Goto
<1>3. RunsFit'
  BY <1>1 DEF LeaveInv, RunsFit, RunFits
<1>4. StandingAllowance'
  <2> SUFFICES ASSUME NEW t \in Stablecoins, NEW a \in Accounts, leave[t][a] > 0
               PROVE  \E q \in Runs : /\ run'[q].pc \notin {"idle", "ok"} /\ run'[q].kind = "deposit"
                                      /\ run'[q].token = t /\ run'[q].wallet = a
                                      /\ leave[t][a] <= run'[q].amount
    BY DEF StandingAllowance
  <2>1. PICK q \in Runs : /\ run[q].pc \notin {"idle", "ok"} /\ run[q].kind = "deposit"
                          /\ run[q].token = t /\ run[q].wallet = a
                          /\ leave[t][a] <= run[q].amount
    BY DEF LeaveInv, StandingAllowance
  <2>2. run'[q].pc \notin {"idle", "ok"}
    BY <1>1, <2>1
  <2> QED
    BY <1>1, <2>1, <2>2
<1> QED
  BY <1>2, <1>3, <1>4 DEF LeaveInv

LEMMA MovesUnsent ==
  ASSUME LeaveInv, NEW r \in Runs,
         Start(r) \/ ReadListed(r) \/ GivesUp(r)
  PROVE  LeaveInv'
<1> USE DEF States, Underway, Ended, LeaveInv, LeaveType, RunsOf, RunsFit, RunFits, Goto, At
<1>1. CASE Start(r)
  <2> DEFINE pc == IF run[r].token = Native THEN "spend" ELSE "listed"
  <2>1. Goto(r, pc) /\ pc \in States \ {"idle", "ok"} /\ UNCHANGED <<leave, pool>>
    BY <1>1 DEF Start, tokenVars
  <2>2. RunFits(r)'
    BY <1>1, <2>1 DEF Start
  <2> HIDE DEF pc
  <2> QED
    BY <2>1, <2>2, Moves
<1>2. CASE ReadListed(r)
  <2> DEFINE pc == IF run[r].token \notin allowedStablecoins THEN "failed"
                   ELSE IF run[r].kind = "deposit" THEN "allowance" ELSE "spend"
  <2>1. Goto(r, pc) /\ pc \in States \ {"idle", "ok"} /\ UNCHANGED <<leave, pool>>
    BY <1>2 DEF ReadListed, tokenVars
  <2>2. RunFits(r)'
    BY <1>2, <2>1 DEF ReadListed
  <2> HIDE DEF pc
  <2> QED
    BY <2>1, <2>2, Moves
<1>3. CASE GivesUp(r)
  <2>1. Goto(r, "failed") /\ UNCHANGED <<leave, pool>>
    BY <1>3 DEF GivesUp, tokenVars
  <2>2. RunFits(r)'
    <3>1. run'[r] = [run[r] EXCEPT !.pc = "failed"] /\ pool' = pool
      BY <2>1
    <3> QED
      BY <3>1
  <2> QED
    BY <2>1, <2>2, Moves
<1> QED
  BY <1>1, <1>2, <1>3

LEMMA MovesSending ==
  ASSUME LeaveInv, NEW r \in Runs,
         EnsureErc20Allowance(r) \/ SendSpend(r)
  PROVE  LeaveInv'
<1> USE DEF States, Underway, Ended, LeaveInv, LeaveType, RunsOf, RunsFit, RunFits, Goto, At
<1>1. CASE EnsureErc20Allowance(r)
  <2>1. CASE leave[run[r].token][run[r].wallet] >= run[r].amount
    <3>1. Goto(r, "spend") /\ UNCHANGED <<leave, pool>>
      BY <1>1, <2>1 DEF EnsureErc20Allowance, tokenVars
    <3>2. RunFits(r)'
      BY <1>1, <3>1 DEF EnsureErc20Allowance
    <3> QED
      BY <3>1, <3>2, Moves
  <2>2. CASE ~(leave[run[r].token][run[r].wallet] >= run[r].amount)
    <3>1. Goto(r, "approving") /\ UNCHANGED leave /\ pool' = pool \cup {<<r, "approve">>}
      BY <1>1, <2>2 DEF EnsureErc20Allowance, tokenVars, Send
    <3>2. RunFits(r)'
      BY <1>1, <3>1 DEF EnsureErc20Allowance
    <3> QED
      BY <3>1, <3>2, Moves
  <2> QED
    BY <2>1, <2>2
<1>2. CASE SendSpend(r)
  <2>1. Goto(r, "spending") /\ UNCHANGED leave /\ pool' = pool \cup {<<r, "spend">>}
    BY <1>2 DEF SendSpend, tokenVars, Send
  <2>2. RunFits(r)'
    BY <1>2, <2>1 DEF SendSpend
  <2> QED
    BY <2>1, <2>2, Moves
<1> QED
  BY <1>1, <1>2

(* An approval mined is what its own run asked for.                         *)
LEMMA ApprovalIsOfItsRun ==
  ASSUME LeaveInv, NEW r \in Runs, MineApprove(r)
  PROVE  LeaveInv'
<1> DEFINE t == run[r].token
           a == run[r].wallet
<1>1. /\ t \in Stablecoins /\ a \in Accounts /\ run[r].kind = "deposit"
      /\ run[r].pc \in {"approving", "failed"} /\ run[r].amount \in Nat
  BY AmountsAssumption DEF MineApprove, Mined, LeaveInv, LeaveType, RunsOf, RunsFit, RunFits
<1>2. /\ leave' = [leave EXCEPT ![t][a] = run[r].amount]
      /\ pool' = pool \ {<<r, "approve">>}
  BY DEF MineApprove, Mined, Approved
<1>3. run' = [run EXCEPT ![r].pc = IF @ = "approving" THEN "spend" ELSE @]
  BY <1>1 DEF MineApprove, Inform, At, LeaveInv, LeaveType, RunsOf
<1>4. /\ run'[r].pc \in {"spend", "failed"} /\ run'[r].kind = run[r].kind
      /\ run'[r].token = t /\ run'[r].wallet = a /\ run'[r].amount = run[r].amount
      /\ \A q \in Runs : q # r => run'[q] = run[q]
  BY <1>1, <1>3 DEF LeaveInv, LeaveType, RunsOf
<1>5. LeaveType'
  BY <1>1, <1>2, <1>3 DEF LeaveInv, LeaveType, RunsOf, States, Underway, Ended
<1>6. RunsFit'
  <2> SUFFICES ASSUME NEW q \in Runs PROVE RunFits(q)'
    BY DEF RunsFit
  <2>1. RunFits(q)
    BY DEF LeaveInv, RunsFit
  <2>2. CASE q = r
    <3>1. <<r, "approve">> \notin pool'
      BY <1>2
    <3>2. <<r, "spend">> \in pool' => run[r].pc = "failed"
      BY <1>1, <1>2, <2>1, <2>2 DEF RunFits
    <3>3. run[r].pc = "failed" => run'[r].pc = "failed"
      BY <1>3 DEF LeaveInv, LeaveType
    <3> QED
      BY <1>4, <2>2, <3>1, <3>2, <3>3 DEF RunFits
  <2>3. CASE q # r
    BY <1>2, <1>4, <2>1, <2>3 DEF RunFits
  <2> QED
    BY <2>2, <2>3
<1>7. StandingAllowance'
  <2> SUFFICES ASSUME NEW u \in Stablecoins, NEW b \in Accounts, leave'[u][b] > 0
               PROVE  \E q \in Runs : /\ run'[q].pc \notin {"idle", "ok"}
                                      /\ run'[q].kind = "deposit"
                                      /\ run'[q].token = u /\ run'[q].wallet = b
                                      /\ leave'[u][b] <= run'[q].amount
    BY DEF StandingAllowance
  <2>1. CASE u = t /\ b = a
    <3>1. leave'[u][b] = run[r].amount
      BY <1>1, <1>2, <2>1 DEF LeaveInv, LeaveType
    <3> QED
      BY <1>1, <1>4, <2>1, <3>1
  <2>2. CASE ~(u = t /\ b = a)
    <3>1. leave'[u][b] = leave[u][b]
      BY <1>1, <1>2, <2>2 DEF LeaveInv, LeaveType
    <3>2. PICK q \in Runs : /\ run[q].pc \notin {"idle", "ok"} /\ run[q].kind = "deposit"
                            /\ run[q].token = u /\ run[q].wallet = b
                            /\ leave[u][b] <= run[q].amount
      BY <3>1 DEF LeaveInv, StandingAllowance
    <3>3. q # r
      BY <2>2, <3>2
    <3> QED
      BY <1>4, <3>1, <3>2, <3>3
  <2> QED
    BY <2>1, <2>2
<1> QED
  BY <1>5, <1>6, <1>7 DEF LeaveInv

(* A deposit mined uses up its own leave: whoever else is a witness of what *)
(* stands stays one, and if it was the run's own leave nothing stands.      *)
LEMMA SpendUsesLeave ==
  ASSUME LeaveInv, NEW r \in Runs, MineSpend(r)
  PROVE  LeaveInv'
<1> DEFINE t == run[r].token
           a == run[r].wallet
           n == run[r].amount
<1>1. /\ run[r].pc \in {"spending", "failed"} /\ a \in Accounts /\ n \in Nat
      /\ run[r].kind \in {"deposit", "redeem"} /\ t \in Stablecoins \cup {Native}
  BY AmountsAssumption DEF MineSpend, Mined, LeaveInv, LeaveType, RunsOf, RunsFit, RunFits
<1>2. \/ leave' = leave /\ ~(t # Native /\ run[r].kind = "deposit")
      \/ /\ t # Native /\ run[r].kind = "deposit" /\ n <= leave[t][a]
         /\ leave' = [leave EXCEPT ![t][a] = @ - n]
  BY DEF MineSpend, Spend, tokenVars, TakeFrom
<1>3. run' = [run EXCEPT ![r].pc = IF @ = "spending" THEN "ok" ELSE @]
  BY <1>1 DEF MineSpend, Inform, At, LeaveInv, LeaveType, RunsOf
<1>4. /\ run'[r].pc \in {"ok", "failed"} /\ run'[r].kind = run[r].kind
      /\ run'[r].token = t /\ run'[r].wallet = a /\ run'[r].amount = n
      /\ run[r].pc = "failed" => run'[r].pc = "failed"
      /\ \A q \in Runs : q # r => run'[q] = run[q]
  BY <1>1, <1>3 DEF LeaveInv, LeaveType, RunsOf
<1>5. LeaveType'
  BY <1>1, <1>2, <1>3 DEF LeaveInv, LeaveType, RunsOf, States, Underway, Ended
<1>6. RunsFit'
  <2> SUFFICES ASSUME NEW q \in Runs PROVE RunFits(q)'
    BY DEF RunsFit
  <2>1. RunFits(q) /\ pool' \subseteq pool /\ <<r, "spend">> \notin pool'
    BY DEF LeaveInv, RunsFit, MineSpend, Mined
  <2>2. CASE q = r
    <3>1. <<r, "approve">> \in pool =>
            /\ run[r].pc = "failed" /\ run[r].kind = "deposit" /\ t \in Stablecoins
      BY <1>1, <2>1, <2>2 DEF RunFits
    <3>2. <<r, "approve">> \in pool' =>
            /\ run'[r].pc = "failed" /\ run'[r].kind = "deposit" /\ run'[r].token \in Stablecoins
      BY <1>4, <2>1, <3>1
    <3>3. run'[r].pc \notin {"listed", "allowance", "approving"}
      BY <1>4
    <3> HIDE DEF t, a, n
    <3> QED
      BY <2>1, <2>2, <3>2, <3>3 DEF RunFits
  <2>3. CASE q # r
    BY <1>4, <2>1, <2>3 DEF RunFits
  <2> QED
    BY <2>2, <2>3
<1>7. StandingAllowance'
  <2> SUFFICES ASSUME NEW u \in Stablecoins, NEW b \in Accounts, leave'[u][b] > 0
               PROVE  \E q \in Runs : /\ run'[q].pc \notin {"idle", "ok"}
                                      /\ run'[q].kind = "deposit"
                                      /\ run'[q].token = u /\ run'[q].wallet = b
                                      /\ leave'[u][b] <= run'[q].amount
    BY DEF StandingAllowance
  <2>1. leave'[u][b] <= leave[u][b] /\ leave[u][b] \in Nat /\ leave'[u][b] \in Nat
    <3>1. leave[u][b] \in Nat /\ leave'[u][b] \in Nat
      BY <1>5 DEF LeaveInv, LeaveType
    <3>2. CASE leave' = leave
      BY <3>1, <3>2
    <3>3. CASE t \in Stablecoins /\ leave' = [leave EXCEPT ![t][a] = @ - n]
      <4>1. leave'[u][b] = IF u = t /\ b = a THEN leave[u][b] - n ELSE leave[u][b]
        BY <1>1, <3>3 DEF LeaveInv, LeaveType
      <4> HIDE DEF n, t, a
      <4> QED
        BY <1>1, <3>1, <4>1
    <3> QED
      BY <1>1, <1>2, <3>2, <3>3
  <2>2. PICK q \in Runs : /\ run[q].pc \notin {"idle", "ok"} /\ run[q].kind = "deposit"
                          /\ run[q].token = u /\ run[q].wallet = b
                          /\ leave[u][b] <= run[q].amount
    BY <2>1 DEF LeaveInv, StandingAllowance
  <2>3. run[q].amount \in Nat
    BY AmountsAssumption DEF LeaveInv, LeaveType, RunsOf
  <2>4. q # r
    <3> SUFFICES ASSUME q = r PROVE FALSE
      OBVIOUS
    <3>1. t = u /\ a = b /\ t # Native
      BY <2>2, CommandAssumption
    <3>2. leave'[u][b] = leave[u][b] - n /\ n <= leave[u][b]
      BY <1>1, <1>2, <2>2, <3>1 DEF LeaveInv, LeaveType
    <3> QED
      BY <1>1, <2>1, <2>2, <3>2
  <2> QED
    BY <1>4, <2>1, <2>2, <2>3, <2>4
<1> QED
  BY <1>5, <1>6, <1>7 DEF LeaveInv

LEMMA RevertLeaves ==
  ASSUME LeaveInv, NEW r \in Runs, RevertSpend(r)
  PROVE  LeaveInv'
<1> USE DEF States, Underway, Ended
<1> DEFINE pc == IF At(r, "spending") THEN "reverted" ELSE run[r].pc
<1>1. /\ UNCHANGED leave /\ pool' = pool \ {<<r, "spend">>} /\ run[r].pc \in {"spending", "failed"}
  BY DEF RevertSpend, Mined, tokenVars, LeaveInv, RunsFit, RunFits
<1>2. run' = [run EXCEPT ![r].pc = pc]
  BY DEF RevertSpend, Inform, LeaveInv, LeaveType, RunsOf
<1>3. Goto(r, pc) /\ pc \in {"reverted", "failed"} /\ (pc = run[r].pc \/ run[r].pc = "spending")
  BY <1>1, <1>2 DEF Goto, At
<1> HIDE DEF pc
<1>4. run'[r].pc = pc /\ run'[r].kind = run[r].kind /\ run'[r].token = run[r].token
  BY <1>2 DEF LeaveInv, LeaveType, RunsOf
<1>5. RunFits(r)
  BY DEF LeaveInv, RunsFit
<1>6. RunFits(r)'
  BY <1>1, <1>3, <1>4, <1>5 DEF RunFits
<1> QED
  BY <1>1, <1>3, <1>6, Moves

LEMMA LeaveStep ==
  ASSUME LeaveInv, [CommandNext]_cvars
  PROVE  LeaveInv'
<1>1. ASSUME NEW r \in Runs,
             \/ Start(r) \/ ReadListed(r) \/ EnsureErc20Allowance(r) \/ SendSpend(r) \/ GivesUp(r)
             \/ MineApprove(r) \/ MineSpend(r) \/ RevertSpend(r)
      PROVE  LeaveInv'
  BY <1>1, MovesUnsent, MovesSending, ApprovalIsOfItsRun, SpendUsesLeave, RevertLeaves
<1>2. CASE UNCHANGED commandVars
  BY <1>2 DEF commandVars, tokenVars, LeaveInv, LeaveType, RunsFit, RunFits, StandingAllowance
<1>3. UNCHANGED cvars => UNCHANGED commandVars
  BY DEF cvars
<1> QED
  BY <1>1, <1>2, <1>3 DEF CommandNext, CommandStep

(* However programs overlap in a wallet, overwrite each other's approvals   *)
(* or stop between an approval and its deposit, what the fund may take is    *)
(* at most what one of them asked for and did not get.                      *)
THEOREM CommandStandingAllowance == CommandSpec => []StandingAllowance
<1>1. LeaveInv /\ [CommandNext]_cvars => LeaveInv'
  BY LeaveStep
<1>2. LeaveInv => StandingAllowance
  BY DEF LeaveInv
<1> QED
  BY LeaveInit, <1>1, <1>2, PTL DEF CommandSpec, cvars

-----------------------------------------------------------------------------
(* A deposit that nothing overlaps.  A run acts while it is underway or has *)
(* a transaction that may still be mined.                                   *)
Acts(r) == run[r].pc \in Underway \/ \E what \in {"approve", "spend"} : <<r, what>> \in pool

Apart(r) == \A q \in Runs \ {r} : run[q].wallet = run[r].wallet /\ Acts(q) => ~Acts(r)

HasLeave(r) ==
  run[r].pc \in {"spend", "spending"} /\ run[r].kind = "deposit" /\ run[r].token # Native =>
    leave[run[r].token][run[r].wallet] >= run[r].amount

AloneRuns == alone \subseteq Runs /\ \A r \in alone : run[r].pc # "idle" /\ Apart(r)
AloneHave == \A r \in alone : HasLeave(r)
AloneInv == LeaveInv /\ AloneRuns /\ AloneHave

LEMMA AloneInit == CommandInit => AloneInv
BY LeaveInit DEF AloneInv, AloneRuns, AloneHave, CommandInit

LEMMA ActiveRuns == ASSUME NEW a PROVE Active(a) = {r \in Runs : run[r].wallet = a /\ Acts(r)}
BY DEF Active, Acts

(* What a run is asked for stays; only where it is changes, and only that   *)
(* of the run at work.                                                      *)
Same(r) == /\ run'[r].kind = run[r].kind /\ run'[r].token = run[r].token
           /\ run'[r].wallet = run[r].wallet /\ run'[r].amount = run[r].amount

LEMMA OneGoes ==
  ASSUME LeaveType, NEW r \in Runs, NEW pc, run' = [run EXCEPT ![r].pc = pc]
  PROVE  /\ \A q \in Runs : Same(q) /\ (q # r => run'[q] = run[q])
         /\ run'[r].pc = pc
BY DEF LeaveType, RunsOf, Same

(* No step but a start makes a run act that did not.                        *)
LEMMA StayApart ==
  ASSUME AloneInv, alone' = alone, \A q \in Runs : Same(q),
         \A q \in Runs : Acts(q)' => Acts(q),
         \A q \in Runs : run[q].pc # "idle" => run'[q].pc # "idle"
  PROVE  AloneRuns'
BY DEF AloneInv, AloneRuns, Apart, Same

LEMMA GoingOnStaysApart ==
  ASSUME AloneInv, NEW r \in Runs, NEW pc \in States \ {"idle"}, run[r].pc # "idle",
         run' = [run EXCEPT ![r].pc = pc], alone' = alone,
         pc \in Underway => run[r].pc \in Underway,
         pool' \subseteq pool \/ run[r].pc \in Underway,
         \A q \in Runs \ {r} : \A what \in {"approve", "spend"} :
           <<q, what>> \in pool' => <<q, what>> \in pool
  PROVE  /\ AloneRuns' /\ \A q \in Runs : Same(q)
         /\ \A q \in Runs \ {r} : run'[q] = run[q]
         /\ run'[r].pc = pc
<1>1. /\ \A q \in Runs : Same(q) /\ (q # r => run'[q] = run[q])
      /\ run'[r].pc = pc
  BY OneGoes DEF AloneInv, LeaveInv
<1>2. \A q \in Runs : Acts(q)' => Acts(q)
  <2> SUFFICES ASSUME NEW q \in Runs, Acts(q)' PROVE Acts(q)
    OBVIOUS
  <2>1. CASE q = r
    BY <1>1, <2>1 DEF Acts
  <2>2. CASE q # r
    BY <1>1, <2>2 DEF Acts
  <2> QED
    BY <2>1, <2>2
<1>3. \A q \in Runs : run[q].pc # "idle" => run'[q].pc # "idle"
  BY <1>1
<1> QED
  BY <1>1, <1>2, <1>3, StayApart

(* Where a run goes without having its leave, it must not be to its deposit.*)
LEMMA LeaveUntouched ==
  ASSUME AloneInv, NEW r \in Runs, alone' = alone, leave' = leave,
         \A q \in Runs : Same(q),
         \A q \in Runs \ {r} : run'[q] = run[q],
         r \in alone /\ run'[r].pc \in {"spend", "spending"} =>
           HasLeave(r)' \/ run[r].pc \in {"spend", "spending"}
  PROVE  AloneHave'
<1> SUFFICES ASSUME NEW q \in alone PROVE HasLeave(q)'
  BY DEF AloneHave
<1>1. q \in Runs /\ HasLeave(q)
  BY DEF AloneInv, AloneRuns, AloneHave
<1>2. CASE q = r
  BY <1>1, <1>2 DEF HasLeave, Same
<1>3. CASE q # r
  BY <1>1, <1>3 DEF HasLeave
<1> QED
  BY <1>2, <1>3

LEMMA StartAlone ==
  ASSUME AloneInv, NEW r \in Runs, Start(r)
  PROVE  AloneRuns' /\ AloneHave'
<1> DEFINE pc == IF run[r].token = Native THEN "spend" ELSE "listed"
           a == run[r].wallet
<1>1. /\ run' = [run EXCEPT ![r].pc = pc] /\ run[r].pc = "idle"
      /\ leave' = leave /\ pool' = pool
      /\ alone' = IF Active(a) = {} THEN alone \cup {r} ELSE alone \ Active(a)
  BY DEF Start, Goto, At, tokenVars
<1>2. pc \in Underway /\ (run[r].token # Native => pc = "listed")
  BY DEF Underway
<1> HIDE DEF pc
<1>3. /\ \A q \in Runs : Same(q) /\ (q # r => run'[q] = run[q])
      /\ run'[r].pc = pc
  BY <1>1, OneGoes DEF AloneInv, LeaveInv
<1>4. r \notin alone
  BY <1>1 DEF AloneInv, AloneRuns
<1>5. \A q \in Runs \ {r} : Acts(q)' <=> Acts(q)
  BY <1>1, <1>3 DEF Acts
<1>6. Active(a) = {q \in Runs : run[q].wallet = a /\ Acts(q)}
  BY ActiveRuns
<1>7. \A q \in Runs \ {r} : Apart(q) /\ (run[q].wallet = a => ~Acts(q)) => Apart(q)'
  BY <1>3, <1>5 DEF Apart, Same
<1>8. CASE Active(a) = {}
  <2>1. alone' = alone \cup {r}
    BY <1>1, <1>8
  <2>2. Apart(r)'
    BY <1>3, <1>5, <1>6, <1>8 DEF Apart, Same
  <2>3. \A q \in alone : q \in Runs \ {r} /\ Apart(q)'
    BY <1>4, <1>6, <1>7, <1>8 DEF AloneInv, AloneRuns
  <2>4. AloneRuns'
    BY <1>2, <1>3, <2>1, <2>2, <2>3 DEF AloneInv, AloneRuns, Underway
  <2>5. \A q \in alone : HasLeave(q)'
    BY <1>1, <1>3, <2>3 DEF AloneInv, AloneHave, HasLeave
  <2>6. HasLeave(r)'
    BY <1>2, <1>3 DEF HasLeave, Same
  <2> QED
    BY <2>1, <2>4, <2>5, <2>6 DEF AloneHave
<1>9. CASE Active(a) # {}
  <2>1. alone' = alone \ Active(a)
    BY <1>1, <1>9
  <2>2. \A q \in alone' : q \in Runs \ {r} /\ Apart(q)' /\ run'[q] = run[q]
    BY <1>3, <1>4, <1>6, <1>7, <2>1 DEF AloneInv, AloneRuns
  <2>3. AloneRuns'
    BY <2>1, <2>2 DEF AloneInv, AloneRuns
  <2>4. AloneHave'
    BY <1>1, <2>1, <2>2 DEF AloneInv, AloneHave, HasLeave
  <2> QED
    BY <2>3, <2>4
<1> QED
  BY <1>8, <1>9

LEMMA ListedAlone ==
  ASSUME AloneInv, NEW r \in Runs, ReadListed(r) \/ GivesUp(r)
  PROVE  AloneRuns' /\ AloneHave'
<1>1. CASE ReadListed(r)
  <2> DEFINE pc == IF run[r].token \notin allowedStablecoins THEN "failed"
                   ELSE IF run[r].kind = "deposit" THEN "allowance" ELSE "spend"
  <2>1. /\ run' = [run EXCEPT ![r].pc = pc] /\ run[r].pc = "listed"
        /\ leave' = leave /\ pool' = pool /\ alone' = alone
    BY <1>1 DEF ReadListed, Goto, At, tokenVars
  <2>2. pc \in States \ {"idle"} /\ (pc = "spend" => run[r].kind # "deposit") /\ pc # "spending"
    BY DEF States, Underway, Ended
  <2> HIDE DEF pc
  <2>3. /\ AloneRuns' /\ \A q \in Runs : Same(q)
        /\ \A q \in Runs \ {r} : run'[q] = run[q]
        /\ run'[r].pc = pc
    BY <2>1, <2>2, GoingOnStaysApart DEF Underway
  <2>4. pc \in {"spend", "spending"} => HasLeave(r)'
    BY <2>2, <2>3 DEF HasLeave, Same
  <2> QED
    BY <2>1, <2>3, <2>4, LeaveUntouched
<1>2. CASE GivesUp(r)
  <2>1. /\ run' = [run EXCEPT ![r].pc = "failed"] /\ run[r].pc \in Underway
        /\ leave' = leave /\ pool' = pool /\ alone' = alone
    BY <1>2 DEF GivesUp, Goto, tokenVars
  <2>2. "failed" \in States \ {"idle"} /\ "failed" \notin Underway /\ run[r].pc # "idle"
    BY <2>1 DEF States, Underway, Ended
  <2>3. /\ AloneRuns' /\ \A q \in Runs : Same(q)
        /\ \A q \in Runs \ {r} : run'[q] = run[q]
        /\ run'[r].pc = "failed"
    BY <2>1, <2>2, GoingOnStaysApart
  <2> QED
    BY <2>1, <2>3, LeaveUntouched
<1> QED
  BY <1>1, <1>2

LEMMA SendingAlone ==
  ASSUME AloneInv, NEW r \in Runs, EnsureErc20Allowance(r) \/ SendSpend(r)
  PROVE  AloneRuns' /\ AloneHave'
<1>1. CASE EnsureErc20Allowance(r)
  <2>1. run[r].pc = "allowance" /\ leave' = leave /\ alone' = alone
    BY <1>1 DEF EnsureErc20Allowance, At, tokenVars
  <2>2. CASE leave[run[r].token][run[r].wallet] >= run[r].amount
    <3>1. run' = [run EXCEPT ![r].pc = "spend"] /\ pool' = pool
      BY <1>1, <2>2 DEF EnsureErc20Allowance, Goto
    <3>2. /\ AloneRuns' /\ \A q \in Runs : Same(q)
          /\ \A q \in Runs \ {r} : run'[q] = run[q]
      BY <2>1, <3>1, GoingOnStaysApart DEF States, Underway
    <3>3. HasLeave(r)'
      BY <2>1, <2>2, <3>2 DEF HasLeave, Same
    <3> QED
      BY <2>1, <3>2, <3>3, LeaveUntouched
  <2>3. CASE ~(leave[run[r].token][run[r].wallet] >= run[r].amount)
    <3>1. run' = [run EXCEPT ![r].pc = "approving"] /\ pool' = pool \cup {<<r, "approve">>}
      BY <1>1, <2>3 DEF EnsureErc20Allowance, Goto, Send
    <3>2. /\ AloneRuns' /\ \A q \in Runs : Same(q)
          /\ \A q \in Runs \ {r} : run'[q] = run[q]
          /\ run'[r].pc = "approving"
      BY <2>1, <3>1, GoingOnStaysApart DEF States, Underway
    <3> QED
      BY <2>1, <3>2, LeaveUntouched
  <2> QED
    BY <2>2, <2>3
<1>2. CASE SendSpend(r)
  <2>1. /\ run' = [run EXCEPT ![r].pc = "spending"] /\ run[r].pc = "spend"
        /\ leave' = leave /\ alone' = alone /\ pool' = pool \cup {<<r, "spend">>}
    BY <1>2 DEF SendSpend, Send, Goto, At, tokenVars
  <2>2. /\ AloneRuns' /\ \A q \in Runs : Same(q)
        /\ \A q \in Runs \ {r} : run'[q] = run[q]
    BY <2>1, GoingOnStaysApart DEF States, Underway
  <2> QED
    BY <2>1, <2>2, LeaveUntouched
<1> QED
  BY <1>1, <1>2

(* A transaction mined is of a run that acts: no other run of its wallet is *)
(* alone and acts.                                                          *)
LEMMA MinedOfNoOther ==
  ASSUME AloneInv, NEW r \in Runs, NEW what \in {"approve", "spend"}, <<r, what>> \in pool,
         NEW q \in alone, q # r, run[q].wallet = run[r].wallet
  PROVE  ~Acts(q)
BY DEF AloneInv, AloneRuns, Apart, Acts

LEMMA ApprovalAlone ==
  ASSUME AloneInv, NEW r \in Runs, MineApprove(r)
  PROVE  AloneRuns' /\ AloneHave'
<1> DEFINE t == run[r].token
           a == run[r].wallet
           pc == IF run[r].pc = "approving" THEN "spend" ELSE run[r].pc
<1>1. /\ t \in Stablecoins /\ a \in Accounts /\ run[r].amount \in Nat
      /\ run[r].pc \in {"approving", "failed"}
  BY AmountsAssumption
     DEF MineApprove, Mined, AloneInv, LeaveInv, LeaveType, RunsOf, RunsFit, RunFits
<1>2. /\ leave' = [leave EXCEPT ![t][a] = run[r].amount] /\ alone' = alone
      /\ pool' \subseteq pool /\ <<r, "approve">> \in pool
  BY DEF MineApprove, Mined, Approved
<1>3. run' = [run EXCEPT ![r].pc = pc]
  BY DEF MineApprove, Inform, At, AloneInv, LeaveInv, LeaveType, RunsOf
<1>4. pc \in {"spend", "failed"} /\ (pc = "spend" => run[r].pc = "approving")
  BY <1>1
<1> HIDE DEF pc
<1>5. /\ AloneRuns' /\ \A q \in Runs : Same(q)
      /\ \A q \in Runs \ {r} : run'[q] = run[q]
      /\ run'[r].pc = pc
  BY <1>1, <1>2, <1>3, <1>4, GoingOnStaysApart DEF States, Underway, Ended
<1>6. leave'[t][a] = run[r].amount
  BY <1>1, <1>2 DEF AloneInv, LeaveInv, LeaveType
<1>7. ASSUME NEW q \in alone PROVE HasLeave(q)'
  <2>1. q \in Runs /\ HasLeave(q)
    BY DEF AloneInv, AloneRuns, AloneHave
  <2>2. CASE q = r
    BY <1>1, <1>5, <1>6, <2>2 DEF HasLeave, Same
  <2>3. CASE q # r /\ run[q].wallet = a
    <3>1. run'[q].pc \notin {"spend", "spending"}
      BY <1>2, <1>5, <2>1, <2>3, MinedOfNoOther DEF Acts, Underway
    <3> QED
      BY <3>1 DEF HasLeave
  <2>4. CASE q # r /\ run[q].wallet # a
    <3>1. run[q].token \in Stablecoins =>
            leave'[run[q].token][run[q].wallet] = leave[run[q].token][run[q].wallet]
      BY <1>1, <1>2, <2>1, <2>4 DEF AloneInv, LeaveInv, LeaveType, RunsOf
    <3>2. run[q].token # Native => run[q].token \in Stablecoins
      BY <2>1 DEF AloneInv, LeaveInv, LeaveType, RunsOf
    <3> QED
      BY <1>5, <2>1, <2>4, <3>1, <3>2 DEF HasLeave
  <2> QED
    BY <2>2, <2>3, <2>4
<1> QED
  BY <1>2, <1>5, <1>7 DEF AloneHave

LEMMA SpendAlone ==
  ASSUME AloneInv, NEW r \in Runs, MineSpend(r)
  PROVE  AloneRuns' /\ AloneHave'
<1> DEFINE t == run[r].token
           a == run[r].wallet
           n == run[r].amount
           pc == IF run[r].pc = "spending" THEN "ok" ELSE run[r].pc
<1>1. run[r].pc \in {"spending", "failed"} /\ a \in Accounts
  BY DEF MineSpend, Mined, AloneInv, LeaveInv, LeaveType, RunsOf, RunsFit, RunFits
<1>2. /\ leave' = leave \/ leave' = [leave EXCEPT ![t][a] = @ - n]
      /\ alone' = alone /\ pool' \subseteq pool /\ <<r, "spend">> \in pool
  BY DEF MineSpend, Mined, Spend, tokenVars, TakeFrom
<1>3. run' = [run EXCEPT ![r].pc = pc]
  BY DEF MineSpend, Inform, At, AloneInv, LeaveInv, LeaveType, RunsOf
<1>4. pc \in {"ok", "failed"}
  BY <1>1
<1> HIDE DEF pc
<1>5. /\ AloneRuns' /\ \A q \in Runs : Same(q)
      /\ \A q \in Runs \ {r} : run'[q] = run[q]
      /\ run'[r].pc = pc
  BY <1>1, <1>2, <1>3, <1>4, GoingOnStaysApart DEF States, Underway, Ended
<1>6. ASSUME NEW q \in alone PROVE HasLeave(q)'
  <2>1. q \in Runs /\ HasLeave(q)
    BY DEF AloneInv, AloneRuns, AloneHave
  <2>2. CASE q = r
    BY <1>4, <1>5, <2>2 DEF HasLeave
  <2>3. CASE q # r /\ run[q].wallet = a
    <3>1. run'[q].pc \notin {"spend", "spending"}
      BY <1>2, <1>5, <2>1, <2>3, MinedOfNoOther DEF Acts, Underway
    <3> QED
      BY <3>1 DEF HasLeave
  <2>4. CASE q # r /\ run[q].wallet # a
    <3>1. run[q].token \in Stablecoins =>
            leave'[run[q].token][run[q].wallet] = leave[run[q].token][run[q].wallet]
      BY <1>1, <1>2, <2>1, <2>4 DEF AloneInv, LeaveInv, LeaveType, RunsOf
    <3>2. run[q].token # Native => run[q].token \in Stablecoins
      BY <2>1 DEF AloneInv, LeaveInv, LeaveType, RunsOf
    <3> QED
      BY <1>5, <2>1, <2>4, <3>1, <3>2 DEF HasLeave
  <2> QED
    BY <2>2, <2>3, <2>4
<1> QED
  BY <1>2, <1>5, <1>6 DEF AloneHave

LEMMA RevertAlone ==
  ASSUME AloneInv, NEW r \in Runs, RevertSpend(r)
  PROVE  AloneRuns' /\ AloneHave'
<1> DEFINE pc == IF run[r].pc = "spending" THEN "reverted" ELSE run[r].pc
<1>1. /\ run[r].pc \in {"spending", "failed"} /\ leave' = leave /\ alone' = alone
      /\ pool' \subseteq pool
  BY DEF RevertSpend, Mined, tokenVars, AloneInv, LeaveInv, RunsFit, RunFits
<1>2. run' = [run EXCEPT ![r].pc = pc] /\ pc \in {"reverted", "failed"}
  BY <1>1 DEF RevertSpend, Inform, At, AloneInv, LeaveInv, LeaveType, RunsOf
<1> HIDE DEF pc
<1>3. /\ AloneRuns' /\ \A q \in Runs : Same(q)
      /\ \A q \in Runs \ {r} : run'[q] = run[q]
      /\ run'[r].pc = pc
  BY <1>1, <1>2, GoingOnStaysApart DEF States, Underway, Ended
<1> QED
  BY <1>1, <1>2, <1>3, LeaveUntouched

LEMMA AloneStep ==
  ASSUME AloneInv, [CommandNext]_cvars
  PROVE  AloneInv'
<1>1. LeaveInv'
  BY LeaveStep DEF AloneInv
<1>2. ASSUME NEW r \in Runs,
             \/ Start(r) \/ ReadListed(r) \/ EnsureErc20Allowance(r) \/ SendSpend(r) \/ GivesUp(r)
             \/ MineApprove(r) \/ MineSpend(r) \/ RevertSpend(r)
      PROVE  AloneRuns' /\ AloneHave'
  BY <1>2, StartAlone, ListedAlone, SendingAlone, ApprovalAlone, SpendAlone, RevertAlone
<1>3. CASE UNCHANGED commandVars
  <2>1. UNCHANGED <<leave, run, pool, alone>>
    BY <1>3 DEF commandVars, tokenVars
  <2>2. AloneRuns' /\ AloneHave'
    BY <2>1 DEF AloneInv, AloneRuns, AloneHave, Apart, Acts, HasLeave
  <2> QED
    BY <1>1, <2>2 DEF AloneInv
<1>4. UNCHANGED cvars => UNCHANGED commandVars
  BY DEF cvars
<1> QED
  BY <1>1, <1>2, <1>3, <1>4 DEF AloneInv, CommandNext, CommandStep

(* A deposit in a token that nothing else in its wallet overlaps is not     *)
(* refused for want of leave: whatever approvals earlier runs left standing,*)
(* the one it read or made still stands when its deposit is mined.          *)
THEOREM CommandAloneIsAllowed == CommandSpec => []AloneIsAllowed
<1>1. AloneInv /\ [CommandNext]_cvars => AloneInv'
  BY AloneStep
<1>2. AloneInv => AloneIsAllowed
  BY DEF AloneInv, AloneHave, HasLeave, AloneIsAllowed, At
<1> QED
  BY AloneInit, <1>1, <1>2, PTL DEF CommandSpec, cvars

-----------------------------------------------------------------------------
(* A spending that is mined is a transaction of the fund's contract.        *)
LEMMA SpendIsStep ==
  ASSUME LeaveType, NEW r \in Runs, Spend(r)
  PROVE  Next
<1>1. /\ run[r].wallet \in Accounts /\ run[r].amount \in Amounts
      /\ run[r].token \in Stablecoins \cup {Native}
  BY DEF LeaveType, RunsOf
<1>2. Investing
  BY <1>1 DEF Spend, Investing
<1> QED
  BY <1>2 DEF Next

LEMMA CommandIsFundStep ==
  ASSUME LeaveInv, [CommandNext]_cvars
  PROVE  [Next]_vars
<1>1. ASSUME NEW r \in Runs,
             \/ Start(r) \/ ReadListed(r) \/ EnsureErc20Allowance(r) \/ SendSpend(r) \/ GivesUp(r)
             \/ MineApprove(r) \/ RevertSpend(r)
      PROVE  UNCHANGED vars
  BY <1>1 DEF Start, ReadListed, EnsureErc20Allowance, SendSpend, GivesUp, MineApprove, RevertSpend
<1>2. ASSUME NEW r \in Runs, MineSpend(r)
      PROVE  Next
  BY <1>2, SpendIsStep DEF MineSpend, LeaveInv
<1>3. CASE Ownership /\ UNCHANGED commandVars
  BY <1>3 DEF Next
<1>4. CASE UNCHANGED cvars
  BY <1>4 DEF cvars
<1> QED
  BY <1>1, <1>2, <1>3, <1>4 DEF CommandNext, CommandStep

(* The programs implement the contract's callers: deposits and redemptions  *)
(* that overlap, fail or are abandoned do nothing to the fund that its      *)
(* contract does not provide for, so conservation, solvency and the rest    *)
(* hold whichever programs are used.                                        *)
THEOREM CommandsImplementFund == CommandSpec => Spec
<1>1. CommandInit => Init
  BY DEF CommandInit
<1>2. LeaveInv /\ [CommandNext]_cvars => [Next]_vars /\ LeaveInv'
  BY LeaveStep, CommandIsFundStep
<1> QED
  BY LeaveInit, <1>1, <1>2, PTL DEF CommandSpec, Spec, cvars
=============================================================================
