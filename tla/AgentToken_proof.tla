--------------------------- MODULE AgentToken_proof ---------------------------
(***************************************************************************)
(* The agent token's invariants hold for any accounts, proofs, hashes and   *)
(* number of clones.  TokenInv is inductive as it stands: agreement of the  *)
(* fund and token 1 and the lineage of clones only need their own types,    *)
(* and the attestation of clones lasts because verified proofs only grow.   *)
(* The commands of the deployer's wallet only take steps of the token, so   *)
(* they keep all of that; what they promise besides is proved from it.      *)
(***************************************************************************)
EXTENDS TransferCommands, TLAPS

TokenInv == TypeOK /\ FundIsToken /\ ClonesAreAttested /\ Lineage

LEMMA TokenInvInit == Init => TokenInv
<1> SUFFICES ASSUME Init PROVE TokenInv
  OBVIOUS
<1>1. TypeOK
  BY TokenAssumption DEF Init, TypeOK, Config, TokenData, INITIAL, TokenIds
<1>2. FundIsToken /\ ClonesAreAttested /\ Lineage
  BY DEF Init, FundIsToken, ClonesAreAttested, Lineage, INITIAL
<1> QED
  BY <1>1, <1>2 DEF TokenInv

(* Steps that leave the token's own variables alone.                        *)
LEMMA OracleSteps ==
  ASSUME TokenInv, NEW sender \in Accounts, Attesting(sender)
  PROVE  TokenInv' /\ UNCHANGED tokenVars
<1> USE TokenAssumption DEF TokenInv, tokenVars, grantVars
<1>1. CASE \E p \in Proofs : RegisterProof(sender, p)
  BY <1>1 DEF RegisterProof, TypeOK, FundIsToken, ClonesAreAttested, Lineage
<1>2. CASE \E p \in Proofs, new \in Hashes, access \in BOOLEAN :
             RegisterTransferProof(sender, p, new, access)
  BY <1>2 DEF RegisterTransferProof, TypeOK, FundIsToken, ClonesAreAttested, Lineage
<1>3. CASE \E to \in Accounts : TransferOwnership(sender, to)
  BY <1>3 DEF TransferOwnership, TypeOK, FundIsToken, ClonesAreAttested, Lineage
<1> QED
  BY <1>1, <1>2, <1>3 DEF Attesting

LEMMA GrantSteps ==
  ASSUME TokenInv, NEW sender \in Accounts, Granting(sender)
  PROVE  TokenInv' /\ UNCHANGED tokenVars
<1> USE TokenAssumption DEF TokenInv, tokenVars, oracleVars
<1>1. CASE \E t \in TokenIds, x \in Executors : AuthorizeExecutor(sender, t, x)
  BY <1>1 DEF AuthorizeExecutor, TypeOK, FundIsToken, ClonesAreAttested, Lineage
<1>2. CASE \E i \in Investors : RevokeUsage(sender, i)
  BY <1>2 DEF RevokeUsage, TypeOK, FundIsToken, ClonesAreAttested, Lineage
<1>3. CASE \E i \in Investors, e \in 0 .. MaxTime : AuthorizeInvestor(sender, i, e)
  BY <1>3 DEF AuthorizeInvestor, TypeOK, FundIsToken, ClonesAreAttested, Lineage
<1> QED
  BY <1>1, <1>2, <1>3 DEF Granting

LEMMA TickStep ==
  ASSUME TokenInv, Tick
  PROVE  TokenInv' /\ UNCHANGED tokenVars
BY TokenAssumption
   DEF TokenInv, tokenVars, oracleVars, grantVars, Tick, TypeOK, FundIsToken,
       ClonesAreAttested, Lineage

(* Writing the fund's metadata, by its owner or with a proof.               *)
LEMMA WriteStep ==
  ASSUME TokenInv, NEW hash \in Hashes, NEW uri \in Uris, WriteMetadata(hash, uri),
         UNCHANGED <<fundOwner, nextTokenId, sealedKeys, grantVars, oracleVars, timestamp>>
  PROVE  TokenInv'
<1> USE TokenAssumption DEF TokenInv, oracleVars, grantVars
<1>1. INITIAL \in 1 .. nextTokenId - 1
  BY DEF TypeOK, INITIAL
<1>2. /\ tokens' \in [1 .. nextTokenId - 1 -> TokenData]
      /\ tokens'[INITIAL].metadataHash = hash
      /\ tokens'[INITIAL].encryptedURI = uri
      /\ tokens'[INITIAL].owner = tokens[INITIAL].owner
      /\ \A t \in DOMAIN tokens \ {INITIAL} : tokens'[t] = tokens[t]
  <2> DEFINE hashed == [tokens EXCEPT ![INITIAL].metadataHash = hash]
  <2>1. tokens \in [1 .. nextTokenId - 1 -> TokenData]
    BY DEF TypeOK
  <2>2. /\ hashed \in [1 .. nextTokenId - 1 -> TokenData]
        /\ hashed[INITIAL].metadataHash = hash
        /\ hashed[INITIAL].owner = tokens[INITIAL].owner
        /\ \A t \in DOMAIN tokens \ {INITIAL} : hashed[t] = tokens[t]
    BY <1>1, <2>1 DEF TokenData
  <2>3. tokens' = [hashed EXCEPT ![INITIAL].encryptedURI = uri]
    BY DEF WriteMetadata
  <2> HIDE DEF hashed
  <2> QED
    BY <1>1, <2>1, <2>2, <2>3 DEF TokenData
<1>3. TypeOK'
  BY <1>2 DEF WriteMetadata, TypeOK, Config
<1>4. FundIsToken'
  BY <1>2 DEF WriteMetadata, FundIsToken, INITIAL
<1>5. ClonesAreAttested' /\ Lineage'
  BY <1>2 DEF TypeOK, ClonesAreAttested, Lineage, INITIAL
<1> QED
  BY <1>3, <1>4, <1>5

LEMMA PublishTyped ==
  ASSUME TypeOK, NEW t \in TokenIds, NEW holder \in Accounts, NEW key \in Keys,
         Publish(t, holder, key)
  PROVE  sealedKeys' \in [TokenIds -> [Accounts -> Keys]]
BY DEF TypeOK, Publish

LEMMA AcceptedHash ==
  ASSUME NEW p \in Proofs, Accepted(p)
  PROVE  /\ p \in verifiedProofs
         /\ HashOf[p] \in Hashes
         /\ transferProofs[p].receiverHasAccess
         /\ transferProofs[p].newDataHash = HashOf[p]
BY TokenAssumption DEF Accepted, VerifyProof, HasAccess

LEMMA TransferStep ==
  ASSUME TokenInv, NEW giver \in Accounts, NEW to \in Accounts, NEW t \in TokenIds,
         NEW key \in Keys, NEW p \in Proofs, Transfer(giver, to, t, key, p)
  PROVE  /\ TokenInv'
         /\ fundOwner' # fundOwner =>
              /\ transferProofs[p].receiverHasAccess
              /\ transferProofs[p].newDataHash = config'.metadataHash
<1> USE TokenAssumption DEF TokenInv, oracleVars, grantVars
<1>1. t \in 1 .. nextTokenId - 1 /\ INITIAL \in 1 .. nextTokenId - 1
  BY DEF Transfer, Exists, TypeOK, INITIAL
<1>2. /\ p \in verifiedProofs
      /\ HashOf[p] \in Hashes
      /\ transferProofs[p].receiverHasAccess
      /\ transferProofs[p].newDataHash = HashOf[p]
  BY AcceptedHash DEF Transfer
<1>3. /\ tokens' \in [1 .. nextTokenId - 1 -> TokenData]
      /\ tokens'[t].owner = to
      /\ tokens'[t].metadataHash = HashOf[p]
      /\ tokens'[t].encryptedURI = tokens[t].encryptedURI
      /\ tokens'[t].clonedFrom = tokens[t].clonedFrom
      /\ \A n \in DOMAIN tokens \ {t} : tokens'[n] = tokens[n]
  <2>1. tokens[t] \in TokenData /\ tokens \in [1 .. nextTokenId - 1 -> TokenData]
    BY <1>1 DEF TypeOK
  <2> DEFINE data == [tokens[t] EXCEPT !.owner = to, !.metadataHash = HashOf[p]]
  <2>2. /\ data \in TokenData
        /\ data.owner = to
        /\ data.metadataHash = HashOf[p]
        /\ data.encryptedURI = tokens[t].encryptedURI
        /\ data.clonedFrom = tokens[t].clonedFrom
    BY <1>2, <2>1 DEF TokenData
  <2>3. tokens' = [tokens EXCEPT ![t] = data]
    BY <1>1, <2>1 DEF Transfer, TokenData
  <2> QED
    BY <1>1, <2>1, <2>2, <2>3
<1>4. sealedKeys' \in [TokenIds -> [Accounts -> Keys]]
  BY PublishTyped DEF Transfer
<1>5. /\ fundOwner' = IF t = INITIAL THEN to ELSE fundOwner
      /\ config' = IF t = INITIAL
                   THEN [config EXCEPT !.metadataHash = HashOf[p]] ELSE config
  BY DEF Transfer
<1>6. /\ config' \in Config
      /\ config'.encryptedURI = config.encryptedURI
      /\ t = INITIAL => config'.metadataHash = HashOf[p]
      /\ t # INITIAL => config' = config
  BY <1>2, <1>5 DEF TypeOK, Config
<1>7. TypeOK'
  BY <1>3, <1>4, <1>5, <1>6 DEF Transfer, TypeOK
<1>8. FundIsToken'
  BY <1>1, <1>3, <1>5, <1>6 DEF FundIsToken, TypeOK
<1>9. ClonesAreAttested'
  BY <1>2, <1>3 DEF Transfer, ClonesAreAttested, TypeOK
<1>10. Lineage'
  BY <1>3 DEF Lineage, TypeOK
<1> QED
  BY <1>2, <1>5, <1>6, <1>7, <1>8, <1>9, <1>10

LEMMA CloneStep ==
  ASSUME TokenInv, NEW sender \in Accounts, NEW to \in Accounts, NEW t \in TokenIds,
         NEW key \in Keys, NEW p \in Proofs, Clone(sender, to, t, key, p)
  PROVE  TokenInv' /\ UNCHANGED fundOwner
<1> USE TokenAssumption DEF TokenInv, oracleVars, grantVars
<1> DEFINE new == nextTokenId
<1>1. /\ new \in TokenIds /\ new # INITIAL /\ t \in 1 .. new - 1
      /\ new \in Nat /\ nextTokenId' = new + 1
      /\ 1 .. nextTokenId' - 1 = 1 .. new
  BY DEF Clone, MintNext, Exists, TypeOK, INITIAL, TokenIds
<1>2. p \in verifiedProofs /\ HashOf[p] \in Hashes
  BY AcceptedHash DEF Clone
<1>3. /\ CloneData(to, t, p) \in TokenData
      /\ CloneData(to, t, p).clonedFrom = t
      /\ CloneData(to, t, p).metadataHash = HashOf[p]
  BY <1>1, <1>2 DEF CloneData, TypeOK, TokenData, TokenIds
<1>4. /\ DOMAIN tokens' = 1 .. new
      /\ tokens'[new] = CloneData(to, t, p)
      /\ \A n \in 1 .. new - 1 : tokens'[n] = tokens[n]
      /\ tokens' \in [1 .. new -> TokenData]
  <2>1. tokens' = [n \in 1 .. new |-> IF n = new THEN CloneData(to, t, p) ELSE tokens[n]]
    BY DEF Clone, MintNext
  <2>2. \A n \in 1 .. new : n # new => n \in 1 .. new - 1
    BY <1>1
  <2>3. \A n \in 1 .. new - 1 : tokens[n] \in TokenData
    BY DEF TypeOK
  <2> QED
    BY <1>1, <1>3, <2>1, <2>2, <2>3
<1>5. sealedKeys' \in [TokenIds -> [Accounts -> Keys]]
  BY <1>1, PublishTyped DEF Clone
<1>6. TypeOK'
  BY <1>1, <1>4, <1>5 DEF Clone, TypeOK, TokenIds
<1>7. FundIsToken'
  BY <1>1, <1>4 DEF Clone, FundIsToken, TypeOK, INITIAL
<1>8. ClonesAreAttested'
  BY <1>1, <1>2, <1>3, <1>4 DEF Clone, ClonesAreAttested, TypeOK
<1>9. Lineage'
  BY <1>1, <1>3, <1>4 DEF Lineage, TypeOK
<1> QED
  BY <1>6, <1>7, <1>8, <1>9 DEF Clone

(* One step of the token or its oracle.                                     *)
LEMMA TokenStep ==
  ASSUME TokenInv, [Next]_vars
  PROVE  /\ TokenInv'
         /\ fundOwner' # fundOwner =>
              \E p \in Proofs : /\ transferProofs[p].receiverHasAccess
                                /\ transferProofs[p].newDataHash = config'.metadataHash
<1>1. CASE \E sender \in Accounts : Attesting(sender) \/ Granting(sender)
  BY <1>1, OracleSteps, GrantSteps DEF tokenVars
<1>2. CASE Tick
  BY <1>2, TickStep DEF tokenVars
<1>3. CASE \E sender \in Accounts, hash \in Hashes, uri \in Uris :
             \/ SetMetadata(sender, hash, uri)
             \/ \E p \in Proofs : RotateMetadata(sender, hash, uri, p)
  <2>1. PICK hash \in Hashes, uri \in Uris :
          /\ WriteMetadata(hash, uri)
          /\ UNCHANGED <<fundOwner, nextTokenId, sealedKeys, grantVars, oracleVars, timestamp>>
    BY <1>3 DEF SetMetadata, RotateMetadata
  <2> QED
    BY <2>1, WriteStep
<1>4. CASE \E sender \in Accounts, t \in TokenIds, to \in Accounts, key \in Keys, p \in Proofs :
             Transfer(sender, to, t, key, p)
  BY <1>4, TransferStep
<1>5. CASE \E sender \in Accounts, t \in TokenIds, to \in Accounts, key \in Keys, p \in Proofs :
             Clone(sender, to, t, key, p)
  BY <1>5, CloneStep
<1>6. CASE UNCHANGED vars
  BY <1>6 DEF vars, tokenVars, grantVars, oracleVars, TokenInv, TypeOK, FundIsToken,
              ClonesAreAttested, Lineage
<1> QED
  BY <1>1, <1>2, <1>3, <1>4, <1>5, <1>6 DEF Next, Holding

LEMMA TokenInductive == Spec => []TokenInv
<1>1. TokenInv /\ [Next]_vars => TokenInv'
  BY TokenStep
<1> QED
  BY <1>1, TokenInvInit, PTL DEF Spec

(* Every variable of the fund's token and its oracle keeps to its type.     *)
THEOREM TokenTypes == Spec => []TypeOK
<1>1. TokenInv => TypeOK
  BY DEF TokenInv
<1> QED
  BY <1>1, TokenInductive, PTL

(* The fund and its first token never disagree on owner or metadata.        *)
THEOREM TokenIsFund == Spec => []FundIsToken
<1>1. TokenInv => FundIsToken
  BY DEF TokenInv
<1> QED
  BY <1>1, TokenInductive, PTL

(* Clones carry attested hashes, however many there are and whoever moves   *)
(* them.                                                                    *)
THEOREM TokenClonesAttested == Spec => []ClonesAreAttested
<1>1. TokenInv => ClonesAreAttested
  BY DEF TokenInv
<1> QED
  BY <1>1, TokenInductive, PTL

(* The lineage of clones has no cycle and ends at the initial token.        *)
THEOREM TokenLineage == Spec => []Lineage
<1>1. TokenInv => Lineage
  BY DEF TokenInv
<1> QED
  BY <1>1, TokenInductive, PTL

(* The fund changes hands only with a registered proof for its new hash.    *)
THEOREM TokenHandedOver == Spec => HandedOverWithProof
<1>1. TokenInv /\ [Next]_vars =>
        [fundOwner' # fundOwner =>
           \E p \in Proofs : /\ transferProofs[p].receiverHasAccess
                             /\ transferProofs[p].newDataHash = config'.metadataHash]_vars
  BY TokenStep
<1> QED
  BY <1>1, TokenInductive, PTL DEF Spec, HandedOverWithProof

-----------------------------------------------------------------------------
(* The commands.  A run knows where it is and whose token it has read.      *)
RunsTyped ==
  /\ pc \in [Runs -> {"start", "registered", "owned", "done", "failed"}]
  /\ from \in [Runs -> Accounts]

(* What a transfer leaves behind: the one that took the token from the      *)
(* deployer is the reason that the deployer does not own it.                *)
NoneComesBack == \A r \in Runs : Receiver[r] # Deployer

TookIt(r) == Kind[r] = "transfer" /\ pc[r] = "done" /\ from[r] = Deployer

SoldAway ==
  NoneComesBack => \A r \in Runs : TookIt(r) => tokens[INITIAL].owner # Deployer

CommandInv == TokenInv /\ RunsTyped /\ OwnerHoldsKey /\ SoldAway /\ SoldOnce

LEMMA CommandInvInit == CommandInit => CommandInv
<1> SUFFICES ASSUME CommandInit PROVE CommandInv
  OBVIOUS
<1>1. TokenInv
  BY TokenInvInit DEF CommandInit
<1>2. RunsTyped /\ \A r \in Runs : pc[r] # "done"
  BY TokenAssumption DEF CommandInit, RunsTyped
<1>3. OwnerHoldsKey
  BY DEF CommandInit, Init, OwnerHoldsKey, INITIAL
<1> QED
  BY <1>1, <1>2, <1>3 DEF CommandInv, SoldAway, SoldOnce, TookIt

LEMMA BundleTyped ==
  ASSUME NEW r \in Runs
  PROVE  /\ ProcessTransfer(r).proof = ProofOf[r] /\ ProofOf[r] \in Proofs
         /\ ProcessTransfer(r).hash = NewHash[r] /\ NewHash[r] \in Hashes
         /\ ProcessTransfer(r).sealedKey = SealedKey[r] /\ SealedKey[r] \in Keys \ {NoKey}
         /\ ProcessTransfer(r).receiverHasAccess = TRUE
         /\ Receiver[r] \in Accounts
BY CommandAssumption DEF ProcessTransfer, NewHash

LEMMA InitialToken == INITIAL \in TokenIds
BY TokenAssumption DEF INITIAL, TokenIds

(* Steps of the commands that leave the initial token's owner and its keys. *)
Registers(r) == Register(r) \/ DemoRegister(r) \/ RegisteredByHand(r)

LEMMA RegisterIsStep ==
  ASSUME NEW r \in Runs, Registers(r)
  PROVE  Next /\ UNCHANGED <<tokens, sealedKeys, from>>
<1>1. /\ ProcessTransfer(r).proof \in Proofs /\ ProcessTransfer(r).hash \in Hashes
      /\ ProcessTransfer(r).receiverHasAccess \in BOOLEAN
      /\ ProofOf[r] \in Proofs /\ NewHash[r] \in Hashes /\ Deployer \in Accounts
  BY BundleTyped, TokenAssumption
<1>2. \/ RegisterProof(Deployer, ProofOf[r])
      \/ \E p \in Proofs, new \in Hashes, access \in BOOLEAN :
           RegisterTransferProof(Deployer, p, new, access)
  BY <1>1 DEF Registers, Register, DemoRegister, RegisteredByHand
<1>3. Attesting(Deployer) /\ UNCHANGED tokenVars
  BY <1>1, <1>2 DEF Attesting, RegisterProof, RegisterTransferProof
<1>4. UNCHANGED from
  BY DEF Registers, Register, DemoRegister, RegisteredByHand
<1> QED
  BY <1>1, <1>3, <1>4 DEF Next, tokenVars

LEMMA TransferIsStep ==
  ASSUME RunsTyped, NEW r \in Runs, SendTransfer(r)
  PROVE  /\ Next
         /\ Transfer(from[r], Receiver[r], INITIAL, SealedKey[r], ProofOf[r])
         /\ from[r] \in Accounts
<1>1. /\ Transfer(from[r], Receiver[r], INITIAL, SealedKey[r], ProofOf[r])
      /\ from[r] \in Accounts /\ Receiver[r] \in Accounts /\ ProofOf[r] \in Proofs
      /\ SealedKey[r] \in Keys
  BY BundleTyped DEF SendTransfer, FundTransfer, RunsTyped
<1>2. Holding(from[r])
  BY <1>1, InitialToken DEF Holding
<1> QED
  BY <1>1, <1>2 DEF Next

LEMMA CloneIsStep ==
  ASSUME NEW r \in Runs, SendClone(r)
  PROVE  Next /\ Clone(Deployer, Receiver[r], INITIAL, SealedKey[r], ProofOf[r])
<1>1. /\ Clone(Deployer, Receiver[r], INITIAL, SealedKey[r], ProofOf[r])
      /\ Deployer \in Accounts /\ Receiver[r] \in Accounts /\ ProofOf[r] \in Proofs
      /\ SealedKey[r] \in Keys
  BY BundleTyped, TokenAssumption DEF SendClone, FundClone
<1>2. Holding(Deployer)
  BY <1>1, InitialToken DEF Holding
<1> QED
  BY <1>1, <1>2 DEF Next

Rewrites == \/ \E r \in Runs : DemoRotate(r)
            \/ \E uri \in Uris \ {EmptyUri, DemoUri} : InitializeFund(uri)

LEMMA RewriteIsStep ==
  ASSUME TokenInv, Rewrites
  PROVE  /\ [Next]_vars
         /\ UNCHANGED <<sealedKeys, from>>
         /\ tokens'[INITIAL].owner = tokens[INITIAL].owner
<1>1. UNCHANGED from
  BY DEF Rewrites, DemoRotate, InitializeFund
<1>2. ASSUME NEW hash, NEW uri, WriteMetadata(hash, uri)
      PROVE  tokens'[INITIAL].owner = tokens[INITIAL].owner
  <2>1. INITIAL \in DOMAIN tokens /\ tokens[INITIAL] \in TokenData
    BY DEF TokenInv, TypeOK, INITIAL
  <2> QED
    BY <1>2, <2>1 DEF WriteMetadata, TokenData
<1>3. ASSUME NEW r \in Runs, DemoRotate(r)
      PROVE  Next /\ UNCHANGED sealedKeys /\ tokens'[INITIAL].owner = tokens[INITIAL].owner
  <2>1. /\ RotateMetadata(Deployer, NewHash[r], DemoUri, ProofOf[r])
        /\ NewHash[r] \in Hashes /\ DemoUri \in Uris /\ ProofOf[r] \in Proofs
    BY <1>3, BundleTyped, CommandAssumption DEF DemoRotate
  <2>2. Holding(Deployer) /\ UNCHANGED sealedKeys /\ WriteMetadata(NewHash[r], DemoUri)
    BY <2>1 DEF Holding, RotateMetadata
  <2> QED
    BY <1>2, <2>2, TokenAssumption DEF Next
<1>4. ASSUME NEW uri \in Uris, InitializeFund(uri)
      PROVE  /\ [Next]_vars /\ UNCHANGED sealedKeys
             /\ tokens'[INITIAL].owner = tokens[INITIAL].owner
  <2>1. CASE SetMetadata(Deployer, FixtureHash, uri)
    <3>1. Holding(Deployer) /\ UNCHANGED sealedKeys /\ WriteMetadata(FixtureHash, uri)
      BY <2>1, CommandAssumption DEF Holding, SetMetadata
    <3> QED
      BY <1>2, <3>1, TokenAssumption DEF Next
  <2>2. CASE UNCHANGED vars
    BY <2>2 DEF vars, tokenVars
  <2> QED
    BY <1>4, <2>1, <2>2 DEF InitializeFund
<1> QED
  BY <1>1, <1>3, <1>4 DEF Rewrites

Idles == \/ \E r \in Runs : ReadOwner(r) \/ Reverted(r) \/ Unsent(r)
         \/ \E uri \in Uris \ {EmptyUri, DemoUri} : EncryptMetadata(uri)

LEMMA IdleIsStutter == Idles => UNCHANGED vars
BY DEF Idles, ReadOwner, Reverted, Unsent, Fail, EncryptMetadata

LEMMA CommandCases ==
  ASSUME CommandNext
  PROVE  \/ \E r \in Runs : Registers(r) \/ SendTransfer(r) \/ SendClone(r)
         \/ Rewrites \/ Idles
BY DEF CommandNext, Step, Registers, Rewrites, Idles

(* Every step of a command is a step of the token, or none.                 *)
LEMMA CommandIsStep ==
  ASSUME TokenInv, RunsTyped, [CommandNext]_commandVars
  PROVE  [Next]_vars
<1>1. CASE CommandNext
  BY <1>1, CommandCases, RegisterIsStep, TransferIsStep, CloneIsStep, RewriteIsStep,
     IdleIsStutter
<1>2. CASE UNCHANGED commandVars
  BY <1>2 DEF commandVars
<1> QED
  BY <1>1, <1>2

(* A run moves on by one place, and only from where it was; it notes an     *)
(* owner once, before it can be done.                                       *)
LEMMA RunsStayTyped ==
  ASSUME TokenInv, RunsTyped, [CommandNext]_commandVars
  PROVE  /\ RunsTyped'
         /\ \A r \in Runs : TookIt(r)' => TookIt(r) \/ SendTransfer(r)
<1>1. tokens[INITIAL].owner \in Accounts
  BY DEF TokenInv, TypeOK, TokenData, INITIAL
<1>2. ASSUME NEW r \in Runs, NEW where \in {"registered", "owned", "done", "failed"},
             Goto(r, where),
             from' = from \/ /\ where = "owned"
                             /\ from' = [from EXCEPT ![r] = tokens[INITIAL].owner],
             where = "done" => Kind[r] # "transfer" \/ SendTransfer(r)
      PROVE  /\ RunsTyped'
             /\ \A q \in Runs : TookIt(q)' => TookIt(q) \/ SendTransfer(q)
  <2>1. /\ pc' \in [Runs -> {"start", "registered", "owned", "done", "failed"}]
        /\ pc'[r] = where /\ \A q \in Runs : q # r => pc'[q] = pc[q]
    BY <1>2 DEF Goto, RunsTyped
  <2>2. from' \in [Runs -> Accounts] /\ \A q \in Runs : q # r => from'[q] = from[q]
    BY <1>1, <1>2 DEF RunsTyped
  <2>3. \A q \in Runs : q # r => (TookIt(q)' => TookIt(q))
    BY <2>1, <2>2 DEF TookIt
  <2>4. TookIt(r)' => SendTransfer(r)
    BY <1>2, <2>1 DEF TookIt
  <2> QED
    BY <2>1, <2>2, <2>3, <2>4 DEF RunsTyped
<1>3. ASSUME UNCHANGED <<pc, from>>
      PROVE  /\ RunsTyped'
             /\ \A q \in Runs : TookIt(q)' => TookIt(q) \/ SendTransfer(q)
  BY <1>3 DEF RunsTyped, TookIt
<1>4. CASE \E r \in Runs : Register(r) \/ DemoRegister(r)
  BY <1>2, <1>4 DEF Register, DemoRegister, Outcome
<1>5. CASE \E r \in Runs : SendTransfer(r)
  BY <1>2, <1>5 DEF SendTransfer, Outcome
<1>6. CASE \E r \in Runs : SendClone(r) \/ DemoRotate(r)
  BY <1>2, <1>6 DEF SendClone, DemoRotate, Outcome
<1>7. CASE \E r \in Runs : ReadOwner(r)
  BY <1>2, <1>7 DEF ReadOwner
<1>8. CASE \E r \in Runs : Reverted(r) \/ Unsent(r)
  BY <1>2, <1>8 DEF Reverted, Unsent, Fail
<1>9. CASE \/ \E r \in Runs : RegisteredByHand(r)
           \/ \E uri \in Uris \ {EmptyUri, DemoUri} : EncryptMetadata(uri) \/ InitializeFund(uri)
  BY <1>3, <1>9 DEF RegisteredByHand, EncryptMetadata, InitializeFund
<1>10. CASE UNCHANGED commandVars
  BY <1>3, <1>10 DEF commandVars
<1> QED
  BY <1>4, <1>5, <1>6, <1>7, <1>8, <1>9, <1>10 DEF CommandNext, Step

(* Only a transfer moves the initial token, and seals a key with it.        *)
LEMMA OwnerMoves ==
  ASSUME CommandInv, [CommandNext]_commandVars
  PROVE  \/ /\ tokens'[INITIAL].owner = tokens[INITIAL].owner
            /\ sealedKeys'[INITIAL] = sealedKeys[INITIAL]
         \/ \E r \in Runs :
              /\ SendTransfer(r) /\ tokens[INITIAL].owner = from[r]
              /\ tokens'[INITIAL].owner = Receiver[r]
              /\ sealedKeys'[INITIAL][Receiver[r]] = SealedKey[r]
<1>1. ASSUME NEW r \in Runs, SendTransfer(r)
      PROVE  /\ tokens[INITIAL].owner = from[r]
             /\ tokens'[INITIAL].owner = Receiver[r]
             /\ sealedKeys'[INITIAL][Receiver[r]] = SealedKey[r]
  <2>1. Transfer(from[r], Receiver[r], INITIAL, SealedKey[r], ProofOf[r])
    BY <1>1, TransferIsStep DEF CommandInv
  <2>2. INITIAL \in DOMAIN tokens /\ tokens[INITIAL] \in TokenData
    BY DEF CommandInv, TokenInv, TypeOK, INITIAL
  <2>3. tokens'[INITIAL].owner = Receiver[r]
    BY <2>1, <2>2 DEF Transfer, TokenData
  <2>4. sealedKeys' = [sealedKeys EXCEPT ![INITIAL][Receiver[r]] = SealedKey[r]]
    BY <2>1, BundleTyped DEF Transfer, Publish
  <2> QED
    BY <2>1, <2>3, <2>4, InitialToken, BundleTyped DEF Transfer, CommandInv, TokenInv, TypeOK
<1>2. ASSUME NEW r \in Runs, SendClone(r)
      PROVE  /\ tokens'[INITIAL].owner = tokens[INITIAL].owner
             /\ sealedKeys'[INITIAL] = sealedKeys[INITIAL]
  <2>1. Clone(Deployer, Receiver[r], INITIAL, SealedKey[r], ProofOf[r])
    BY <1>2, CloneIsStep
  <2>2. nextTokenId \in Nat /\ nextTokenId >= 2
    BY TokenAssumption DEF CommandInv, TokenInv, TypeOK
  <2>3. tokens'[INITIAL] = tokens[INITIAL]
    BY <2>1, <2>2 DEF Clone, MintNext, INITIAL
  <2>4. sealedKeys'[INITIAL] = sealedKeys[INITIAL]
    BY <2>1, <2>2, InitialToken DEF Clone, Publish, INITIAL, CommandInv, TokenInv, TypeOK
  <2> QED
    BY <2>3, <2>4
<1>3. CASE UNCHANGED vars
  BY <1>3 DEF vars, tokenVars
<1>4. CASE UNCHANGED commandVars
  BY <1>3, <1>4 DEF commandVars
<1>5. CASE CommandNext
  BY <1>1, <1>2, <1>3, <1>5, CommandCases, RegisterIsStep, RewriteIsStep, IdleIsStutter
     DEF CommandInv
<1> QED
  BY <1>4, <1>5

LEMMA CommandStepKeeps ==
  ASSUME CommandInv, [CommandNext]_commandVars
  PROVE  CommandInv'
<1>1. TokenInv'
  BY CommandIsStep, TokenStep DEF CommandInv
<1>2. /\ RunsTyped'
      /\ \A r \in Runs : TookIt(r)' => TookIt(r) \/ SendTransfer(r)
  BY RunsStayTyped DEF CommandInv
<1>3. OwnerHoldsKey'
  BY OwnerMoves DEF CommandInv, OwnerHoldsKey
<1>4. ASSUME NoneComesBack, NEW r \in Runs, SendTransfer(r)
      PROVE  /\ \A q \in Runs : q # r => ~SendTransfer(q)
             /\ tokens[INITIAL].owner = from[r]
             /\ tokens'[INITIAL].owner # Deployer
  <2>1. /\ Transfer(from[r], Receiver[r], INITIAL, SealedKey[r], ProofOf[r])
        /\ INITIAL \in DOMAIN tokens /\ tokens[INITIAL] \in TokenData
    BY <1>4, TransferIsStep DEF CommandInv, TokenInv, TypeOK, INITIAL
  <2>2. tokens[INITIAL].owner = from[r] /\ tokens'[INITIAL].owner = Receiver[r]
    BY <2>1 DEF Transfer, TokenData
  <2>3. ASSUME NEW q \in Runs, q # r, SendTransfer(q) PROVE FALSE
    <3>1. pc[q] = "owned" /\ pc'[q] # "owned"
      BY <2>3 DEF SendTransfer, Outcome, Goto, CommandInv, RunsTyped
    <3>2. pc'[q] = pc[q]
      BY <1>4, <2>3 DEF SendTransfer, Outcome, Goto, CommandInv, RunsTyped
    <3> QED
      BY <3>1, <3>2
  <2> QED
    BY <1>4, <2>2, <2>3 DEF NoneComesBack
<1>5. SoldAway'
  <2> SUFFICES ASSUME NoneComesBack, NEW r \in Runs, TookIt(r)'
               PROVE  tokens'[INITIAL].owner # Deployer
    BY DEF SoldAway, NoneComesBack
  <2>1. CASE TookIt(r)
    <3>1. tokens[INITIAL].owner # Deployer
      BY <2>1 DEF CommandInv, SoldAway
    <3> QED
      BY <3>1, OwnerMoves DEF NoneComesBack
  <2>2. CASE SendTransfer(r)
    BY <1>4, <2>2
  <2> QED
    BY <1>2, <2>1, <2>2
<1>6. SoldOnce'
  <2> SUFFICES ASSUME NoneComesBack, NEW r \in Runs, NEW q \in Runs, TookIt(r)', TookIt(q)'
               PROVE  r = q
    BY DEF SoldOnce, NoneComesBack, TookIt
  <2>1. CASE TookIt(r) /\ TookIt(q)
    BY <2>1 DEF CommandInv, SoldOnce, NoneComesBack, TookIt
  <2>2. ASSUME NEW x \in Runs, NEW y \in Runs, SendTransfer(x), TookIt(x)', TookIt(y)
        PROVE  FALSE
    <3>1. from'[x] = Deployer /\ from' = from
      BY <2>2 DEF TookIt, SendTransfer
    <3>2. tokens[INITIAL].owner = Deployer
      BY <1>4, <2>2, <3>1
    <3> QED
      BY <2>2, <3>2 DEF CommandInv, SoldAway
  <2>3. CASE SendTransfer(r) /\ SendTransfer(q)
    BY <1>4, <2>3
  <2> QED
    BY <1>2, <2>1, <2>2, <2>3
<1> QED
  BY <1>1, <1>2, <1>3, <1>5, <1>6 DEF CommandInv

LEMMA CommandInductive == CommandSpec => []CommandInv
<1>1. CommandInv /\ [CommandNext]_commandVars => CommandInv'
  BY CommandStepKeeps
<1> QED
  BY <1>1, CommandInvInit, PTL DEF CommandSpec

(* The commands implement the token: overlapping, failing or overtaking     *)
(* each other, they do nothing to it that its contract does not provide for,*)
(* so what is proved of the token holds of them.                            *)
THEOREM CommandsImplementToken == CommandSpec => Spec
<1>1. CommandInit => Init
  BY DEF CommandInit
<1>2. CommandInv /\ [CommandNext]_commandVars => [Next]_vars
  BY CommandIsStep DEF CommandInv
<1> QED
  BY <1>1, <1>2, CommandInductive, PTL DEF CommandSpec, Spec

(* Whoever has the token holds a key sealed for them, for any runs of the   *)
(* commands in any order, with any of them lost half-way.                   *)
THEOREM CommandOwnerHoldsKey == CommandSpec => []OwnerHoldsKey
<1>1. CommandInv => OwnerHoldsKey
  BY DEF CommandInv
<1> QED
  BY <1>1, CommandInductive, PTL

(* Of any number of transfers that found the token with the deployer, one   *)
(* takes it from there, when none of them brings it back.                   *)
THEOREM CommandSoldOnce == CommandSpec => []SoldOnce
<1>1. CommandInv => SoldOnce
  BY DEF CommandInv
<1> QED
  BY <1>1, CommandInductive, PTL
=============================================================================
