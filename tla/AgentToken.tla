------------------------------ MODULE AgentToken ------------------------------
(***************************************************************************)
(* The agent token of PhronesisFund.sol (ownership, metadata, sealed keys,  *)
(* usage grants) and the PhronesisOracle.sol that attests re-encryptions.   *)
(*                                                                         *)
(* A proof is a value with the hash its first 32 bytes spell, HashOf[p], or *)
(* NoHash if it is shorter.  The old hash of a registered transfer is left  *)
(* out: it is stored and returned, and no code looks at it.  Permissions of *)
(* a grant are left out likewise.  A transaction that reverts is no step.   *)
(***************************************************************************)
EXTENDS Naturals

CONSTANTS
  Accounts, Deployer,
  Hashes, ZeroHash, NoHash,
  Uris, EmptyUri,
  Keys, NoKey,
  Proofs, HashOf,
  Executors, Investors,
  MaxTokens,      \* bound on clones
  MaxTime         \* bound on block.timestamp

ASSUME TokenAssumption ==
  /\ Deployer \in Accounts
  /\ ZeroHash \in Hashes /\ NoHash \notin Hashes
  /\ EmptyUri \in Uris /\ NoKey \in Keys
  /\ HashOf \in [Proofs -> Hashes \cup {NoHash}]
  /\ MaxTokens \in Nat \ {0}
  /\ MaxTime \in Nat

INITIAL == 1
TokenIds == 1 .. MaxTokens

VARIABLES
  fundOwner, config,      \* of the fund: what it was before there were tokens
  tokens,                 \* token id |-> TokenData
  nextTokenId,
  sealedKeys,             \* token id |-> holder |-> key
  executorAuth,           \* pairs <<token id, executor>> granted
  investorAuth,           \* investor |-> active, expiresAt
  oracleOwner,
  verifiedProofs,
  transferProofs,         \* proof |-> registered, newDataHash, receiverHasAccess
  timestamp

oracleVars == <<oracleOwner, verifiedProofs, transferProofs>>
grantVars == <<executorAuth, investorAuth>>
tokenVars == <<fundOwner, config, tokens, nextTokenId, sealedKeys>>
vars == <<tokenVars, grantVars, oracleVars, timestamp>>

Config == [metadataHash : Hashes, encryptedURI : Uris]
TokenData == [owner : Accounts, metadataHash : Hashes, encryptedURI : Uris,
              clonedFrom : 0 .. MaxTokens]

TypeOK ==
  /\ fundOwner \in Accounts
  /\ config \in Config
  /\ nextTokenId \in 2 .. MaxTokens + 1
  /\ tokens \in [1 .. nextTokenId - 1 -> TokenData]
  /\ sealedKeys \in [TokenIds -> [Accounts -> Keys]]
  /\ executorAuth \subseteq TokenIds \X Executors
  /\ investorAuth \in [Investors -> [active : BOOLEAN, expiresAt : 0 .. MaxTime]]
  /\ oracleOwner \in Accounts
  /\ verifiedProofs \subseteq Proofs
  /\ transferProofs \in
       [Proofs -> [registered : BOOLEAN, newDataHash : Hashes, receiverHasAccess : BOOLEAN]]
  /\ timestamp \in 0 .. MaxTime

(* One account deploys the oracle and then the fund.                        *)
Init ==
  /\ fundOwner = Deployer
  /\ config = [metadataHash |-> ZeroHash, encryptedURI |-> EmptyUri]
  /\ nextTokenId = INITIAL + 1
  /\ tokens = [t \in {INITIAL} |-> [owner |-> Deployer, metadataHash |-> ZeroHash,
                                    encryptedURI |-> EmptyUri, clonedFrom |-> 0]]
  /\ sealedKeys = [t \in TokenIds |-> [a \in Accounts |-> NoKey]]
  /\ executorAuth = {}
  /\ investorAuth = [i \in Investors |-> [active |-> FALSE, expiresAt |-> 0]]
  /\ oracleOwner = Deployer
  /\ verifiedProofs = {}
  /\ transferProofs = [p \in Proofs |->
       [registered |-> FALSE, newDataHash |-> ZeroHash, receiverHasAccess |-> FALSE]]
  /\ timestamp = 0

Exists(t) == t \in DOMAIN tokens

-----------------------------------------------------------------------------
(* The oracle.                                                              *)

RegisterProof(sender, p) ==
  /\ sender = oracleOwner
  /\ verifiedProofs' = verifiedProofs \cup {p}
  /\ UNCHANGED <<oracleOwner, transferProofs, tokenVars, grantVars, timestamp>>

RegisterTransferProof(sender, p, new, access) ==
  /\ sender = oracleOwner
  /\ verifiedProofs' = verifiedProofs \cup {p}
  /\ transferProofs' = [transferProofs EXCEPT ![p] =
       [registered |-> TRUE, newDataHash |-> new, receiverHasAccess |-> access]]
  /\ UNCHANGED <<oracleOwner, tokenVars, grantVars, timestamp>>

TransferOwnership(sender, to) ==
  /\ sender = oracleOwner
  /\ oracleOwner' = to
  /\ UNCHANGED <<verifiedProofs, transferProofs, tokenVars, grantVars, timestamp>>

VerifyProof(p) == p \in verifiedProofs

(* Fault: the hash asked about is not compared with the registered one.     *)
HasAccessForAnyHash(p, hash) ==
  /\ transferProofs[p].registered /\ VerifyProof(p)
  /\ transferProofs[p].receiverHasAccess

(* verifyTransferValidity(...).receiverHasAccess; when it is true the hash  *)
(* returned is the hash asked about.                                        *)
HasAccess(p, hash) ==
  /\ transferProofs[p].registered /\ VerifyProof(p)
  /\ transferProofs[p].newDataHash = hash
  /\ transferProofs[p].receiverHasAccess

(* What transfer and clone ask of a proof.                                  *)
Accepted(p) == VerifyProof(p) /\ HashOf[p] # NoHash /\ HasAccess(p, HashOf[p])

-----------------------------------------------------------------------------
(* The token.                                                               *)

WriteMetadata(hash, uri) ==
  /\ config' = [metadataHash |-> hash, encryptedURI |-> uri]
  /\ tokens' = [tokens EXCEPT ![INITIAL].metadataHash = hash, ![INITIAL].encryptedURI = uri]

(* initialize and setMetadata.                                              *)
SetMetadata(sender, hash, uri) ==
  /\ sender = fundOwner
  /\ WriteMetadata(hash, uri)
  /\ UNCHANGED <<fundOwner, nextTokenId, sealedKeys, grantVars, oracleVars, timestamp>>

RotateMetadata(sender, hash, uri, p) ==
  /\ sender = fundOwner
  /\ HasAccess(p, hash)
  /\ WriteMetadata(hash, uri)
  /\ UNCHANGED <<fundOwner, nextTokenId, sealedKeys, grantVars, oracleVars, timestamp>>

(* Fault: the key is filed under the owner the token had.                   *)
PublishToSeller(t, holder, key) ==
  sealedKeys' = IF key = NoKey THEN sealedKeys
                ELSE [sealedKeys EXCEPT ![t][IF Exists(t) THEN tokens[t].owner ELSE holder] = key]

(* A holder's key is replaced, unless the new one is empty.                 *)
Publish(t, holder, key) ==
  sealedKeys' = IF key = NoKey THEN sealedKeys ELSE [sealedKeys EXCEPT ![t][holder] = key]

(* Fault: the initial token changes hands and the fund does not.            *)
TransferTokenOnly(from, to, t, key, p) ==
  /\ Exists(t)
  /\ tokens[t].owner = from
  /\ Accepted(p)
  /\ tokens' = [tokens EXCEPT ![t].owner = to, ![t].metadataHash = HashOf[p]]
  /\ Publish(t, to, key)
  /\ UNCHANGED <<fundOwner, config, nextTokenId, grantVars, oracleVars, timestamp>>

(* Fault: the token is taken from whoever has it.                           *)
TransferFromAnybody(from, to, t, key, p) ==
  /\ Exists(t)
  /\ Accepted(p)
  /\ tokens' = [tokens EXCEPT ![t].owner = to, ![t].metadataHash = HashOf[p]]
  /\ Publish(t, to, key)
  /\ IF t = INITIAL
     THEN /\ fundOwner' = to
          /\ config' = [config EXCEPT !.metadataHash = HashOf[p]]
     ELSE UNCHANGED <<fundOwner, config>>
  /\ UNCHANGED <<nextTokenId, grantVars, oracleVars, timestamp>>

(* transfer: whoever sends it, the proof stands for the consent.            *)
Transfer(from, to, t, key, p) ==
  /\ Exists(t)
  /\ tokens[t].owner = from
  /\ Accepted(p)
  /\ tokens' = [tokens EXCEPT ![t].owner = to, ![t].metadataHash = HashOf[p]]
  /\ Publish(t, to, key)
  /\ IF t = INITIAL
     THEN /\ fundOwner' = to
          /\ config' = [config EXCEPT !.metadataHash = HashOf[p]]
     ELSE UNCHANGED <<fundOwner, config>>
  /\ UNCHANGED <<nextTokenId, grantVars, oracleVars, timestamp>>

(* Fault: the clone keeps the hash of the token it is made from.            *)
CloneDataOldHash(to, t, p) ==
  [owner |-> to, metadataHash |-> tokens[t].metadataHash,
   encryptedURI |-> tokens[t].encryptedURI, clonedFrom |-> t]

CloneData(to, t, p) ==
  [owner |-> to, metadataHash |-> HashOf[p],
   encryptedURI |-> tokens[t].encryptedURI, clonedFrom |-> t]

MintNext(data) ==
  /\ nextTokenId <= MaxTokens
  /\ tokens' = [n \in 1 .. nextTokenId |-> IF n = nextTokenId THEN data ELSE tokens[n]]
  /\ nextTokenId' = nextTokenId + 1

(* clone: the owner of the token, or of the fund, gives a copy away.        *)
Clone(sender, to, t, key, p) ==
  /\ Exists(t)
  /\ sender \in {tokens[t].owner, fundOwner}
  /\ Accepted(p)
  /\ MintNext(CloneData(to, t, p))
  /\ Publish(nextTokenId, to, key)
  /\ UNCHANGED <<fundOwner, config, grantVars, oracleVars, timestamp>>

-----------------------------------------------------------------------------
(* Grants.                                                                  *)

(* authorizeUsage of a token.  There is no function that takes it back.     *)
AuthorizeExecutor(sender, t, executor) ==
  /\ Exists(t)
  /\ tokens[t].owner = sender
  /\ executorAuth' = executorAuth \cup {<<t, executor>>}
  /\ UNCHANGED <<investorAuth, tokenVars, oracleVars, timestamp>>

AuthorizeInvestor(sender, i, expiresAt) ==
  /\ sender = fundOwner
  /\ investorAuth' = [investorAuth EXCEPT ![i] = [active |-> TRUE, expiresAt |-> expiresAt]]
  /\ UNCHANGED <<executorAuth, tokenVars, oracleVars, timestamp>>

RevokeUsage(sender, i) ==
  /\ sender = fundOwner
  /\ investorAuth' = [investorAuth EXCEPT ![i] = [active |-> FALSE, expiresAt |-> 0]]
  /\ UNCHANGED <<executorAuth, tokenVars, oracleVars, timestamp>>

IsAuthorized(i) ==
  /\ investorAuth[i].active
  /\ investorAuth[i].expiresAt = 0 \/ timestamp <= investorAuth[i].expiresAt

Tick ==
  /\ timestamp < MaxTime
  /\ timestamp' = timestamp + 1
  /\ UNCHANGED <<tokenVars, grantVars, oracleVars>>

-----------------------------------------------------------------------------
Attesting(sender) ==
  \/ \E p \in Proofs :
       \/ RegisterProof(sender, p)
       \/ \E new \in Hashes, access \in BOOLEAN : RegisterTransferProof(sender, p, new, access)
  \/ \E to \in Accounts : TransferOwnership(sender, to)

Holding(sender) ==
  \/ \E hash \in Hashes, uri \in Uris :
       \/ SetMetadata(sender, hash, uri)
       \/ \E p \in Proofs : RotateMetadata(sender, hash, uri, p)
  \/ \E t \in TokenIds, to \in Accounts, key \in Keys, p \in Proofs :
       \/ Transfer(sender, to, t, key, p)
       \/ Clone(sender, to, t, key, p)

Granting(sender) ==
  \/ \E t \in TokenIds, x \in Executors : AuthorizeExecutor(sender, t, x)
  \/ \E i \in Investors :
       RevokeUsage(sender, i) \/ \E e \in 0 .. MaxTime : AuthorizeInvestor(sender, i, e)

Next ==
  \/ \E sender \in Accounts : Attesting(sender) \/ Holding(sender) \/ Granting(sender)
  \/ Tick

Spec == Init /\ [][Next]_vars

-----------------------------------------------------------------------------
(* Properties.                                                              *)

(* The fund keeps its owner and metadata twice, as a fund and as token 1:   *)
(* whatever initialises, rotates, transfers or clones, the two agree.       *)
FundIsToken ==
  /\ fundOwner = tokens[INITIAL].owner
  /\ config.metadataHash = tokens[INITIAL].metadataHash
  /\ config.encryptedURI = tokens[INITIAL].encryptedURI

(* A clone carries the hash of a proof the oracle knows, through any number *)
(* of transfers and whatever becomes of the token it was made from.         *)
ClonesAreAttested ==
  \A t \in DOMAIN tokens \ {INITIAL} :
    \E p \in verifiedProofs : HashOf[p] = tokens[t].metadataHash

(* Every clone goes back to the initial token, step by step.                *)
Lineage == \A t \in DOMAIN tokens \ {INITIAL} : tokens[t].clonedFrom \in 1 .. t - 1

(* Control of the fund passes only with a proof that the oracle registered, *)
(* and for the hash the fund then has.                                      *)
HandedOverWithProof ==
  [][fundOwner' # fundOwner =>
       \E p \in Proofs : /\ transferProofs[p].receiverHasAccess
                         /\ transferProofs[p].newDataHash = config'.metadataHash]_vars
=============================================================================
