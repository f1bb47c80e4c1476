--------------------------- MODULE TransferCommands ---------------------------
(***************************************************************************)
(* The commands that work on the agent token from the deployer's wallet:    *)
(* transfer-cli.ts (transfer and clone) and encrypt-metadata and            *)
(* transfer-demo of tokenization/src/cli.ts.  A transfer run re-encrypts    *)
(* the metadata in the fixture file under a new secret, seals that for its  *)
(* receiver, registers the proof with the oracle and calls the fund.  The   *)
(* hash is of the plain text: it is the fixture's, whatever the run.  Runs  *)
(* may overlap, and each call may fail before or after its effect.          *)
(***************************************************************************)
EXTENDS AgentToken

CONSTANTS
  Runs,
  Kind,         \* run |-> "transfer", "clone" or "demo"
  Receiver,     \* run |-> account
  ProofOf,      \* run |-> the proof it makes
  FixtureHash,  \* of the metadata in encrypted-metadata.json
  DemoHash,     \* of the metadata the demo builds
  DemoUri,      \* and where that is uploaded
  SealedKey,    \* run |-> the key of its new secret, sealed for the receiver
  OwnKey        \* the key of FUND_ENCRYPTION_KEY

NewHash == [r \in Runs |-> IF Kind[r] = "demo" THEN DemoHash ELSE FixtureHash]

ASSUME CommandAssumption ==
  /\ Kind \in [Runs -> {"transfer", "clone", "demo"}]
  /\ Receiver \in [Runs -> Accounts]
  /\ ProofOf \in [Runs -> Proofs]
  /\ {FixtureHash, DemoHash} \subseteq Hashes /\ DemoUri \in Uris
  /\ SealedKey \in [Runs -> Keys \ {NoKey}]
  /\ OwnKey \notin Keys
  \* encodeProofForContract puts the hash first; the demo's proof is 31 bytes
  /\ \A r \in Runs : HashOf[ProofOf[r]] = IF Kind[r] = "demo" THEN NoHash ELSE NewHash[r]

VARIABLES
  pc,        \* run |-> where it is
  from,      \* run |-> the owner it has read
  stored,    \* what is uploaded: address and the key that opens it
  fixture    \* encrypted-metadata.json: absent, saved, or its fund initialized

commandVars == <<vars, pc, from, stored, fixture>>

CommandTypeOK ==
  /\ TypeOK
  /\ pc \in [Runs -> {"start", "registered", "owned", "done", "failed"}]
  /\ from \in [Runs -> Accounts]
  /\ stored \subseteq (Uris \X (Keys \cup {OwnKey}))
  /\ fixture \in {"absent", "saved", "done"}

CommandInit ==
  /\ Init
  /\ pc = [r \in Runs |-> "start"]
  /\ from = [r \in Runs |-> Deployer]
  /\ stored = {}
  /\ fixture = "absent"

(* encrypt-metadata: upload and fixture.  Once: a later run would replace   *)
(* the fixture, and its hash, for the runs that follow.                     *)
EncryptMetadata(uri) ==
  /\ fixture = "absent"
  /\ stored' = stored \cup {<<uri, OwnKey>>}
  /\ fixture' = "saved"
  /\ UNCHANGED <<vars, pc, from>>

(* Its call of initialize, which reverts when the deployer no longer owns   *)
(* the fund, and may fail for other reasons.                                *)
InitializeFund(uri) ==
  /\ fixture = "saved" /\ <<uri, OwnKey>> \in stored
  /\ fixture' = "done"
  /\ \/ SetMetadata(Deployer, FixtureHash, uri)
     \/ UNCHANGED vars
  /\ UNCHANGED <<pc, from, stored>>

Goto(r, where) == pc' = [pc EXCEPT ![r] = where]

(* The answer to a transaction may not arrive: then the run ends.           *)
Outcome(r, where) == Goto(r, where) \/ Goto(r, "failed")

(* The fixture under a new secret, the secret sealed for the receiver; a     *)
(* bundle always has receiverHasAccess.                                     *)
ProcessTransfer(r) ==
  [hash |-> NewHash[r], sealedKey |-> SealedKey[r], proof |-> ProofOf[r],
   receiverHasAccess |-> TRUE]

Register(r) ==
  /\ pc[r] = "start" /\ Kind[r] # "demo"
  /\ fixture # "absent"
  /\ LET bundle == ProcessTransfer(r)
     IN RegisterTransferProof(Deployer, bundle.proof, bundle.hash,
                              bundle.receiverHasAccess)
  /\ Outcome(r, "registered")
  /\ UNCHANGED <<from, stored, fixture>>

(* The demo's steps 1 and 2: its metadata, under the same secret, is        *)
(* uploaded and the proof registered.                                       *)
DemoRegister(r) ==
  /\ pc[r] = "start" /\ Kind[r] = "demo"
  /\ stored' = stored \cup {<<DemoUri, OwnKey>>}
  /\ RegisterProof(Deployer, ProofOf[r])
  /\ Outcome(r, "owned")
  /\ UNCHANGED <<from, fixture>>

(* fund.ownerOf                                                             *)
ReadOwner(r) ==
  /\ pc[r] = "registered" /\ Kind[r] = "transfer"
  /\ from' = [from EXCEPT ![r] = tokens[INITIAL].owner]
  /\ Goto(r, "owned")
  /\ UNCHANGED <<vars, stored, fixture>>

FundTransfer(r) ==
  LET bundle == ProcessTransfer(r)
  IN Transfer(from[r], Receiver[r], INITIAL, bundle.sealedKey, bundle.proof)

CanTransfer(r) == tokens[INITIAL].owner = from[r] /\ Accepted(ProofOf[r])

SendTransfer(r) ==
  /\ pc[r] = "owned" /\ Kind[r] = "transfer"
  /\ FundTransfer(r)
  /\ Outcome(r, "done")
  /\ UNCHANGED <<from, stored, fixture>>

FundClone(r) ==
  LET bundle == ProcessTransfer(r)
  IN Clone(Deployer, Receiver[r], INITIAL, bundle.sealedKey, bundle.proof)

CanClone(r) ==
  /\ Deployer \in {tokens[INITIAL].owner, fundOwner}
  /\ Accepted(ProofOf[r])
  /\ nextTokenId <= MaxTokens

SendClone(r) ==
  /\ pc[r] = "registered" /\ Kind[r] = "clone"
  /\ FundClone(r)
  /\ Outcome(r, "done")
  /\ UNCHANGED <<from, stored, fixture>>

(* The demo's step 3: rotateFundMetadata.                                   *)
DemoRotate(r) ==
  /\ pc[r] = "owned" /\ Kind[r] = "demo"
  /\ RotateMetadata(Deployer, NewHash[r], DemoUri, ProofOf[r])
  /\ Outcome(r, "done")
  /\ UNCHANGED <<from, stored, fixture>>

CanRotate(r) == Deployer = fundOwner /\ HasAccess(ProofOf[r], NewHash[r])

(* Fault: a run that lost the token meanwhile waits for its turn.           *)
RevertsUnlessSold(r) ==
  \/ pc[r] = "start" /\ (Deployer # oracleOwner \/ (Kind[r] # "demo" /\ fixture = "absent"))
  \/ pc[r] = "registered" /\ Kind[r] = "clone" /\ ~CanClone(r)
  \/ pc[r] = "owned" /\ Kind[r] = "demo" /\ ~CanRotate(r)

Reverts(r) ==
  \/ pc[r] = "start" /\ (Deployer # oracleOwner \/ (Kind[r] # "demo" /\ fixture = "absent"))
  \/ pc[r] = "owned" /\ Kind[r] = "transfer" /\ ~CanTransfer(r)
  \/ pc[r] = "registered" /\ Kind[r] = "clone" /\ ~CanClone(r)
  \/ pc[r] = "owned" /\ Kind[r] = "demo" /\ ~CanRotate(r)

(* A transaction that reverts, or a call that does not get through.         *)
Fail(r) ==
  /\ Goto(r, "failed")
  /\ UNCHANGED <<vars, from, stored, fixture>>

Reverted(r) == Reverts(r) /\ Fail(r)
Unsent(r) == pc[r] \in {"start", "registered", "owned"} /\ Fail(r)

Step(r) ==
  \/ Register(r) \/ ReadOwner(r) \/ SendTransfer(r) \/ SendClone(r)
  \/ DemoRegister(r) \/ DemoRotate(r)
  \/ Reverted(r)

(* The demo's proof is one text: it may have been registered as a transfer  *)
(* by other means, for whatever hash.                                       *)
RegisteredByHand(r) ==
  /\ Kind[r] = "demo"
  /\ RegisterTransferProof(Deployer, ProofOf[r], NewHash[r], TRUE)
  /\ UNCHANGED <<pc, from, stored, fixture>>

CommandNext ==
  \/ \E r \in Runs : Step(r) \/ Unsent(r) \/ RegisteredByHand(r)
  \/ \E uri \in Uris \ {EmptyUri, DemoUri} : EncryptMetadata(uri) \/ InitializeFund(uri)

CommandSpec == CommandInit /\ [][CommandNext]_commandVars

(* A run goes on until it ends.                                             *)
FairCommandSpec == CommandSpec /\ \A r \in Runs : WF_commandVars(Step(r))

(* The commands in their order on a chain that always answers.              *)
Smooth ==
  \/ \E uri \in Uris \ {EmptyUri, DemoUri} :
       EncryptMetadata(uri) \/ (InitializeFund(uri) /\ config' # config)
  \/ fixture = "done" /\ \E r \in Runs : Step(r) /\ (pc'[r] = "failed" => Reverts(r))

SmoothSpec ==
  /\ CommandInit /\ [][Smooth]_commandVars
  /\ WF_commandVars(Smooth)

-----------------------------------------------------------------------------
(* Properties.                                                              *)

(* Whoever the token has been handed to holds a key that was sealed for     *)
(* them, although runs overlap, die half-way or overtake each other.        *)
OwnerHoldsKey ==
  LET owner == tokens[INITIAL].owner
  IN owner # Deployer =>
       \E r \in Runs : Receiver[r] = owner /\ SealedKey[r] = sealedKeys[INITIAL][owner]

(* The deployer's token is taken from the deployer by one run at most,      *)
(* however many have found it there, when none brings it back.              *)
SoldOnce ==
  (\A r \in Runs : Receiver[r] # Deployer) =>
    \A r, q \in Runs :
      /\ Kind[r] = "transfer" /\ pc[r] = "done" /\ from[r] = Deployer
      /\ Kind[q] = "transfer" /\ pc[q] = "done" /\ from[q] = Deployer
      => r = q

(* Every run ends.                                                          *)
RunsEnd == \A r \in Runs : <>(pc[r] \in {"done", "failed"})

(* "4/4 Transfer demo complete" (cli.ts, line 185): on a chain that answers *)
(* and with nobody else at work the demo ends well.                         *)
DemoCompletes == \A r \in Runs : Kind[r] = "demo" => <>(pc[r] = "done")

(* "TEE oracle: decrypt with old key, re-encrypt with new key, seal for      *)
(* receiver." (tee-oracle.ts, line 24): the key sealed for the new owner     *)
(* opens the metadata that the token refers to.                             *)
OwnerCanRead ==
  LET owner == tokens[INITIAL].owner
  IN owner # Deployer =>
       <<tokens[INITIAL].encryptedURI, sealedKeys[INITIAL][owner]>> \in stored
=============================================================================
