------------------------------ MODULE AuditTrail -------------------------------
(***************************************************************************)
(* packages/audit/src and contracts/MemoriaRegistry.sol: a writer uploads a *)
(* record to the storage network, then appends its root to the registry.    *)
(* The writers are processes that send from one wallet, the deployer's: its *)
(* transactions are mined in the order of their nonces, some after their    *)
(* sender stopped waiting; of two with one nonce only one is ever mined.    *)
(***************************************************************************)
EXTENDS Naturals, Sequences, FiniteSets

CONSTANTS
  Writers,
  Wallets,
  Signer,         \* the wallet the writers send from
  RegistryOwner,  \* the wallet that deployed the registry
  Records,        \* what may be anchored
  NoRecord,
  MaxAgents       \* bound: times setAgent is called

ASSUME AuditAssumption ==
  {Signer, RegistryOwner} \subseteq Wallets /\ MaxAgents \in Nat

VARIABLES
  agent,     \* the registry's agent
  roots,     \* the registry: <<writer, record>> pairs in order
  stored,    \* records the storage network holds (external)
  unmined,   \* the wallet's transactions: <<writer, record>> pairs in order
  draft,     \* per writer, the record being anchored
  anchoring, \* per writer, how far anchorAuditRecord has got
  agents     \* times the agent was changed

auditVars == <<agent, roots, stored, unmined, draft, anchoring, agents>>

AuditTypeOK ==
  /\ agent \in Wallets
  /\ roots \in Seq(Writers \X Records)
  /\ stored \subseteq Records
  /\ unmined \in Seq(Writers \X Records)
  /\ draft \in [Writers -> Records \cup {NoRecord}]
  /\ anchoring \in [Writers -> {"no", "uploading", "sending", "waiting",
                                "anchored", "failed"}]
  /\ agents \in 0 .. MaxAgents

(* Deployed for the writers' wallet.                                        *)
AuditInit ==
  /\ agent = Signer
  /\ roots = <<>>
  /\ stored = {}
  /\ unmined = <<>>
  /\ draft = [w \in Writers |-> NoRecord]
  /\ anchoring = [w \in Writers |-> "no"]
  /\ agents = 0

Proceed(w, state) == anchoring' = [anchoring EXCEPT ![w] = state]

StartAnchor(w, record) ==
  /\ anchoring[w] \in {"no", "anchored", "failed"}
  /\ draft' = [draft EXCEPT ![w] = record]
  /\ Proceed(w, "uploading")
  /\ UNCHANGED <<agent, roots, stored, unmined, agents>>

(* Fault: the root is sent without waiting for the upload.                  *)
UploadLater(w) ==
  /\ anchoring[w] = "uploading"
  /\ Proceed(w, "sending")
  /\ UNCHANGED <<agent, roots, stored, unmined, draft, agents>>

Upload(w) ==
  /\ anchoring[w] = "uploading"
  /\ stored' = stored \cup {draft[w]}
  /\ Proceed(w, "sending")
  /\ UNCHANGED <<agent, roots, unmined, draft, agents>>

(* The upload reports an error, whether or not the network has the record.   *)
(* It may also go on for ever.                                              *)
UploadFails(w) ==
  /\ anchoring[w] = "uploading"
  /\ stored' \in {stored, stored \cup {draft[w]}}
  /\ Proceed(w, "failed")
  /\ UNCHANGED <<agent, roots, unmined, draft, agents>>

MayUpdate == Signer \in {agent, RegistryOwner}

SendRoot(w) ==
  /\ anchoring[w] = "sending"
  /\ unmined' = Append(unmined, <<w, draft[w]>>)
  /\ Proceed(w, "waiting")
  /\ UNCHANGED <<agent, roots, stored, draft, agents>>

(* No connection, the nonce is taken, or the gas estimate reverts.          *)
SendFails(w) ==
  /\ anchoring[w] = "sending"
  /\ Proceed(w, "failed")
  /\ UNCHANGED <<agent, roots, stored, unmined, draft, agents>>

(* Fault: the root is sent again.                                           *)
WaitRetries(w) ==
  /\ anchoring[w] = "waiting"
  /\ Len(unmined) < 2
  /\ Proceed(w, "sending")
  /\ UNCHANGED <<agent, roots, stored, unmined, draft, agents>>

(* The wait for the receipt throws; the transaction stays where it is.  No   *)
(* time-out makes it throw, the wait may last for ever.                     *)
WaitFails(w) ==
  /\ anchoring[w] = "waiting"
  /\ Proceed(w, "failed")
  /\ UNCHANGED <<agent, roots, stored, unmined, draft, agents>>

(* updateRoot is mined, or reverts; its writer learns it if still waiting.  *)
MineRoot ==
  /\ unmined # <<>>
  /\ unmined' = Tail(unmined)
  /\ roots' = IF MayUpdate THEN Append(roots, Head(unmined)) ELSE roots
  /\ LET w == Head(unmined)[1]
     IN IF anchoring[w] = "waiting" /\ draft[w] = Head(unmined)[2]
        THEN Proceed(w, IF MayUpdate THEN "anchored" ELSE "failed")
        ELSE UNCHANGED anchoring
  /\ UNCHANGED <<agent, stored, draft, agents>>

(* The other process's transaction with the same nonce took its place.      *)
LoseRoot ==
  /\ Len(unmined) > 1
  /\ unmined[1][1] # unmined[2][1]
  /\ unmined' = Tail(unmined)
  /\ UNCHANGED <<agent, roots, stored, draft, anchoring, agents>>

SetAgent(wallet) ==
  /\ agents < MaxAgents /\ wallet # agent
  /\ agent' = wallet
  /\ agents' = agents + 1
  /\ UNCHANGED <<roots, stored, unmined, draft, anchoring>>

AnchorStep(w) ==
  Upload(w) \/ UploadFails(w) \/ SendRoot(w) \/ SendFails(w) \/ WaitFails(w)

-----------------------------------------------------------------------------
(* A root in the registry has its record in storage, and what a writer      *)
(* reports as anchored is in the registry, whoever else writes to it.       *)
(* anchor.ts uploads before it sends and returns after the receipt.         *)
AnchoredIsStored ==
  /\ \A k \in DOMAIN roots : roots[k][2] \in stored
  /\ \A w \in Writers :
       anchoring[w] = "anchored" => \E k \in DOMAIN roots : roots[k] = <<w, draft[w]>>

(* The roots of one writer are in the order of its cycles and no cycle has  *)
(* two, also when receipts are given up on: latestRoot never goes back.     *)
RootsInOrder ==
  \A j, k \in DOMAIN roots :
    j < k /\ roots[j][1] = roots[k][1] => roots[j][2].cycle < roots[k][2].cycle
=============================================================================
