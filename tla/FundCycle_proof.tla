--------------------------- MODULE FundCycle_proof ----------------------------
(***************************************************************************)
(* What the daemon and the command line anchor, what a cycle decides on and *)
(* bets, and which fills it reports, for any number of cycles, markets,     *)
(* posts, ticks, orders, flags and wallets.                                 *)
(***************************************************************************)
EXTENDS FundCycle, FiniteSetTheorems, WellFoundedInduction, TLAPS

IsSeq(s) == \E S : s \in Seq(S)

Stages == {"no", "uploading", "sending", "waiting", "anchored", "failed"}

AuditType ==
  /\ IsSeq(roots) /\ IsSeq(unmined)
  /\ \A k \in DOMAIN unmined :
       unmined[k][1] \in Writers /\ unmined[k] = <<unmined[k][1], unmined[k][2]>>
  /\ draft = [w \in Writers |-> draft[w]]
  /\ anchoring \in [Writers -> Stages]
  /\ cycle \in Nat

(* A root is sent after its record was stored.                              *)
SentIsStored ==
  /\ \A k \in DOMAIN unmined : unmined[k][2] \in stored
  /\ \A w \in Writers : anchoring[w] \in {"sending", "waiting", "anchored"} => draft[w] \in stored

(* The cycle under way has sent no root yet.                                *)
Unsent ==
  \/ at \in {"deciding", "relaying", "posting", "tracking", "crossing", "auditing"}
  \/ at = "anchoring" /\ anchoring[Daemon] \in {"uploading", "sending"}

Drafts(w) == anchoring[w] \in {"uploading", "sending"}

DraftOfCycle == Drafts(Daemon) => at = "anchoring" /\ draft[Daemon].cycle = cycle

(* The roots sent are of earlier cycles, those of the daemon; of the        *)
(* command line there is one at most.                                       *)
Earlier(s) ==
  \A k \in DOMAIN s :
    /\ s[k][1] = Daemon =>
         /\ s[k][2].cycle \in Nat /\ s[k][2].cycle <= cycle
         /\ Unsent => s[k][2].cycle < cycle
    /\ s[k][1] = CommandLine => anchoring[CommandLine] \notin {"no", "uploading", "sending"}

Ordered(s) ==
  \A j, k \in DOMAIN s : j < k /\ s[j][1] = s[k][1] => s[j][2].cycle < s[k][2].cycle

Before(s, t) ==
  \A j \in DOMAIN s, k \in DOMAIN t : s[j][1] = t[k][1] => s[j][2].cycle < t[k][2].cycle

InOrder ==
  /\ Ordered(roots) /\ Ordered(unmined) /\ Before(roots, unmined)
  /\ Earlier(roots) /\ Earlier(unmined)
  /\ DraftOfCycle

AuditInv == AuditType /\ SentIsStored /\ AnchoredIsStored /\ InOrder

LEMMA WritersAre == Writers = {Daemon, CommandLine} /\ Daemon # CommandLine
BY DaemonAssumption

(* Sequences.                                                               *)
LEMMA EmptyIsSeq ==
  ASSUME NEW s, s = <<>>
  PROVE  IsSeq(s) /\ DOMAIN s = {}
<1>1. s \in Seq({})
  OBVIOUS
<1>2. Len(s) = 0 /\ DOMAIN s = 1 .. Len(s)
  BY <1>1
<1>3. DOMAIN s = {}
  BY <1>2
<1>4. IsSeq(s)
  BY <1>1 DEF IsSeq
<1> QED
  BY <1>3, <1>4

LEMMA AppendIsSeq ==
  ASSUME NEW s, IsSeq(s), NEW e
  PROVE  /\ IsSeq(Append(s, e))
         /\ Len(s) \in Nat /\ DOMAIN s = 1 .. Len(s)
         /\ DOMAIN Append(s, e) = 1 .. Len(s) + 1
         /\ \A k \in DOMAIN s : Append(s, e)[k] = s[k]
         /\ Append(s, e)[Len(s) + 1] = e
<1>1. PICK S : s \in Seq(S)
  BY DEF IsSeq
<1>2. s \in Seq(S \cup {e})
  BY <1>1
<1>3. Append(s, e) \in Seq(S \cup {e})
  BY <1>2
<1> QED
  BY <1>1, <1>2, <1>3 DEF IsSeq

LEMMA TailIsSeq ==
  ASSUME NEW s, IsSeq(s), s # <<>>
  PROVE  /\ IsSeq(Tail(s))
         /\ Len(s) \in Nat \ {0} /\ DOMAIN s = 1 .. Len(s) /\ Head(s) = s[1]
         /\ DOMAIN Tail(s) = 1 .. Len(s) - 1
         /\ \A k \in DOMAIN Tail(s) : Tail(s)[k] = s[k + 1]
<1>1. PICK S : s \in Seq(S)
  BY DEF IsSeq
<1>2. Tail(s) \in Seq(S) /\ Len(s) \in Nat \ {0}
  BY <1>1
<1> QED
  BY <1>1, <1>2 DEF IsSeq

LEMMA AuditStarts == Init => AuditInv
<1> SUFFICES ASSUME Init PROVE AuditInv
  OBVIOUS
<1>1. /\ roots = <<>> /\ unmined = <<>> /\ at = "idle" /\ cycle = 0
      /\ draft = [w \in Writers |-> NoRecord] /\ anchoring = [w \in Writers |-> "no"]
  BY DEF Init, AuditInit
<1>2. \A w \in Writers : anchoring[w] = "no"
  BY <1>1
<1>3. /\ IsSeq(roots) /\ DOMAIN roots = {}
      /\ IsSeq(unmined) /\ DOMAIN unmined = {}
  BY <1>1, EmptyIsSeq
<1>4. AuditType
  BY <1>1, <1>3 DEF AuditType, Stages
<1>5. SentIsStored /\ AnchoredIsStored
  BY <1>2, <1>3 DEF SentIsStored, AnchoredIsStored
<1>6. InOrder
  BY <1>2, <1>3, WritersAre DEF InOrder, Ordered, Before, Earlier, DraftOfCycle, Drafts
<1> QED
  BY <1>4, <1>5, <1>6 DEF AuditInv

-----------------------------------------------------------------------------
(* The daemon goes on and anchors nothing.                                  *)
LEMMA CycleGoesOn ==
  ASSUME AuditInv, UNCHANGED auditVars,
         \/ cycle' = cycle /\ (Unsent' => Unsent) /\ (at = "anchoring" /\ Drafts(Daemon) => at' = at)
         \/ cycle' = cycle + 1 /\ at # "anchoring"
  PROVE  AuditInv'
<1>1. /\ roots' = roots /\ unmined' = unmined /\ stored' = stored
      /\ draft' = draft /\ anchoring' = anchoring
  BY DEF auditVars
<1>2. cycle \in Nat
  BY DEF AuditInv, AuditType
<1>3. AuditType'
  BY <1>1, <1>2 DEF AuditInv, AuditType
<1>4. SentIsStored' /\ AnchoredIsStored'
  BY <1>1 DEF AuditInv, SentIsStored, AnchoredIsStored
<1>5. DraftOfCycle'
  BY <1>1 DEF AuditInv, InOrder, DraftOfCycle, Drafts
<1>6. ASSUME NEW s, Earlier(s), s' = s
      PROVE  Earlier(s)'
  BY <1>1, <1>2, <1>6 DEF Earlier
<1>7. InOrder'
  BY <1>1, <1>5, <1>6 DEF AuditInv, InOrder, Ordered, Before, Earlier
<1> QED
  BY <1>3, <1>4, <1>7 DEF AuditInv

(* A writer goes on without sending or drafting anything.                   *)
LEMMA WriterGoesOn ==
  ASSUME AuditInv, NEW w \in Writers, NEW st \in Stages \ {"no", "anchored"},
         Proceed(w, st), UNCHANGED <<roots, unmined, draft, cycle>>,
         stored \subseteq stored',
         st \in {"sending", "waiting"} => draft[w] \in stored',
         st \in {"uploading", "sending"} => Drafts(w),
         at' = at \/ (at' = "idle" /\ w = Daemon /\ st = "failed")
  PROVE  AuditInv'
<1>1. /\ anchoring' = [anchoring EXCEPT ![w] = st] /\ anchoring \in [Writers -> Stages]
      /\ anchoring'[w] = st /\ \A v \in Writers : v # w => anchoring'[v] = anchoring[v]
  BY DEF Proceed, AuditInv, AuditType
<1>2. AuditType'
  BY <1>1 DEF AuditInv, AuditType
<1>3. SentIsStored'
  BY <1>1 DEF AuditInv, SentIsStored
<1>4. AnchoredIsStored'
  BY <1>1 DEF AuditInv, AnchoredIsStored
<1>5. (Unsent' => Unsent) /\ DraftOfCycle'
  BY <1>1, WritersAre DEF AuditInv, InOrder, DraftOfCycle, Drafts, Unsent
<1>6. ASSUME NEW s, Earlier(s), s' = s
      PROVE  Earlier(s)'
  BY <1>1, <1>5, <1>6, WritersAre DEF Earlier, Drafts
<1>7. InOrder'
  BY <1>5, <1>6 DEF AuditInv, InOrder, Ordered, Before
<1> QED
  BY <1>2, <1>3, <1>4, <1>7 DEF AuditInv

(* The daemon drafts once a cycle, the command line once.                   *)
LEMMA WriterDrafts ==
  ASSUME AuditInv, NEW w \in Writers, NEW record, StartAnchor(w, record), cycle' = cycle,
         w = Daemon => Unsent /\ at' = "anchoring" /\ record.cycle = cycle,
         w = CommandLine => anchoring[w] = "no" /\ at' = at
  PROVE  AuditInv'
<1>1. /\ anchoring' = [anchoring EXCEPT ![w] = "uploading"] /\ anchoring \in [Writers -> Stages]
      /\ anchoring'[w] = "uploading" /\ \A v \in Writers : v # w => anchoring'[v] = anchoring[v]
      /\ draft'[w] = record /\ \A v \in Writers : v # w => draft'[v] = draft[v]
      /\ roots' = roots /\ unmined' = unmined /\ stored' = stored
  BY DEF StartAnchor, Proceed, AuditInv, AuditType, Stages
<1>2. AuditType'
  <2>1. draft' = [draft EXCEPT ![w] = record]
    BY DEF StartAnchor
  <2>2. draft' = [v \in Writers |-> draft'[v]]
    BY <2>1 DEF AuditInv, AuditType
  <2> QED
    BY <1>1, <2>2 DEF AuditInv, AuditType, Stages
<1>3. SentIsStored'
  BY <1>1 DEF AuditInv, SentIsStored
<1>4. AnchoredIsStored'
  BY <1>1 DEF AuditInv, AnchoredIsStored
<1>5. (Unsent' => Unsent) /\ DraftOfCycle'
  BY <1>1, WritersAre DEF AuditInv, InOrder, DraftOfCycle, Drafts, Unsent
<1>6. ASSUME NEW s, Earlier(s), s' = s
      PROVE  Earlier(s)'
  BY <1>1, <1>5, <1>6, WritersAre DEF Earlier
<1>7. InOrder'
  BY <1>1, <1>5, <1>6 DEF AuditInv, InOrder, Ordered, Before
<1> QED
  BY <1>2, <1>3, <1>4, <1>7 DEF AuditInv

(* A root sent is the only one of its cycle.                                *)
LEMMA WriterSends ==
  ASSUME AuditInv, NEW w \in Writers, SendRoot(w), UNCHANGED <<at, cycle>>
  PROVE  AuditInv'
<1> DEFINE n == Len(unmined)
<1>1. /\ anchoring' = [anchoring EXCEPT ![w] = "waiting"] /\ anchoring \in [Writers -> Stages]
      /\ anchoring'[w] = "waiting" /\ \A v \in Writers : v # w => anchoring'[v] = anchoring[v]
      /\ roots' = roots /\ stored' = stored /\ draft' = draft /\ anchoring[w] = "sending"
  BY DEF SendRoot, Proceed, AuditInv, AuditType, Stages
<1>2. /\ unmined' = Append(unmined, <<w, draft[w]>>)
      /\ IsSeq(unmined') /\ n \in Nat /\ DOMAIN unmined = 1 .. n /\ DOMAIN unmined' = 1 .. n + 1
      /\ \A k \in DOMAIN unmined : unmined'[k] = unmined[k]
      /\ unmined'[n + 1] = <<w, draft[w]>>
  BY AppendIsSeq DEF SendRoot, AuditInv, AuditType
<1> HIDE DEF n
<1>3. \A k \in DOMAIN unmined' : k \in DOMAIN unmined \/ k = n + 1
  BY <1>2
<1>4. AuditType'
  BY <1>1, <1>2, <1>3 DEF AuditInv, AuditType, Stages
<1>5. SentIsStored'
  BY <1>1, <1>2, <1>3 DEF AuditInv, SentIsStored
<1>6. AnchoredIsStored'
  BY <1>1 DEF AuditInv, AnchoredIsStored
<1>7. DraftOfCycle' /\ (Unsent' => Unsent) /\ (w = Daemon => Unsent /\ ~Unsent' /\ draft[w].cycle = cycle)
  BY <1>1, WritersAre DEF AuditInv, InOrder, DraftOfCycle, Drafts, Unsent
<1>8. ASSUME NEW s, Earlier(s), NEW k \in DOMAIN s, s[k][1] = w
      PROVE  s[k][2].cycle < draft[w].cycle
  BY <1>1, <1>7, <1>8, WritersAre DEF Earlier
<1>9. Earlier(roots) /\ Earlier(unmined) /\ Ordered(roots) /\ Ordered(unmined) /\ Before(roots, unmined)
  BY DEF AuditInv, InOrder
<1>10. Earlier(roots)' /\ Ordered(roots)'
  BY <1>1, <1>7, <1>9, WritersAre DEF Earlier, Ordered
<1>11. Earlier(unmined)'
  <2>1. cycle \in Nat
    BY DEF AuditInv, AuditType
  <2> QED
    BY <1>1, <1>2, <1>3, <1>7, <1>9, <2>1, WritersAre DEF Earlier
<1>12. Ordered(unmined)'
  <2> SUFFICES ASSUME NEW j \in DOMAIN unmined', NEW k \in DOMAIN unmined', j < k,
                      unmined'[j][1] = unmined'[k][1]
               PROVE  unmined'[j][2].cycle < unmined'[k][2].cycle
    BY DEF Ordered
  <2>1. j \in DOMAIN unmined
    BY <1>2
  <2>2. CASE k \in DOMAIN unmined
    BY <1>2, <1>9, <2>1, <2>2 DEF Ordered
  <2>3. CASE k = n + 1
    BY <1>2, <1>8, <1>9, <2>1, <2>3
  <2> QED
    BY <1>3, <2>2, <2>3
<1>13. Before(roots, unmined)'
  BY <1>1, <1>2, <1>3, <1>8, <1>9 DEF Before
<1> QED
  BY <1>4, <1>5, <1>6, <1>7, <1>10, <1>11, <1>12, <1>13 DEF AuditInv, InOrder

LEMMA WriterSteps ==
  ASSUME AuditInv, NEW w \in Writers, AnchorStep(w), UNCHANGED <<at, cycle>>
  PROVE  AuditInv'
<1>1. CASE Upload(w)
  BY <1>1, WriterGoesOn DEF Upload, Drafts, Stages
<1>2. CASE UploadFails(w)
  BY <1>2, WriterGoesOn DEF UploadFails, Stages
<1>3. CASE SendRoot(w)
  BY <1>3, WriterSends
<1>4. CASE SendFails(w)
  BY <1>4, WriterGoesOn DEF SendFails, Stages
<1>5. CASE WaitFails(w)
  BY <1>5, WriterGoesOn DEF WaitFails, Stages
<1> QED
  BY <1>1, <1>2, <1>3, <1>4, <1>5 DEF AnchorStep

-----------------------------------------------------------------------------
(* What the chain does with the first transaction.                          *)
LEMMA TransactionLeaves ==
  ASSUME AuditInv, unmined # <<>>, unmined' = Tail(unmined)
  PROVE  /\ IsSeq(unmined') /\ DOMAIN unmined' \subseteq DOMAIN unmined
         /\ 1 \in DOMAIN unmined /\ Head(unmined) = unmined[1]
         /\ \A k \in DOMAIN unmined' :
              k \in Nat /\ 1 < k + 1 /\ k + 1 \in DOMAIN unmined /\ unmined'[k] = unmined[k + 1]
         /\ Ordered(unmined)' /\ Before(roots, unmined')
         /\ UNCHANGED <<at, cycle, anchoring>> => Earlier(unmined)'
<1>1. /\ IsSeq(unmined') /\ Len(unmined) \in Nat \ {0} /\ DOMAIN unmined = 1 .. Len(unmined)
      /\ Head(unmined) = unmined[1] /\ DOMAIN unmined' = 1 .. Len(unmined) - 1
      /\ \A k \in DOMAIN unmined' : unmined'[k] = unmined[k + 1]
  BY TailIsSeq DEF AuditInv, AuditType
<1>2. \A k \in DOMAIN unmined' : k \in DOMAIN unmined /\ k \in Nat /\ 1 < k + 1 /\ k + 1 \in DOMAIN unmined
  BY <1>1
<1>3. Ordered(unmined) /\ Before(roots, unmined) /\ Earlier(unmined)
  BY DEF AuditInv, InOrder
<1>4. Ordered(unmined)'
  <2> SUFFICES ASSUME NEW j \in DOMAIN unmined', NEW k \in DOMAIN unmined', j < k,
                      unmined'[j][1] = unmined'[k][1]
               PROVE  unmined'[j][2].cycle < unmined'[k][2].cycle
    BY DEF Ordered
  <2>1. j + 1 < k + 1
    BY <1>2
  <2> QED
    BY <1>1, <1>2, <1>3, <2>1 DEF Ordered
<1>5. Before(roots, unmined')
  BY <1>1, <1>2, <1>3 DEF Before
<1>6. UNCHANGED <<at, cycle, anchoring>> => Earlier(unmined)'
  BY <1>1, <1>2, <1>3 DEF Earlier, Unsent
<1> QED
  BY <1>1, <1>2, <1>4, <1>5, <1>6

LEMMA TransactionLost ==
  ASSUME AuditInv, LoseRoot, UNCHANGED <<at, cycle>>
  PROVE  AuditInv'
<1>1. unmined # <<>> /\ unmined' = Tail(unmined) /\ UNCHANGED <<roots, stored, draft, anchoring>>
  <2>1. Len(unmined) > 1 /\ IsSeq(unmined)
    BY DEF LoseRoot, AuditInv, AuditType
  <2>2. unmined # <<>>
    BY <2>1
  <2> QED
    BY <2>2 DEF LoseRoot
<1>2. /\ IsSeq(unmined')
      /\ \A k \in DOMAIN unmined' : k + 1 \in DOMAIN unmined /\ unmined'[k] = unmined[k + 1]
      /\ Ordered(unmined)' /\ Before(roots, unmined') /\ Earlier(unmined)'
  BY <1>1, TransactionLeaves
<1>3. AuditType' /\ SentIsStored' /\ AnchoredIsStored'
  BY <1>1, <1>2 DEF AuditInv, AuditType, SentIsStored, AnchoredIsStored
<1>4. InOrder'
  BY <1>1, <1>2 DEF AuditInv, InOrder, Ordered, Before, Earlier, DraftOfCycle, Drafts, Unsent
<1> QED
  BY <1>3, <1>4 DEF AuditInv

LEMMA TransactionMined ==
  ASSUME AuditInv, MineRoot, UNCHANGED <<at, cycle>>
  PROVE  AuditInv'
<1> DEFINE first == unmined[1]
           n == Len(roots)
<1>1. unmined # <<>> /\ unmined' = Tail(unmined) /\ stored' = stored /\ draft' = draft
  BY DEF MineRoot
<1>2. /\ IsSeq(unmined') /\ DOMAIN unmined' \subseteq DOMAIN unmined
      /\ 1 \in DOMAIN unmined /\ Head(unmined) = first
      /\ \A k \in DOMAIN unmined' :
           k \in Nat /\ 1 < k + 1 /\ k + 1 \in DOMAIN unmined /\ unmined'[k] = unmined[k + 1]
      /\ Ordered(unmined)' /\ Before(roots, unmined')
  BY <1>1, TransactionLeaves
<1>3. /\ first = <<first[1], first[2]>> /\ first[1] \in Writers /\ first[2] \in stored
      /\ anchoring \in [Writers -> Stages] /\ IsSeq(roots)
  BY <1>2 DEF AuditInv, AuditType, SentIsStored
<1>4. \/ roots' = roots
      \/ roots' = Append(roots, first) /\ MayUpdate
  BY <1>2 DEF MineRoot
<1>5. /\ IsSeq(roots')
      /\ DOMAIN roots \subseteq DOMAIN roots' /\ \A k \in DOMAIN roots : roots'[k] = roots[k]
      /\ \A k \in DOMAIN roots' \ DOMAIN roots :
           roots'[k] = first /\ \A j \in DOMAIN roots : j < k /\ ~(k < j)
      /\ \A j, k \in DOMAIN roots' \ DOMAIN roots : j = k
      /\ roots' # roots => \E k \in DOMAIN roots' : roots'[k] = first
  <2>1. CASE roots' = roots
    BY <1>3, <2>1
  <2>2. CASE roots' = Append(roots, first)
    <3>1. /\ IsSeq(roots') /\ n \in Nat /\ DOMAIN roots = 1 .. n /\ DOMAIN roots' = 1 .. n + 1
          /\ \A k \in DOMAIN roots : roots'[k] = roots[k]
          /\ roots'[n + 1] = first
      BY <1>3, <2>2, AppendIsSeq
    <3> HIDE DEF n, first
    <3>2. \A k \in DOMAIN roots' \ DOMAIN roots : k = n + 1
      BY <3>1
    <3>3. \A j \in DOMAIN roots : j < n + 1 /\ ~(n + 1 < j)
      BY <3>1
    <3>4. n + 1 \in DOMAIN roots'
      BY <3>1
    <3> QED
      BY <3>1, <3>2, <3>3, <3>4
  <2> QED
    BY <1>4, <2>1, <2>2
<1>6. \/ anchoring' = anchoring
      \/ /\ anchoring[first[1]] = "waiting" /\ draft[first[1]] = first[2]
         /\ \E st \in {"anchored", "failed"} :
              /\ anchoring' = [anchoring EXCEPT ![first[1]] = st]
              /\ st = "anchored" => roots' = Append(roots, first)
  BY <1>2 DEF MineRoot, Proceed
<1>7. /\ anchoring' \in [Writers -> Stages]
      /\ \A w \in Writers :
           \/ anchoring'[w] = anchoring[w]
           \/ /\ w = first[1] /\ anchoring[w] = "waiting" /\ draft[w] = first[2]
              /\ \/ anchoring'[w] = "failed"
                 \/ anchoring'[w] = "anchored" /\ roots' = Append(roots, first)
  <2> HIDE DEF first
  <2> QED
    BY <1>3, <1>6 DEF Stages
<1>8. AuditType'
  BY <1>1, <1>2, <1>5, <1>7 DEF AuditInv, AuditType
<1>9. SentIsStored'
  <2> HIDE DEF first
  <2> QED
    BY <1>1, <1>2, <1>3, <1>7 DEF AuditInv, SentIsStored
<1>10. AnchoredIsStored'
  <2>1. \A k \in DOMAIN roots' : roots'[k][2] \in stored'
    <3> HIDE DEF first
    <3> QED
      BY <1>1, <1>3, <1>5 DEF AuditInv, AnchoredIsStored
  <2>2. ASSUME NEW w \in Writers, anchoring'[w] = "anchored"
        PROVE  \E k \in DOMAIN roots' : roots'[k] = <<w, draft'[w]>>
    <3>1. CASE anchoring[w] = "anchored"
      <4>1. PICK k \in DOMAIN roots : roots[k] = <<w, draft[w]>>
        BY <3>1 DEF AuditInv, AnchoredIsStored
      <4> QED
        BY <1>1, <1>5, <4>1
    <3>2. CASE anchoring[w] # "anchored"
      <4>1. w = first[1] /\ draft[w] = first[2] /\ roots' = Append(roots, first)
        BY <1>7, <2>2, <3>2
      <4>2. \E k \in DOMAIN roots' : roots'[k] = first
        <5>1. roots' = Append(roots, first) /\ IsSeq(roots)
          BY <1>3, <4>1
        <5>2. n + 1 \in DOMAIN roots' /\ roots'[n + 1] = first
          BY <5>1, AppendIsSeq
        <5> QED
          BY <5>2
      <4> QED
        BY <1>1, <1>3, <4>1, <4>2
    <3> QED
      BY <3>1, <3>2
  <2> QED
    BY <2>1, <2>2 DEF AnchoredIsStored
<1>11. Ordered(roots) /\ Ordered(unmined) /\ Before(roots, unmined) /\ Earlier(roots) /\ Earlier(unmined)
  BY DEF AuditInv, InOrder
<1>12. (Unsent' => Unsent) /\ DraftOfCycle'
  BY <1>1, <1>7, WritersAre DEF AuditInv, InOrder, DraftOfCycle, Drafts, Unsent
<1>13. anchoring[CommandLine] \notin {"no", "uploading", "sending"} =>
          anchoring'[CommandLine] \notin {"no", "uploading", "sending"}
  BY <1>7, WritersAre
<1>14. Earlier(unmined)'
  BY <1>2, <1>11, <1>12, <1>13 DEF Earlier
<1>15. Earlier(roots)'
  BY <1>2, <1>5, <1>11, <1>12, <1>13 DEF Earlier
<1>16. Ordered(roots)'
  <2> SUFFICES ASSUME NEW j \in DOMAIN roots', NEW k \in DOMAIN roots', j < k,
                      roots'[j][1] = roots'[k][1]
               PROVE  roots'[j][2].cycle < roots'[k][2].cycle
    BY DEF Ordered
  <2>1. j \in DOMAIN roots
    <3>1. CASE k \in DOMAIN roots
      BY <1>5, <3>1
    <3>2. CASE k \notin DOMAIN roots /\ j \notin DOMAIN roots
      <4>1. j = k /\ IsSeq(roots')
        BY <1>5, <3>2
      <4>2. j \in Nat
        BY <4>1 DEF IsSeq
      <4> QED
        BY <4>1, <4>2
    <3> QED
      BY <3>1, <3>2
  <2>2. CASE k \in DOMAIN roots
    BY <1>5, <1>11, <2>1, <2>2 DEF Ordered
  <2>3. CASE k \notin DOMAIN roots
    BY <1>2, <1>5, <1>11, <2>1, <2>3 DEF Before
  <2> QED
    BY <2>2, <2>3
<1>17. Before(roots, unmined)'
  <2> SUFFICES ASSUME NEW j \in DOMAIN roots', NEW k \in DOMAIN unmined',
                      roots'[j][1] = unmined'[k][1]
               PROVE  roots'[j][2].cycle < unmined'[k][2].cycle
    BY DEF Before
  <2>1. CASE j \in DOMAIN roots
    BY <1>2, <1>5, <2>1 DEF Before
  <2>2. CASE j \notin DOMAIN roots
    BY <1>2, <1>5, <1>11, <2>2 DEF Ordered
  <2> QED
    BY <2>1, <2>2
<1> QED
  BY <1>2, <1>8, <1>9, <1>10, <1>12, <1>14, <1>15, <1>16, <1>17 DEF AuditInv, InOrder

-----------------------------------------------------------------------------
LEMMA DaemonDecides ==
  ASSUME AuditInv, Decide
  PROVE  AuditInv'
<1>1. CASE BuildSnapshot
  BY <1>1, CycleGoesOn DEF BuildSnapshot, GoesTo
<1>2. CASE RunCognitiveCycle \/ SigningThrows
  BY <1>2, CycleGoesOn DEF RunCognitiveCycle, SigningThrows, GoesTo, Unsent
<1> QED
  BY <1>1, <1>2 DEF Decide

LEMMA DaemonCarriesOut ==
  ASSUME AuditInv, CarryOut
  PROVE  AuditInv'
<1>1. CASE RelayIntents
  BY <1>1, CycleGoesOn DEF RelayIntents, GoesTo, Unsent
<1>2. CASE Execute \/ Tracking
  <2>1. UNCHANGED <<at, cycle, auditVars, anchoring>>
    BY <1>2 DEF Execute, Tracking, cycleVars, auditVars
  <2> QED
    BY <2>1, CycleGoesOn DEF Unsent
<1>3. CASE Executed \/ Tracked \/ CrossChain
  BY <1>3, CycleGoesOn DEF Executed, Tracked, CrossChain, GoesTo, Unsent
<1>4. CASE Audit
  <2>1. at = "auditing" /\ cycle' = cycle
    BY <1>4 DEF Audit
  <2>2. CASE flags.anchor
    <3>1. at' = "anchoring" /\ StartAnchor(Daemon, Record(cycle, Len(ids)))
      BY <1>4, <2>2 DEF Audit
    <3>2. Record(cycle, Len(ids)).cycle = cycle
      BY DEF Record
    <3> QED
      BY <2>1, <3>1, <3>2, WriterDrafts, WritersAre DEF Unsent
  <2>3. CASE ~flags.anchor
    <3>1. at' = "anchored" /\ UNCHANGED auditVars
      BY <1>4, <2>3 DEF Audit
    <3> QED
      BY <2>1, <3>1, CycleGoesOn DEF Unsent
  <2> QED
    BY <2>2, <2>3
<1>5. CASE Anchoring
  <2>1. AnchorStep(Daemon) /\ UNCHANGED <<at, cycle>>
    BY <1>5 DEF Anchoring, cycleVars
  <2> QED
    BY <2>1, WriterSteps, WritersAre
<1>6. CASE Anchored \/ Report \/ Reported
  BY <1>6, CycleGoesOn DEF Anchored, Report, Reported, GoesTo, Unsent, Drafts
<1>7. CASE CycleThrows
  BY <1>7, CycleGoesOn DEF CycleThrows, Unsent, Drafts
<1> QED
  BY <1>1, <1>2, <1>3, <1>4, <1>5, <1>6, <1>7 DEF CarryOut

LEMMA DaemonCutOff ==
  ASSUME AuditInv, CycleCutOff
  PROVE  AuditInv'
BY WriterGoesOn, WritersAre DEF CycleCutOff, Stages

LEMMA OthersStep ==
  ASSUME AuditInv, CommandLineStep \/ Outside
  PROVE  AuditInv'
<1>1. UNCHANGED <<at, cycle>>
  BY DEF CommandLineStep, Outside, cycleVars
<1>2. CASE UNCHANGED auditVars
  BY <1>1, <1>2, CycleGoesOn DEF Unsent, auditVars
<1>3. CASE CommandLineStep
  <2>1. CASE anchoring[CommandLine] = "no" /\ StartAnchor(CommandLine, Record(1, 0))
    BY <1>1, <2>1, WriterDrafts, WritersAre
  <2>2. CASE AnchorStep(CommandLine)
    BY <1>1, <2>2, WriterSteps, WritersAre
  <2> QED
    BY <1>3, <2>1, <2>2 DEF CommandLineStep
<1>4. CASE MineRoot \/ LoseRoot
  BY <1>1, <1>4, TransactionMined, TransactionLost
<1>5. ASSUME NEW wallet, SetAgent(wallet) PROVE AuditInv'
  BY <1>1, <1>5 DEF SetAgent, AuditInv, AuditType, SentIsStored, AnchoredIsStored, InOrder,
       Ordered, Before, Earlier, DraftOfCycle, Drafts, Unsent
<1> QED
  BY <1>2, <1>3, <1>4, <1>5 DEF Outside

LEMMA AuditStep ==
  ASSUME AuditInv, [Next]_vars
  PROVE  AuditInv'
<1>1. CASE UNCHANGED vars
  BY <1>1, CycleGoesOn DEF vars, cycleVars, auditVars, Unsent
<1> QED
  BY <1>1, DaemonDecides, DaemonCarriesOut, DaemonCutOff, OthersStep DEF Next

LEMMA AuditAlways == Spec => []AuditInv
<1>1. AuditInv /\ [Next]_vars => AuditInv'
  BY AuditStep
<1> QED
  BY AuditStarts, <1>1, PTL DEF Spec

(* Every root in the registry has its record in storage and every record    *)
(* reported as anchored has its root there, whatever fails in anchor.ts and *)
(* whoever else sends from the wallet or is made the agent.                 *)
THEOREM CycleAnchoredIsStored == Spec => []AnchoredIsStored
<1>1. AuditInv => AnchoredIsStored
  BY DEF AuditInv
<1> QED
  BY AuditAlways, <1>1, PTL

(* A writer's roots are in the order of its cycles and no cycle has two,    *)
(* also when a receipt is given up on and the transaction is mined later.   *)
THEOREM CycleRootsInOrder == Spec => []RootsInOrder
<1>1. AuditInv => RootsInOrder
  BY DEF AuditInv, InOrder, Ordered, RootsInOrder
<1> QED
  BY AuditAlways, <1>1, PTL

-----------------------------------------------------------------------------
(* Naturals, finite sets and folds.                                         *)
LEMMA LeastOf ==
  ASSUME NEW C \in SUBSET Nat, C # {}
  PROVE  \E m \in C : \A j \in C : m <= j
<1>1. \E x \in C : \A y \in C : ~(<<y, x>> \in OpToRel(<, Nat))
  BY NatLessThanWellFounded, WFMin
<1>2. \A x, y \in Nat : y < x => <<y, x>> \in OpToRel(<, Nat)
  BY Zenon DEF OpToRel
<1>3. PICK m \in C : \A j \in C : ~(j < m)
  BY <1>1, <1>2, Zenon
<1>4. \A j \in C : m <= j
  BY <1>3
<1> QED
  BY <1>4

(* What holds of a set whenever it holds of the smaller ones holds of all.  *)
LEMMA BySmaller ==
  ASSUME NEW D, IsFiniteSet(D), NEW Good,
         \A s \in SUBSET D : (\A t \in SUBSET s : t # s => t \in Good) => s \in Good
  PROVE  \A s \in SUBSET D : s \in Good
<1> DEFINE Bad == {s \in SUBSET D : s \notin Good}
           Sizes == {Cardinality(s) : s \in Bad}
<1> SUFFICES ASSUME Bad # {} PROVE FALSE
  OBVIOUS
<1>1. \A s \in SUBSET D : IsFiniteSet(s) /\ Cardinality(s) \in Nat
  BY FS_Subset, FS_CardinalityType
<1>2. Sizes \in SUBSET Nat /\ Sizes # {}
  BY <1>1
<1>3. \E m \in Sizes : \A j \in Sizes : m <= j
  <2> HIDE DEF Sizes
  <2> QED
    BY <1>2, LeastOf
<1>4. PICK s \in Bad : \A t \in Bad : Cardinality(s) <= Cardinality(t)
  BY <1>3
<1>5. ASSUME NEW t \in SUBSET s, t # s PROVE t \in Good
  <2>1. t \in SUBSET D /\ Cardinality(t) <= Cardinality(s) /\ Cardinality(t) # Cardinality(s)
    BY <1>1, <1>5, FS_Subset
  <2>2. ~(Cardinality(s) <= Cardinality(t))
    BY <2>1, <1>1
  <2> QED
    BY <1>4, <2>1, <2>2
<1> QED
  BY <1>5

LEMMA ByNumber ==
  ASSUME NEW Good, 0 \in Good, \A n \in Nat : n \in Good => n + 1 \in Good
  PROVE  \A n \in Nat : n \in Good
<1> DEFINE Bad == {n \in Nat : n \notin Good}
<1> SUFFICES ASSUME Bad # {} PROVE FALSE
  OBVIOUS
<1>1. \E m \in Bad : \A j \in Bad : m <= j
  <2>1. Bad \in SUBSET Nat
    OBVIOUS
  <2> HIDE DEF Bad
  <2> QED
    BY <2>1, LeastOf
<1>2. PICK m \in Bad : \A j \in Bad : m <= j
  BY <1>1
<1>3. m \in Nat /\ m # 0
  OBVIOUS
<1>4. m - 1 \in Nat /\ m = (m - 1) + 1 /\ ~(m <= m - 1)
  BY <1>3
<1> QED
  BY <1>2, <1>3, <1>4

(* A fold over a finite set is defined, whichever element is taken first.   *)
IsFold(g, A, D, pick, base, step) ==
  /\ g \in [SUBSET D -> A]
  /\ \A s \in SUBSET D :
       g[s] = IF s = {} THEN base ELSE step[<<g[s \ {pick[s]}], pick[s]>>]

LEMMA FoldDefined ==
  ASSUME NEW A, NEW D, IsFiniteSet(D),
         NEW pick, \A s \in SUBSET D : s # {} => pick[s] \in s,
         NEW base \in A, NEW step \in [A \X D -> A]
  PROVE  \E g : IsFold(g, A, D, pick, base, step)
<1> DEFINE Small(n) == {s \in SUBSET D : Cardinality(s) <= n}
           Folds(n, g) == \A s \in Small(n) :
             g[s] = IF s = {} THEN base ELSE step[<<g[s \ {pick[s]}], pick[s]>>]
           Good == {n \in Nat : \E g \in [Small(n) -> A] : Folds(n, g)}
<1>1. \A s \in SUBSET D : Cardinality(s) \in Nat /\ IsFiniteSet(s) /\ (Cardinality(s) = 0 <=> s = {})
  BY FS_Subset, FS_CardinalityType, FS_EmptySet
<1>2. 0 \in Good
  <2> DEFINE g == [s \in Small(0) |-> base]
  <2>1. \A s \in Small(0) : s = {}
    BY <1>1
  <2>2. g \in [Small(0) -> A] /\ Folds(0, g)
    BY <2>1
  <2> QED
    BY <2>2
<1>3. ASSUME NEW n \in Nat, n \in Good PROVE n + 1 \in Good
  <2>1. PICK g \in [Small(n) -> A] : Folds(n, g)
    BY <1>3
  <2> DEFINE h == [s \in Small(n + 1) |->
                     IF s = {} THEN base ELSE step[<<g[s \ {pick[s]}], pick[s]>>]]
  <2>2. ASSUME NEW s \in Small(n + 1), s # {}
        PROVE  pick[s] \in s /\ pick[s] \in D /\ s \ {pick[s]} \in Small(n) /\ s \ {pick[s]} \in Small(n + 1)
    <3>1. s \in SUBSET D /\ pick[s] \in s /\ pick[s] \in D /\ s \ {pick[s]} \in SUBSET D
      BY <2>2
    <3>2. /\ Cardinality(s) \in Nat /\ Cardinality(s) <= n + 1
          /\ Cardinality(s \ {pick[s]}) = Cardinality(s) - 1
      BY <1>1, <3>1, FS_RemoveElement
    <3> QED
      BY <3>1, <3>2
  <2>3. h \in [Small(n + 1) -> A]
    BY <2>2
  <2>4. \A s \in Small(n) : s \in Small(n + 1) /\ g[s] = h[s]
    <3> TAKE s \in Small(n)
    <3>1. s \in Small(n + 1)
      BY <1>1
    <3> QED
      BY <2>1, <3>1
  <2>5. Folds(n + 1, h)
    <3> SUFFICES ASSUME NEW s \in Small(n + 1)
                 PROVE  h[s] = IF s = {} THEN base ELSE step[<<h[s \ {pick[s]}], pick[s]>>]
      OBVIOUS
    <3>1. CASE s = {}
      BY <3>1
    <3>2. CASE s # {}
      BY <3>2, <2>2, <2>4
    <3> QED
      BY <3>1, <3>2
  <2> HIDE DEF h, Folds, Small
  <2> QED
    BY <2>3, <2>5
<1>4. \A n \in Nat : n \in Good
  <2> HIDE DEF Good
  <2> QED
    BY <1>2, <1>3, ByNumber
<1>5. Cardinality(D) \in Nat /\ Small(Cardinality(D)) = SUBSET D
  BY <1>1, FS_Subset
<1>6. PICK g \in [SUBSET D -> A] : Folds(Cardinality(D), g)
  BY <1>4, <1>5
<1> QED
  BY <1>5, <1>6 DEF IsFold

(* Positions can be counted off in their order.                             *)
LEMMA CountedOff ==
  ASSUME NEW ps \in SUBSET Nat, IsFiniteSet(ps)
  PROVE  \A k \in 1 .. Cardinality(ps) : \E j \in ps : Cardinality({i \in ps : i <= j}) = k
<1> DEFINE UpTo(j) == {i \in ps : i <= j}
           Good == {n \in Nat : n = 0 \/ Cardinality(ps) < n \/ \E j \in ps : Cardinality(UpTo(j)) = n}
<1>1. Cardinality(ps) \in Nat
  BY FS_CardinalityType
<1>2. ASSUME NEW n \in Nat, n \in Good PROVE n + 1 \in Good
  <2>1. CASE Cardinality(ps) < n + 1
    BY <2>1
  <2>2. CASE ~(Cardinality(ps) < n + 1)
    <3>1. PICK prev \in SUBSET ps :
            /\ Cardinality(prev) = n
            /\ \A m \in ps \ prev, i \in prev : i <= m
      <4>1. CASE n = 0
        BY <4>1, FS_EmptySet
      <4>2. CASE n # 0
        <5>1. PICK j \in ps : Cardinality(UpTo(j)) = n
          BY <1>1, <1>2, <2>2, <4>2
        <5>2. \A m \in ps \ UpTo(j), i \in UpTo(j) : i <= m
          OBVIOUS
        <5> QED
          BY <5>1, <5>2
      <4> QED
        BY <4>1, <4>2
    <3>2. IsFiniteSet(prev) /\ ps \ prev # {}
      <4>1. Cardinality(prev) # Cardinality(ps)
        BY <1>1, <2>2, <3>1
      <4>2. IsFiniteSet(prev)
        BY <3>1, FS_Subset
      <4>3. prev # ps /\ prev \subseteq ps
        BY <4>1
      <4> QED
        BY <4>2, <4>3
    <3>3. PICK m \in ps \ prev : \A j \in ps \ prev : m <= j
      BY <3>2, LeastOf
    <3>4. UpTo(m) = prev \cup {m}
      <4>1. \A i \in ps : i <= m => i \in prev \/ i = m
        BY <3>3
      <4> QED
        BY <4>1, <3>1, <3>3
    <3>5. Cardinality(UpTo(m)) = n + 1
      BY <3>1, <3>2, <3>3, <3>4, FS_AddElement
    <3> HIDE DEF UpTo
    <3> QED
      BY <3>3, <3>5
  <2> QED
    BY <2>1, <2>2
<1>3. \A n \in Nat : n \in Good
  <2>1. 0 \in Good
    OBVIOUS
  <2> HIDE DEF Good
  <2> QED
    BY <1>2, <2>1, ByNumber
<1> QED
  BY <1>1, <1>3

(* What is kept is a sequence of different elements of the first.           *)
LEMMA KeptElements ==
  ASSUME NEW s, NEW ps \in SUBSET Nat, IsFiniteSet(ps)
  PROVE  /\ Cardinality(ps) \in Nat /\ DOMAIN Kept(s, ps) = 1 .. Cardinality(ps) /\ IsSeq(Kept(s, ps))
         /\ Kept(s, ps) = [k \in DOMAIN Kept(s, ps) |-> Kept(s, ps)[k]]
         /\ \E h \in [DOMAIN Kept(s, ps) -> ps] :
              /\ \A j, k \in DOMAIN Kept(s, ps) : h[j] = h[k] => j = k
              /\ \A k \in DOMAIN Kept(s, ps) : Kept(s, ps)[k] = s[h[k]]
<1> DEFINE UpTo(j) == {i \in ps : i <= j}
           h == [k \in 1 .. Cardinality(ps) |-> CHOOSE j \in ps : Cardinality(UpTo(j)) = k]
<1>1. Cardinality(ps) \in Nat
  BY FS_CardinalityType
<1>2. Kept(s, ps) = [k \in 1 .. Cardinality(ps) |-> s[h[k]]]
  BY DEF Kept
<1>3. \A k \in 1 .. Cardinality(ps) : h[k] \in ps /\ Cardinality(UpTo(h[k])) = k
  BY CountedOff
<1>4. h \in [1 .. Cardinality(ps) -> ps]
  BY <1>3
<1>5. \A j, k \in 1 .. Cardinality(ps) : h[j] = h[k] => j = k
  <2> HIDE DEF h
  <2> QED
    BY <1>3
<1> HIDE DEF h
<1>6. DOMAIN Kept(s, ps) = 1 .. Cardinality(ps) /\ \A k \in 1 .. Cardinality(ps) : Kept(s, ps)[k] = s[h[k]]
  BY <1>2
<1>7. Kept(s, ps) = [k \in DOMAIN Kept(s, ps) |-> Kept(s, ps)[k]]
  BY <1>2
<1>8. IsSeq(Kept(s, ps))
  <2>1. Kept(s, ps) \in Seq({s[h[k]] : k \in 1 .. Cardinality(ps)})
    BY <1>1, <1>2
  <2> QED
    BY <2>1 DEF IsSeq
<1> QED
  BY <1>1, <1>4, <1>5, <1>6, <1>7, <1>8

-----------------------------------------------------------------------------
(* Sums.                                                                    *)
Sums(f) ==
  CHOOSE sum : sum = [s \in SUBSET DOMAIN f |->
    IF s = {} THEN 0
    ELSE LET x == CHOOSE x \in s : TRUE IN f[x] + sum[s \ {x}]]

LEMMA TotalIsSum ==
  ASSUME NEW f
  PROVE  Total(f) = Sums(f)[DOMAIN f]
BY Zenon DEF Total, FoldSeq, FoldFunction, FoldFunctionOnSet, MapThenFoldSet, Sums

IsSum(D, f) ==
  /\ Sums(f) \in [SUBSET D -> Int]
  /\ Sums(f)[{}] = 0
  /\ \A s \in SUBSET D : s # {} =>
       \E x \in s : x \in D /\ Sums(f)[s] = f[x] + Sums(f)[s \ {x}]

LEMMA SumsDefined ==
  ASSUME NEW D, IsFiniteSet(D), NEW f \in [D -> Int]
  PROVE  IsSum(D, f)
<1> DEFINE pick == [s \in SUBSET D |-> CHOOSE x \in s : TRUE]
           step == [a \in Int \X D |-> f[a[2]] + a[1]]
           Equation(g) == g = [s \in SUBSET DOMAIN f |->
             IF s = {} THEN 0 ELSE LET x == CHOOSE x \in s : TRUE IN f[x] + g[s \ {x}]]
<1>1. \A s \in SUBSET D : s # {} => pick[s] \in s
  OBVIOUS
<1>2. step \in [Int \X D -> Int] /\ 0 \in Int
  OBVIOUS
<1>3. \E g : IsFold(g, Int, D, pick, 0, step)
  <2> HIDE DEF pick, step
  <2> QED
    BY <1>1, <1>2, FoldDefined
<1>4. PICK g \in [SUBSET D -> Int] : \A s \in SUBSET D :
        g[s] = IF s = {} THEN 0 ELSE step[<<g[s \ {pick[s]}], pick[s]>>]
  BY <1>3 DEF IsFold
<1>5. ASSUME NEW s \in SUBSET D, s # {}
      PROVE  g[s] = f[pick[s]] + g[s \ {pick[s]}]
  <2>1. pick[s] \in D /\ g[s \ {pick[s]}] \in Int
    BY <1>1, <1>5
  <2>2. step[<<g[s \ {pick[s]}], pick[s]>>] = f[pick[s]] + g[s \ {pick[s]}]
    <3> HIDE DEF pick
    <3> QED
      BY <2>1
  <2> QED
    BY <1>4, <1>5, <2>2
<1>6. Equation(g)
  <2>1. \A s \in SUBSET D :
          g[s] = IF s = {} THEN 0 ELSE LET x == CHOOSE x \in s : TRUE IN f[x] + g[s \ {x}]
    BY <1>4, <1>5
  <2> QED
    BY <2>1
<1>7. Equation(Sums(f))
  <2>1. \E h : Equation(h)
    BY <1>6
  <2> QED
    BY <2>1, Zenon DEF Sums
<1> DEFINE sum == Sums(f)
<1>8. \A s \in SUBSET D :
        sum[s] = IF s = {} THEN 0 ELSE f[pick[s]] + sum[s \ {pick[s]}]
  BY <1>7
<1>9. sum = [s \in SUBSET D |-> sum[s]]
  BY <1>7
<1> DEFINE Good == {s \in SUBSET D : sum[s] \in Int}
<1> HIDE DEF sum, pick
<1>10. \A s \in SUBSET D : s \in Good
  <2>1. ASSUME NEW s \in SUBSET D, \A t \in SUBSET s : t # s => t \in Good
        PROVE  s \in Good
    <3>1. CASE s = {}
      BY SMTT(20), <3>1, <1>8
    <3>2. CASE s # {}
      <4>1. pick[s] \in s /\ s \ {pick[s]} \in SUBSET s /\ s \ {pick[s]} # s
        BY <1>1, <3>2
      <4>2. sum[s \ {pick[s]}] \in Int
        BY <2>1, <4>1
      <4>3. pick[s] \in D /\ f[pick[s]] \in Int /\ sum[s] = f[pick[s]] + sum[s \ {pick[s]}]
        BY <1>8, <3>2, <4>1
      <4> QED
        BY <4>2, <4>3
    <3> QED
      BY <3>1, <3>2
  <2> HIDE DEF Good
  <2> QED
    BY <2>1, BySmaller
<1>11. sum \in [SUBSET D -> Int]
  BY <1>9, <1>10
<1>12. \A s \in SUBSET D : s # {} => \E x \in s : x \in D /\ sum[s] = f[x] + sum[s \ {x}]
  BY <1>1, <1>8
<1> QED
  BY <1>8, <1>11, <1>12 DEF sum, IsSum

(* A sum is one of its summands and the sum of the others.                  *)
LEMMA SumTakesAny ==
  ASSUME NEW D, IsFiniteSet(D), NEW f \in [D -> Int]
  PROVE  \A s \in SUBSET D : \A x \in s : Sums(f)[s] = f[x] + Sums(f)[s \ {x}]
<1> DEFINE sum == Sums(f)
           Good == {s \in SUBSET D : \A x \in s : sum[s] = f[x] + sum[s \ {x}]}
<1>1. /\ sum \in [SUBSET D -> Int]
      /\ \A s \in SUBSET D : s # {} => \E x \in s : x \in D /\ sum[s] = f[x] + sum[s \ {x}]
  BY SumsDefined DEF IsSum
<1> HIDE DEF sum
<1>2. ASSUME NEW s \in SUBSET D, \A t \in SUBSET s : t # s => t \in Good
      PROVE  s \in Good
  <2> SUFFICES ASSUME NEW x \in s PROVE sum[s] = f[x] + sum[s \ {x}]
    OBVIOUS
  <2>1. PICK c \in s : c \in D /\ sum[s] = f[c] + sum[s \ {c}]
    BY <1>1
  <2>2. CASE c = x
    BY <2>1, <2>2
  <2>3. CASE c # x
    <3>1. s \ {c} \in Good /\ x \in s \ {c} /\ s \ {x} \in Good /\ c \in s \ {x}
      BY <1>2, <2>3
    <3>2. /\ sum[s \ {c}] = f[x] + sum[(s \ {c}) \ {x}]
          /\ sum[s \ {x}] = f[c] + sum[(s \ {x}) \ {c}]
      BY <3>1
    <3>3. PICK r \in SUBSET D : r = (s \ {c}) \ {x} /\ r = (s \ {x}) \ {c}
      <4>1. (s \ {c}) \ {x} = (s \ {x}) \ {c}
        OBVIOUS
      <4> QED
        BY <4>1
    <3>4. f[x] \in Int /\ f[c] \in Int /\ sum[r] \in Int
      BY <1>1, <2>1
    <3>5. sum[s \ {c}] = f[x] + sum[r] /\ sum[s \ {x}] = f[c] + sum[r]
      BY <3>2, <3>3
    <3> QED
      BY <2>1, <3>4, <3>5
  <2> QED
    BY <2>2, <2>3
<1>3. \A s \in SUBSET D : s \in Good
  <2> HIDE DEF Good
  <2> QED
    BY <1>2, BySmaller
<1> QED
  BY <1>3 DEF sum

(* ... in particular of all of them.                                        *)
LEMMA SumTakesOne ==
  ASSUME NEW D, IsFiniteSet(D), NEW f, f \in [D -> Int], NEW k \in D
  PROVE  Sums(f)[D] = f[k] + Sums(f)[D \ {k}]
<1>1. D \in SUBSET D /\ k \in D
  OBVIOUS
<1>2. IsFiniteSet(D) /\ f \in [D -> Int]
  OBVIOUS
<1> QED
  BY <1>1, <1>2, SumTakesAny

LEMMA SumOfNaturals ==
  ASSUME NEW D, IsFiniteSet(D), NEW f \in [D -> Nat]
  PROVE  \A s \in SUBSET D : Sums(f)[s] \in Nat
<1> DEFINE Good == {s \in SUBSET D : Sums(f)[s] \in Nat}
<1>1. /\ Sums(f)[{}] = 0
      /\ \A s \in SUBSET D : s # {} => \E x \in s : x \in D /\ Sums(f)[s] = f[x] + Sums(f)[s \ {x}]
  <2>1. f \in [D -> Int]
    OBVIOUS
  <2>2. IsSum(D, f)
    BY <2>1, SumsDefined
  <2> QED
    BY <2>2 DEF IsSum
<1>2. ASSUME NEW s \in SUBSET D, \A t \in SUBSET s : t # s => t \in Good
      PROVE  s \in Good
  <2>1. CASE s = {}
    BY <1>1, <2>1
  <2>2. CASE s # {}
    <3>1. PICK x \in s : x \in D /\ Sums(f)[s] = f[x] + Sums(f)[s \ {x}]
      BY <1>1, <2>2
    <3>2. Sums(f)[s \ {x}] \in Nat
      BY <1>2
    <3> QED
      BY <3>1, <3>2
  <2> QED
    BY <2>1, <2>2
<1>3. \A s \in SUBSET D : s \in Good
  <2> HIDE DEF Good
  <2> QED
    BY <1>2, BySmaller
<1> QED
  BY <1>3

LEMMA TotalType ==
  ASSUME NEW D, IsFiniteSet(D), NEW f \in [D -> Int]
  PROVE  Total(f) \in Int /\ (f \in [D -> Nat] => Total(f) \in Nat)
<1>1. Total(f) = Sums(f)[D] /\ D \in SUBSET D
  BY TotalIsSum
<1>2. Sums(f) \in [SUBSET D -> Int]
  BY SumsDefined DEF IsSum
<1> QED
  BY <1>1, <1>2, SumOfNaturals

(* One sum is at most another whose summands are as many and as large.      *)
LEMMA SumOfSome ==
  ASSUME NEW D, IsFiniteSet(D), NEW f \in [D -> Nat],
         NEW E, IsFiniteSet(E), NEW g \in [E -> Nat],
         NEW S \in SUBSET E, NEW T \in SUBSET D,
         NEW h \in [S -> T], \A i, j \in S : h[i] = h[j] => i = j,
         \A i \in S : g[i] <= f[h[i]]
  PROVE  Sums(g)[S] <= Sums(f)[T]
<1>1. f \in [D -> Int] /\ g \in [E -> Int]
  OBVIOUS
<1>2. /\ \A s \in SUBSET E : \A x \in s : Sums(g)[s] = g[x] + Sums(g)[s \ {x}]
      /\ \A s \in SUBSET E : Sums(g)[s] \in Nat
      /\ \A t \in SUBSET D : \A x \in t : Sums(f)[t] = f[x] + Sums(f)[t \ {x}]
      /\ \A t \in SUBSET D : Sums(f)[t] \in Nat
  BY <1>1, SumTakesAny, SumOfNaturals
<1>3. Sums(g)[{}] = 0
  BY <1>1, SumsDefined DEF IsSum
<1> DEFINE Good == {s \in SUBSET S : \A t \in SUBSET T :
                      (\A i \in s : h[i] \in t) => Sums(g)[s] <= Sums(f)[t]}
<1>4. ASSUME NEW s \in SUBSET S, \A r \in SUBSET s : r # s => r \in Good
      PROVE  s \in Good
  <2> SUFFICES ASSUME NEW t \in SUBSET T, \A i \in s : h[i] \in t
               PROVE  Sums(g)[s] <= Sums(f)[t]
    OBVIOUS
  <2>1. CASE s = {}
    BY <1>2, <1>3, <2>1
  <2>2. CASE s # {}
    <3>1. PICK x \in s : TRUE
      BY <2>2
    <3>2. s \ {x} \in Good /\ t \ {h[x]} \in SUBSET T /\ \A i \in s \ {x} : h[i] \in t \ {h[x]}
      BY <1>4, <3>1
    <3>3. Sums(g)[s \ {x}] <= Sums(f)[t \ {h[x]}]
      BY <3>2
    <3>4. /\ Sums(g)[s] = g[x] + Sums(g)[s \ {x}]
          /\ Sums(f)[t] = f[h[x]] + Sums(f)[t \ {h[x]}]
      BY <1>2, <3>1
    <3>5. /\ g[x] <= f[h[x]] /\ g[x] \in Nat /\ f[h[x]] \in Nat
          /\ Sums(g)[s \ {x}] \in Nat /\ Sums(f)[t \ {h[x]}] \in Nat
      BY <1>2, <3>1
    <3> QED
      BY <3>3, <3>4, <3>5
  <2> QED
    BY <2>1, <2>2
<1>5. S \in SUBSET S /\ \A s \in SUBSET S : s \in Good
  <2>1. IsFiniteSet(S)
    BY FS_Subset
  <2> HIDE DEF Good
  <2> QED
    BY <1>4, <2>1, BySmaller
<1> QED
  BY <1>5

(* Summands scaled down to a limit, each rounded down, stay within it.      *)
LEMMA SumScaled ==
  ASSUME NEW D, IsFiniteSet(D), NEW f \in [D -> Nat], NEW limit \in Nat,
         NEW gross \in Nat \ {0}, Total(f) = gross
  PROVE  Total([k \in D |-> (f[k] * limit) \div gross]) <= limit
<1>1. PICK g : g = [k \in D |-> (f[k] * limit) \div gross]
  OBVIOUS
<1>2. ASSUME NEW k \in D PROVE g[k] \in Nat /\ g[k] * gross <= f[k] * limit
  <2>1. PICK a \in Nat : a = f[k] * limit
    OBVIOUS
  <2>2. (a \div gross) \in Nat /\ (a \div gross) * gross <= a
    OBVIOUS
  <2> QED
    BY <1>1, <2>1, <2>2
<1>3. g \in [D -> Nat] /\ g \in [D -> Int] /\ f \in [D -> Int]
  BY <1>1, <1>2
<1>4. /\ \A s \in SUBSET D : \A x \in s :
           /\ Sums(g)[s] = g[x] + Sums(g)[s \ {x}] /\ Sums(f)[s] = f[x] + Sums(f)[s \ {x}]
      /\ \A s \in SUBSET D : Sums(g)[s] \in Nat /\ Sums(f)[s] \in Nat
  BY <1>3, SumTakesAny, SumOfNaturals
<1>5. Sums(g)[{}] = 0 /\ Sums(f)[{}] = 0
  BY <1>3, SumsDefined DEF IsSum
<1> DEFINE Good == {s \in SUBSET D : Sums(g)[s] * gross <= Sums(f)[s] * limit}
<1>6. ASSUME NEW s \in SUBSET D, \A r \in SUBSET s : r # s => r \in Good
      PROVE  s \in Good
  <2>1. CASE s = {}
    BY <1>5, <2>1
  <2>2. CASE s # {}
    <3>1. PICK x \in s : TRUE
      BY <2>2
    <3>2. PICK a \in Nat, b \in Nat, c \in Nat, d \in Nat :
            /\ a = g[x] /\ b = Sums(g)[s \ {x}] /\ c = f[x] /\ d = Sums(f)[s \ {x}]
      BY <1>2, <1>4, <3>1
    <3>3. a * gross <= c * limit /\ b * gross <= d * limit
      BY <1>2, <1>6, <3>1, <3>2
    <3>4. Sums(g)[s] = a + b /\ Sums(f)[s] = c + d
      BY <1>4, <3>1, <3>2
    <3>5. (a + b) * gross <= (c + d) * limit
      BY <3>3
    <3> QED
      BY <3>4, <3>5
  <2> QED
    BY <2>1, <2>2
<1>7. Sums(g)[D] * gross <= Sums(f)[D] * limit
  <2>1. D \in SUBSET D
    OBVIOUS
  <2> HIDE DEF Good
  <2>2. \A s \in SUBSET D : s \in Good
    BY <1>6, BySmaller
  <2> QED
    BY <2>1, <2>2 DEF Good
<1>8. DOMAIN f = D /\ DOMAIN g = D
  BY <1>1
<1>9. PICK n \in Nat : n = Total(g) /\ n = Sums(g)[D]
  BY <1>4, <1>8, TotalIsSum
<1>10. n * gross <= gross * limit
  BY <1>7, <1>8, <1>9, TotalIsSum
<1>11. n <= limit
  <2> SUFFICES ASSUME n >= limit + 1 PROVE FALSE
    OBVIOUS
  <2>1. n * gross >= (limit + 1) * gross
    OBVIOUS
  <2> QED
    BY <1>10, <2>1
<1> QED
  BY <1>1, <1>9, <1>11

LEMMA SumOfOneMore ==
  ASSUME NEW E, IsFiniteSet(E), NEW g \in [E -> Nat], NEW x, x \notin E,
         NEW f \in [E \cup {x} -> Nat], \A e \in E : f[e] = g[e]
  PROVE  Total(f) <= Total(g) + f[x]
<1>1. IsFiniteSet(E \cup {x}) /\ f \in [E \cup {x} -> Int] /\ DOMAIN f = E \cup {x} /\ DOMAIN g = E
  BY FS_AddElement
<1>2. Total(f) = f[x] + Sums(f)[E]
  <2>1. E \cup {x} \in SUBSET (E \cup {x}) /\ (E \cup {x}) \ {x} = E /\ x \in E \cup {x}
    OBVIOUS
  <2>2. Sums(f)[E \cup {x}] = f[x] + Sums(f)[(E \cup {x}) \ {x}]
    BY <1>1, <2>1, SumTakesAny
  <2> QED
    BY <1>1, <2>1, <2>2, TotalIsSum
<1>3. Sums(f)[E] <= Sums(g)[E]
  <2>1. PICK h \in [E -> E] : \A e \in E : h[e] = e
    <3>1. [e \in E |-> e] \in [E -> E]
      OBVIOUS
    <3> QED
      BY <3>1
  <2>2. E \in SUBSET (E \cup {x}) /\ E \in SUBSET E /\ \A e \in E : f[e] <= g[h[e]]
    BY <2>1
  <2>3. \A i, j \in E : h[i] = h[j] => i = j
    BY <2>1
  <2> QED
    BY <1>1, <2>2, <2>3, SumOfSome
<1>4. Sums(f)[E] \in Nat /\ Sums(g)[E] \in Nat /\ f[x] \in Nat
  BY <1>1, SumOfNaturals
<1> QED
  BY <1>1, <1>2, <1>3, <1>4, TotalIsSum

-----------------------------------------------------------------------------
(* Of what is heard of a market the snapshot makes an entry.                *)
LEMMA TwoOf ==
  ASSUME NEW a \in Int, NEW b \in Int
  PROVE  /\ Max({a, b}) = IF a >= b THEN a ELSE b
         /\ Min({a, b}) = IF a <= b THEN a ELSE b
BY DEF Max, Min

LEMMA Scales == One \in Nat /\ One > 2 /\ Full \in Nat \ {0} /\ Alpha \in Nat
BY SnapshotAssumption

LEMMA ClampType ==
  ASSUME NEW n \in Int, NEW low \in Int, NEW high \in Int
  PROVE  /\ Clamp(n, low, high) \in Int
         /\ low <= high => Clamp(n, low, high) \in low .. high
         /\ n \in low .. high => Clamp(n, low, high) = n
<1>1. PICK m \in Int : m = Min({high, n}) /\ m = IF high <= n THEN high ELSE n
  BY TwoOf
<1>2. Clamp(n, low, high) = IF low >= m THEN low ELSE m
  BY <1>1, TwoOf DEF Clamp
<1> QED
  BY <1>1, <1>2

LEMMA ProbabilityType ==
  ASSUME NEW n \in Int
  PROVE  Probability(n) \in 1 .. One - 1 /\ (n \in 1 .. One - 1 => Probability(n) = n)
BY ClampType, Scales DEF Probability

LEMMA QuotientType ==
  ASSUME NEW n \in Int, NEW d \in Nat \ {0}
  PROVE  Quotient(n, d) \in Int /\ Quotient(0, d) = 0
BY DEF Quotient

LEMMA FullThs ==
  ASSUME NEW n \in Nat
  PROVE  Min({Full, n}) \in Nat /\ Min({n, Full}) \in Nat
<1>1. n \in Int /\ Full \in Int /\ Full \in Nat
  BY Scales
<1>2. Min({Full, n}) \in {Full, n} /\ Min({n, Full}) \in {Full, n}
  BY <1>1, TwoOf
<1> QED
  BY <1>1, <1>2

LEMMA ImpliedType ==
  ASSUME NEW p \in Int, NEW score \in Int, NEW confidence \in Int
  PROVE  /\ SentimentImpliedP(p, score, confidence) \in 1 .. One - 1
         /\ p \in 1 .. One - 1 => SentimentImpliedP(p, 0, 0) = p
<1>1. Full * Full \in Nat \ {0}
  BY Scales
<1>2. Alpha * score * confidence \in Int /\ Alpha * 0 * 0 = 0
  BY Scales
<1>3. /\ p + Quotient(Alpha * score * confidence, Full * Full) \in Int
      /\ p + Quotient(Alpha * 0 * 0, Full * Full) = p
  BY <1>1, <1>2, QuotientType
<1> QED
  BY <1>3, ProbabilityType DEF SentimentImpliedP

Readings == [score : Int, confidence : Nat]

LEMMA ReadingType ==
  ASSUME NEW score \in Int, NEW confidence \in Nat
  PROVE  Reading(score, confidence) \in Readings
BY DEF Reading, Readings

LEMMA LexiconType ==
  ASSUME NEW text, text.words \in Nat, text.good \in Nat, text.bad \in Nat
  PROVE  LexiconScore(text) \in Readings
<1>1. CASE text.words = 0 \/ text.good + text.bad = 0
  BY <1>1, Scales DEF LexiconScore, NoReading, Reading, Readings
<1>2. CASE text.words # 0 /\ text.good + text.bad # 0
  <2>1. text.words \in Nat \ {0} /\ text.good + text.bad + 1 \in Nat \ {0}
    BY <1>2
  <2>2. Quotient(Full * (text.good - text.bad), text.good + text.bad + 1) \in Int
    BY <2>1, Scales, QuotientType
  <2>3. (Full * (text.good + text.bad)) \in Nat
    BY Scales
  <2>4. (Full * (text.good + text.bad)) \div text.words \in Nat
    BY <2>1, <2>3
  <2>5. (3 * Full) \div 10 + (Full * (text.good + text.bad)) \div text.words \in Nat
    BY <2>4, Scales
  <2> QED
    BY <1>2, <2>2, <2>5, FullThs DEF LexiconScore, Reading, Readings
<1> QED
  BY <1>1, <1>2

LEMMA BoostType ==
  ASSUME NEW text, text.entities \in Nat
  PROVE  EntityKeywordBoost(text) \in Nat
<1>1. (text.entities * Full) \div 4 \in Nat
  BY Scales
<1> QED
  BY <1>1, FullThs DEF EntityKeywordBoost

LEMMA QuestionType ==
  ASSUME NEW text \in Texts
  PROVE  OfQuestion(text) \in Readings
<1>1. PICK lexicon \in Readings : lexicon = LexiconScore(text)
  BY LexiconType DEF Texts
<1>2. PICK finbert \in Readings : finbert = FinbertScore(text)
  <2>1. text.sure \in Nat /\ -text.sure \in Int /\ 2 * text.sure - Full \in Int
    BY Scales DEF Texts
  <2>2. CASE text.label = "positive"
    <3>1. FinbertScore(text) = Reading(text.sure, text.sure)
      BY <2>2 DEF FinbertScore
    <3> QED
      BY <2>1, <3>1, ReadingType
  <2>3. CASE text.label = "negative"
    BY <2>1, <2>3 DEF FinbertScore, Reading, Readings
  <2>4. CASE text.label # "positive" /\ text.label # "negative"
    BY <2>1, <2>4 DEF FinbertScore, Reading, Readings
  <2> QED
    BY <2>2, <2>3, <2>4
<1>3. PICK boost \in Nat : boost = EntityKeywordBoost(text) \div 5
  BY BoostType DEF Texts
<1>4. OfQuestion(text) =
        IF text.label = "none"
        THEN Reading(lexicon.score, Min({Full, lexicon.confidence \div 2 + boost}))
        ELSE Reading(Quotient(6 * finbert.score + 4 * lexicon.score, 10),
                     Min({Full, finbert.confidence + boost}))
  BY <1>1, <1>2, <1>3 DEF OfQuestion
<1>5. /\ lexicon.score \in Int /\ lexicon.confidence \in Nat
      /\ finbert.score \in Int /\ finbert.confidence \in Nat
  BY DEF Readings
<1>6. /\ lexicon.confidence \div 2 + boost \in Nat /\ finbert.confidence + boost \in Nat
      /\ 6 * finbert.score + 4 * lexicon.score \in Int /\ 10 \in Nat \ {0}
  BY <1>5
<1>7. /\ Min({Full, lexicon.confidence \div 2 + boost}) \in Nat
      /\ Min({Full, finbert.confidence + boost}) \in Nat
  BY <1>6, FullThs
<1>8. Quotient(6 * finbert.score + 4 * lexicon.score, 10) \in Int
  BY <1>6, QuotientType
<1> QED
  BY <1>4, <1>5, <1>7, <1>8 DEF Reading, Readings

LEMMA PostType ==
  ASSUME NEW post \in PostTexts
  PROVE  OfPost(post) \in Readings
<1>1. PICK title \in Readings : title = LexiconScore(post)
  BY LexiconType DEF PostTexts
<1>2. PICK votes \in Readings : votes = PostToScore(post)
  <2>1. post.positive \in Nat /\ post.negative \in Nat
    BY DEF PostTexts
  <2>2. CASE post.positive + post.negative > 0
    <3>1. /\ Full * (post.positive - post.negative) \in Int
          /\ post.positive + post.negative + 1 \in Nat \ {0}
      BY <2>1, Scales
    <3>2. (2 * Full) \div 5 + (Full * (post.positive + post.negative)) \div 20 \in Nat
      <4>1. Full * (post.positive + post.negative) \in Nat
        BY <2>1, Scales
      <4> QED
        BY <4>1, Scales
    <3> QED
      BY <2>2, <3>1, <3>2, FullThs, QuotientType DEF PostToScore, Reading, Readings
  <2>3. CASE ~(post.positive + post.negative > 0)
    <3>1. Full \div 4 \in Nat
      BY Scales
    <3>2. PostToScore(post) = Reading(0, Full \div 4)
      BY <2>3 DEF PostToScore
    <3> QED
      BY <3>1, <3>2, ReadingType
  <2> QED
    BY <2>2, <2>3
<1>3. PICK closeness \in Nat : closeness = Min({Full, 2 * post.overlap + EntityKeywordBoost(post)})
  <2>1. 2 * post.overlap + EntityKeywordBoost(post) \in Nat
    BY BoostType DEF PostTexts
  <2> QED
    BY <2>1, FullThs
<1>4. OfPost(post) = Reading(IF votes.score # 0 THEN votes.score ELSE title.score,
                             (Max({votes.confidence, title.confidence}) * closeness) \div Full)
  BY <1>1, <1>2, <1>3 DEF OfPost
<1>5. votes.score \in Int /\ title.score \in Int /\ votes.confidence \in Nat /\ title.confidence \in Nat
  BY DEF Readings
<1>6. Max({votes.confidence, title.confidence}) \in Nat
  BY <1>5, TwoOf
<1>7. (Max({votes.confidence, title.confidence}) * closeness) \div Full \in Nat
  <2>1. Max({votes.confidence, title.confidence}) * closeness \in Nat
    BY <1>6
  <2> QED
    BY <2>1, Scales
<1> QED
  BY <1>4, <1>5, <1>7 DEF Reading, Readings

LEMMA GreatestOf ==
  ASSUME NEW D \in SUBSET Nat, IsFiniteSet(D)
  PROVE  \A s \in SUBSET D : s # {} => Max(s) \in s
<1> DEFINE Good == {s \in SUBSET D : s = {} \/ \E m \in s : \A j \in s : m >= j}
<1>1. ASSUME NEW s \in SUBSET D, \A t \in SUBSET s : t # s => t \in Good
      PROVE  s \in Good
  <2> SUFFICES ASSUME s # {} PROVE \E m \in s : \A j \in s : m >= j
    OBVIOUS
  <2>1. PICK x \in s : TRUE
    OBVIOUS
  <2>2. CASE s \ {x} = {}
    <3>1. \A j \in s : j = x /\ x \in Nat
      BY <2>2
    <3> QED
      BY <3>1, <2>1
  <2>3. CASE s \ {x} # {}
    <3>1. s \ {x} \in Good
      BY <1>1, <2>1
    <3>2. PICK m \in s \ {x} : \A j \in s \ {x} : m >= j
      BY <2>3, <3>1
    <3>3. m \in Nat /\ x \in Nat /\ \A j \in s : j \in Nat /\ (j = x \/ m >= j)
      BY <3>2
    <3>4. CASE m >= x
      BY <3>3, <3>4
    <3>5. CASE x >= m
      BY <3>3, <3>5, <2>1
    <3> QED
      BY <3>3, <3>4, <3>5
  <2> QED
    BY <2>2, <2>3
<1>2. \A s \in SUBSET D : s \in Good
  <2> HIDE DEF Good
  <2> QED
    BY <1>1, BySmaller
<1> QED
  BY <1>2 DEF Max

LEMMA SeqDomain ==
  ASSUME NEW S, NEW s \in Seq(S)
  PROVE  /\ Len(s) \in Nat /\ DOMAIN s = 1 .. Len(s) /\ DOMAIN s \in SUBSET Nat /\ IsFiniteSet(DOMAIN s)
         /\ \A k \in DOMAIN s : s[k] \in S
         /\ \A ps \in SUBSET DOMAIN s : ps \in SUBSET Nat /\ IsFiniteSet(ps)
<1>1. Len(s) \in Nat /\ DOMAIN s = 1 .. Len(s) /\ DOMAIN s \in SUBSET Nat /\ \A k \in DOMAIN s : s[k] \in S
  OBVIOUS
<1>2. IsFiniteSet(DOMAIN s)
  BY <1>1, FS_Interval
<1> QED
  BY <1>1, <1>2, FS_Subset

LEMMA KeptType ==
  ASSUME NEW S, NEW s \in Seq(S), NEW ps \in SUBSET DOMAIN s
  PROVE  Kept(s, ps) \in Seq(S) /\ \A k \in DOMAIN Kept(s, ps) : \E j \in ps : Kept(s, ps)[k] = s[j]
<1>1. ps \in SUBSET Nat /\ IsFiniteSet(ps) /\ \A j \in ps : s[j] \in S
  BY SeqDomain
<1>2. PICK n, f, h :
        /\ n \in Nat /\ n = Cardinality(ps) /\ f = Kept(s, ps) /\ DOMAIN f = 1 .. n /\ f = [k \in DOMAIN f |-> f[k]]
        /\ h \in [DOMAIN f -> ps] /\ \A k \in DOMAIN f : f[k] = s[h[k]]
  BY SMTT(20), <1>1, KeptElements
<1>3. f \in [1 .. n -> S]
  BY <1>1, <1>2
<1>4. f \in Seq(S)
  BY <1>2, <1>3
<1> QED
  BY <1>2, <1>4

LEMMA SignalsType ==
  ASSUME NEW question \in Texts, NEW posts \in Seq(PostTexts)
  PROVE  Signals(question, posts) \in Seq(Readings)
<1>1. PICK about \in Seq(PostTexts) : about = Kept(posts, {k \in DOMAIN posts : Matches(posts[k])})
  BY KeptType
<1>2. PICK own \in Readings : own = OfQuestion(question)
  BY QuestionType
<1>3. PICK ofPosts : ofPosts = [k \in DOMAIN about |-> OfPost(about[k])]
  OBVIOUS
<1>4. ofPosts \in Seq(Readings)
  <2>1. Len(about) \in Nat /\ DOMAIN about = 1 .. Len(about) /\ \A k \in DOMAIN about : about[k] \in PostTexts
    BY SeqDomain
  <2>2. ofPosts \in [1 .. Len(about) -> Readings]
    BY <1>3, <2>1, PostType
  <2>3. PICK n \in Nat : ofPosts \in [1 .. n -> Readings]
    BY <2>1, <2>2
  <2> QED
    BY <2>3
<1>5. PICK first \in Seq(Readings) : first = IF own.confidence > 0 THEN <<own>> ELSE <<>>
  <2>1. <<own>> \in Seq(Readings) /\ <<>> \in Seq(Readings)
    OBVIOUS
  <2>2. CASE own.confidence > 0
    BY <2>1, <2>2
  <2>3. CASE ~(own.confidence > 0)
    BY <2>1, <2>3
  <2> QED
    BY <2>2, <2>3
<1>6. Signals(question, posts) = first \o ofPosts
  BY <1>1, <1>2, <1>3, <1>5 DEF Signals
<1> QED
  BY <1>4, <1>6

LEMMA MergedType ==
  ASSUME NEW signals \in Seq(Readings)
  PROVE  MergedSignals(signals) \in Readings
<1>1. /\ IsFiniteSet(DOMAIN signals)
      /\ \A k \in DOMAIN signals : signals[k].score \in Int /\ signals[k].confidence \in Nat
  <2>1. IsFiniteSet(DOMAIN signals) /\ \A k \in DOMAIN signals : signals[k] \in Readings
    BY SeqDomain
  <2> QED
    BY <2>1 DEF Readings
<1>2. PICK weight \in Nat : weight = Total([k \in DOMAIN signals |-> signals[k].confidence])
  <2>1. /\ [k \in DOMAIN signals |-> signals[k].confidence] \in [DOMAIN signals -> Nat]
        /\ [k \in DOMAIN signals |-> signals[k].confidence] \in [DOMAIN signals -> Int]
    BY <1>1
  <2> QED
    BY <1>1, <2>1, TotalType
<1>3. PICK sum \in Int : sum = Total([k \in DOMAIN signals |-> signals[k].score * signals[k].confidence])
  <2>1. [k \in DOMAIN signals |-> signals[k].score * signals[k].confidence] \in [DOMAIN signals -> Int]
    BY <1>1
  <2> QED
    BY <1>1, <2>1, TotalType
<1>4. MergedSignals(signals) = Reading(IF weight = 0 THEN 0 ELSE Quotient(sum, weight), Min({weight, Full}))
  BY <1>2, <1>3 DEF MergedSignals
<1>5. (IF weight = 0 THEN 0 ELSE Quotient(sum, weight)) \in Int
  BY QuotientType
<1> QED
  BY <1>4, <1>5, FullThs, ReadingType

LEMMA RefreshType ==
  ASSUME NEW entry \in Entries
  PROVE  RefreshDivergence(entry) \in Entries /\ InStep(RefreshDivergence(entry))
<1>1. entry.pMarket \in Int /\ entry.score \in Int /\ entry.confidence \in Int
  BY DEF Entries
<1>2. PICK p \in Int : p = SentimentImpliedP(entry.pMarket, entry.score, entry.confidence)
  <2>1. SentimentImpliedP(entry.pMarket, entry.score, entry.confidence) \in 1 .. One - 1
    BY <1>1, ImpliedType, Zenon
  <2> QED
    BY <2>1, Scales
<1>3. PICK e : e = [entry EXCEPT !.pSentiment = p, !.divergence = p - entry.pMarket]
  OBVIOUS
<1>4. RefreshDivergence(entry) = e
  BY <1>2, <1>3 DEF RefreshDivergence
<1>5. e \in Entries
  <2>1. p - entry.pMarket \in Int
    BY <1>1
  <2> QED
    BY <1>3, <2>1 DEF Entries
<1>6. /\ e.pSentiment = p /\ e.divergence = p - entry.pMarket /\ e.pMarket = entry.pMarket
      /\ e.score = entry.score /\ e.confidence = entry.confidence
  BY <1>3 DEF Entries
<1> QED
  BY <1>2, <1>4, <1>5, <1>6 DEF InStep

LEMMA SentimentType ==
  ASSUME NEW report \in Reports
  PROVE  /\ ApplySentiment(Bootstrap(report.listing), Signals(report.question, report.posts)) \in Entries
         /\ InStep(ApplySentiment(Bootstrap(report.listing), Signals(report.question, report.posts)))
<1>1. /\ report.listing \in Listings /\ report.question \in Texts /\ report.posts \in Seq(PostTexts)
  BY SnapshotAssumption
<1>2. PICK signals \in Seq(Readings) : signals = Signals(report.question, report.posts)
  BY <1>1, SignalsType
<1>3. PICK p \in 1 .. One - 1 : p = Probability(report.listing.price)
  BY <1>1, ProbabilityType DEF Listings
<1>4. PICK entry : entry = Bootstrap(report.listing)
  OBVIOUS
<1>5. entry \in Entries /\ entry.pMarket = p /\ entry.pSentiment = p /\ entry.divergence = 0
      /\ entry.score = 0 /\ entry.confidence = 0
  BY <1>1, <1>3, <1>4 DEF Bootstrap, Entries, Listings
<1>6. InStep(entry)
  BY <1>5, ImpliedType DEF InStep
<1>7. CASE signals = <<>>
  BY <1>2, <1>4, <1>5, <1>6, <1>7 DEF ApplySentiment
<1>8. CASE signals # <<>>
  <2>1. PICK merged \in Readings : merged = MergedSignals(signals)
    BY MergedType
  <2>2. PICK e : e = [entry EXCEPT !.score = merged.score, !.confidence = merged.confidence, !.stale = FALSE]
    OBVIOUS
  <2>3. e \in Entries
    BY <1>5, <2>2 DEF Entries, Readings
  <2>4. ApplySentiment(entry, signals) = RefreshDivergence(e)
    BY <1>8, <2>1, <2>2 DEF ApplySentiment
  <2> QED
    BY <1>2, <1>4, <2>3, <2>4, RefreshType
<1> QED
  BY <1>7, <1>8

LEMMA TickType ==
  ASSUME NEW entry \in Entries, NEW tick \in Ticks
  PROVE  ApplyTick(entry, tick) \in Entries /\ InStep(ApplyTick(entry, tick))
<1>1. PICK p \in Int : p = Probability(tick.price)
  BY ProbabilityType DEF Ticks
<1>2. PICK e : e = [entry EXCEPT !.pMarket = p, !.ask = IF tick.ask = 0 THEN @ ELSE tick.ask,
                                 !.stale = tick.old]
  OBVIOUS
<1>3. e \in Entries
  BY <1>1, <1>2 DEF Entries, Ticks
<1>4. ApplyTick(entry, tick) = RefreshDivergence(e)
  BY <1>1, <1>2 DEF ApplyTick
<1> QED
  BY <1>3, <1>4, RefreshType

(* The ticks are applied one after another.                                 *)
Ticked(base, ticks) ==
  CHOOSE iter : iter = [s \in SUBSET DOMAIN ticks |->
    IF s = {} THEN base
    ELSE LET k == Max(s) IN ApplyTick(iter[s \ {k}], ticks[k])]

LEMMA TickedEntry ==
  ASSUME NEW base \in Entries, InStep(base), NEW ticks \in Seq(Ticks)
  PROVE  FoldLeft(ApplyTick, base, ticks) \in Entries /\ InStep(FoldLeft(ApplyTick, base, ticks))
<1> DEFINE D == DOMAIN ticks
           pick == [s \in SUBSET D |-> Max(s)]
           step == [a \in Entries \X D |-> ApplyTick(a[1], ticks[a[2]])]
           Equation(g) == g = [s \in SUBSET DOMAIN ticks |->
             IF s = {} THEN base ELSE LET k == Max(s) IN ApplyTick(g[s \ {k}], ticks[k])]
<1>1. IsFiniteSet(D) /\ D \in SUBSET Nat /\ \A k \in D : ticks[k] \in Ticks
  BY SeqDomain
<1>2. \A s \in SUBSET D : s # {} => pick[s] \in s /\ pick[s] = Max(s)
  BY <1>1, GreatestOf
<1>3. step \in [Entries \X D -> Entries]
  BY <1>1, TickType
<1>4. \E g : IsFold(g, Entries, D, pick, base, step)
  <2> HIDE DEF pick, step, D
  <2> QED
    BY <1>1, <1>2, <1>3, FoldDefined
<1>5. PICK g \in [SUBSET D -> Entries] : \A s \in SUBSET D :
        g[s] = IF s = {} THEN base ELSE step[<<g[s \ {pick[s]}], pick[s]>>]
  BY <1>4 DEF IsFold
<1>6. ASSUME NEW s \in SUBSET D, s # {}
      PROVE  g[s] = ApplyTick(g[s \ {Max(s)}], ticks[Max(s)])
  <2>1. pick[s] = Max(s) /\ Max(s) \in D /\ g[s \ {Max(s)}] \in Entries
    BY <1>2, <1>6
  <2>2. step[<<g[s \ {Max(s)}], Max(s)>>] = ApplyTick(g[s \ {Max(s)}], ticks[Max(s)])
    BY <2>1
  <2> HIDE DEF pick, step
  <2> QED
    BY <1>5, <1>6, <2>1, <2>2
<1>7. Equation(g)
  <2>1. \A s \in SUBSET D :
          g[s] = IF s = {} THEN base ELSE LET k == Max(s) IN ApplyTick(g[s \ {k}], ticks[k])
    BY <1>5, <1>6
  <2> QED
    BY <2>1
<1>8. Equation(Ticked(base, ticks))
  <2>1. \E h : Equation(h)
    BY <1>7
  <2> QED
    BY <2>1, Zenon DEF Ticked
<1>9. PICK t : t = Ticked(base, ticks)
  OBVIOUS
<1>10. \A s \in SUBSET D : t[s] = IF s = {} THEN base ELSE ApplyTick(t[s \ {Max(s)}], ticks[Max(s)])
  BY <1>8, <1>9
<1> DEFINE Good == {s \in SUBSET D : t[s] \in Entries /\ InStep(t[s])}
<1> HIDE DEF D
<1>11. ASSUME NEW s \in SUBSET D, \A u \in SUBSET s : u # s => u \in Good
       PROVE  s \in Good
  <2>1. CASE s = {}
    BY <2>1, <1>10
  <2>2. CASE s # {}
    <3>1. Max(s) \in s
      BY <1>1, <2>2, GreatestOf
    <3>2. t[s \ {Max(s)}] \in Entries /\ ticks[Max(s)] \in Ticks
      BY <1>1, <1>11, <3>1
    <3> QED
      BY <1>10, <2>2, <3>2, TickType
  <2> QED
    BY <2>1, <2>2
<1>12. D \in Good
  <2>1. D \in SUBSET D
    OBVIOUS
  <2> HIDE DEF Good
  <2>2. \A s \in SUBSET D : s \in Good
    BY <1>1, <1>11, BySmaller
  <2> QED
    BY <2>1, <2>2
<1>13. FoldLeft(ApplyTick, base, ticks) = t[D]
  BY <1>9, Zenon DEF FoldLeft, MapThenFoldSet, Ticked, D
<1> QED
  BY <1>12, <1>13

(* What a snapshot holds: of a live one every entry is in step.             *)
LEMMA SnapshotType ==
  ASSUME NEW fixture \in BOOLEAN, NEW snapshot_ \in Snapshots(fixture)
  PROVE  /\ IsFiniteSet(DOMAIN snapshot_.entry)
         /\ snapshot_.entry \in [DOMAIN snapshot_.entry -> Entries]
         /\ ~fixture => \A m \in DOMAIN snapshot_.entry : InStep(snapshot_.entry[m])
<1>1. CASE fixture
  BY <1>1, SnapshotAssumption DEF Snapshots
<1>2. CASE ~fixture
  <2> DEFINE Store(reports) == [m \in {n \in Markets : Active(reports[n].listing)} |-> LiveEntry(reports[m])]
  <2>1. PICK reports \in [Markets -> Reports] :
          snapshot_.entry = Store(reports) \/ snapshot_.entry = Aged(Store(reports))
    BY <1>2 DEF Snapshots
  <2>2. PICK entries : entries = Store(reports)
    OBVIOUS
  <2>3. ASSUME NEW m \in Markets PROVE LiveEntry(reports[m]) \in Entries /\ InStep(LiveEntry(reports[m]))
    <3>1. reports[m] \in Reports /\ reports[m].ticks \in Seq(Ticks)
      BY SnapshotAssumption
    <3> QED
      BY <3>1, SentimentType, TickedEntry DEF LiveEntry
  <2>4. /\ DOMAIN entries \in SUBSET Markets /\ entries \in [DOMAIN entries -> Entries]
        /\ \A m \in DOMAIN entries : InStep(entries[m])
    BY <2>2, <2>3
  <2>5. IsFiniteSet(DOMAIN entries)
    BY <2>4, SnapshotAssumption, FS_Subset
  <2>6. /\ DOMAIN Aged(entries) = DOMAIN entries /\ Aged(entries) \in [DOMAIN entries -> Entries]
        /\ \A m \in DOMAIN entries : InStep(Aged(entries)[m])
    BY <2>4 DEF Aged, Entries, InStep
  <2> QED
    BY <2>1, <2>2, <2>4, <2>5, <2>6
<1> QED
  BY <1>1, <1>2

LEMMA KeptWhich ==
  ASSUME NEW S, NEW s \in Seq(S), NEW ps \in SUBSET DOMAIN s, NEW R, \A j \in ps : s[j] \in R
  PROVE  Kept(s, ps) \in Seq(R)
<1>1. Kept(s, ps) \in Seq(S) /\ \A k \in DOMAIN Kept(s, ps) : \E j \in ps : Kept(s, ps)[k] = s[j]
  BY KeptType
<1>2. PICK t : t = Kept(s, ps)
  OBVIOUS
<1>3. t \in Seq(S) /\ \A k \in DOMAIN t : t[k] \in R
  BY <1>1, <1>2
<1> QED
  BY <1>2, <1>3

LEMMA KeptAll ==
  ASSUME NEW S, NEW s \in Seq(S)
  PROVE  Kept(s, DOMAIN s) = s
<1>1. PICK n \in Nat : DOMAIN s = 1 .. n /\ s = [k \in 1 .. n |-> s[k]] /\ Cardinality(1 .. n) = n
  <2>1. Len(s) \in Nat /\ DOMAIN s = 1 .. Len(s) /\ s = [k \in 1 .. Len(s) |-> s[k]]
    OBVIOUS
  <2>2. Cardinality(1 .. Len(s)) = Len(s)
    BY <2>1, FS_Interval
  <2> QED
    BY <2>1, <2>2
<1>2. ASSUME NEW j \in 1 .. n PROVE Cardinality({i \in 1 .. n : i <= j}) = j
  <2>1. {i \in 1 .. n : i <= j} = 1 .. j /\ j \in Nat
    OBVIOUS
  <2>2. Cardinality(1 .. j) = j
    BY <2>1, FS_Interval
  <2> QED
    BY <2>1, <2>2
<1>3. ASSUME NEW k \in 1 .. n
      PROVE  (CHOOSE j \in 1 .. n : Cardinality({i \in 1 .. n : i <= j}) = k) = k
  <2>1. \A j \in 1 .. n : Cardinality({i \in 1 .. n : i <= j}) = k <=> j = k
    BY <1>2
  <2> DEFINE Counted(j) == Cardinality({i \in 1 .. n : i <= j}) = k
  <2> HIDE DEF Counted
  <2>2. \A j \in 1 .. n : Counted(j) <=> j = k
    BY <2>1 DEF Counted
  <2>3. (CHOOSE j \in 1 .. n : Counted(j)) = k
    BY <2>2
  <2> QED
    BY <2>3 DEF Counted
<1>4. Kept(s, 1 .. n) = [k \in 1 .. n |->
                          s[CHOOSE j \in 1 .. n : Cardinality({i \in 1 .. n : i <= j}) = k]]
  BY <1>1 DEF Kept
<1>5. Kept(s, 1 .. n) = [k \in 1 .. n |-> s[k]]
  BY <1>3, <1>4
<1> QED
  BY <1>1, <1>5

-----------------------------------------------------------------------------
(* What is bet on a snapshot.                                               *)
(* C says which confidences the rows may have: the rules' are all numbers.  *)
Rows(S, C) ==
  [market : S, side : {"BUY_YES", "BUY_NO"}, pModel : Int \cup {NaN}, confidence : C]

Rankings(r, C) == \E S : r \in Seq(Rows(S, C))

Favours(bet, entry) ==
  IF bet.outcome = "YES"
  THEN bet.pBlended > AskOf(entry)
  ELSE bet.pBlended < entry.pMarket

BetsOf(entries, C, wagers) ==
  {bet \in [market : DOMAIN entries, outcome : {"YES", "NO"}, pBlended : Int,
            confidence : C, wager : wagers] :
     Favours(bet, entries[bet.market])}

Bets(entries, C) == BetsOf(entries, C, MinBet .. MaxPosition)

LEMMA NaNIsNoNumber == NaN \notin Int
BY CycleAssumption

LEMMA Limits ==
  /\ Nav \in Nat /\ MaxPosition \in Nat /\ MaxGross \in Nat /\ MinBet \in Nat \ {0}
  /\ MinBet <= MaxPosition /\ MaxPosition <= MaxGross
  /\ ThetaDen \in Nat \ {0} /\ WMarket \in Nat /\ WModel \in Nat /\ WSentiment \in Nat
BY CycleAssumption

LEMMA NormalizedType ==
  ASSUME NEW fixture \in BOOLEAN, NEW heard \in Snapshots(fixture)
  PROVE  /\ DOMAIN Normalized(heard) = DOMAIN heard.entry /\ IsFiniteSet(DOMAIN Normalized(heard))
         /\ Normalized(heard) \in [DOMAIN Normalized(heard) -> Entries]
<1>1. IsFiniteSet(DOMAIN heard.entry) /\ heard.entry \in [DOMAIN heard.entry -> Entries]
  BY SnapshotType
<1>2. ASSUME NEW m \in DOMAIN heard.entry
      PROVE  [heard.entry[m] EXCEPT !.stale = @ /\ ~heard.old, !.pMarket = Probability(@),
                                    !.pSentiment = Probability(@)] \in Entries
  <2>1. PICK e \in Entries : e = heard.entry[m]
    BY <1>1
  <2>2. PICK p, q : p \in Int /\ q \in Int /\ p = Probability(e.pMarket) /\ q = Probability(e.pSentiment)
    <3>1. e.pMarket \in Int /\ e.pSentiment \in Int
      BY DEF Entries
    <3>2. Probability(e.pMarket) \in 1 .. One - 1 /\ Probability(e.pSentiment) \in 1 .. One - 1
      BY <3>1, ProbabilityType
    <3> QED
      BY <3>2, Scales
  <2>3. PICK b \in BOOLEAN : b = (e.stale /\ ~heard.old)
    OBVIOUS
  <2>4. [e EXCEPT !.stale = b, !.pMarket = p, !.pSentiment = q] \in Entries
    BY <2>2 DEF Entries
  <2> QED
    BY <2>1, <2>2, <2>3, <2>4 DEF Entries
<1> QED
  BY <1>1, <1>2 DEF Normalized

LEMMA SetToSeqType ==
  ASSUME NEW S, IsFiniteSet(S)
  PROVE  SetToSeq(S) \in Seq(S) /\ DOMAIN SetToSeq(S) = 1 .. Cardinality(S)
<1>1. Cardinality(S) \in Nat /\ ExistsBijection(1 .. Cardinality(S), S)
  BY FS_CardinalityType
<1>2. \E f \in [1 .. Cardinality(S) -> S] : IsInjective(f)
  BY <1>1 DEF ExistsBijection, Bijection, Injection
<1>3. SetToSeq(S) \in [1 .. Cardinality(S) -> S]
  BY <1>2 DEF SetToSeq
<1> QED
  BY <1>1, <1>3

LEMMA RulesType ==
  ASSUME NEW entries, IsFiniteSet(DOMAIN entries), entries \in [DOMAIN entries -> Entries]
  PROVE  Rankings(RankedByRules(entries), {"number"})
<1> DEFINE S == {m \in DOMAIN entries : PassesGuards(entries[m])}
           Rows_ == Rows(S, {"number"})
           Row(m) == [market |-> m,
                      side |-> IF entries[m].divergence > 0 THEN "BUY_YES" ELSE "BUY_NO",
                      pModel |-> Probability(entries[m].pMarket + entries[m].divergence),
                      confidence |-> "number"]
<1>1. PICK eligible : eligible = SetToSeq(S)
  OBVIOUS
<1>2. eligible \in Seq(S)
  <2>1. IsFiniteSet(S)
    BY FS_Subset
  <2> QED
    BY <1>1, <2>1, SetToSeqType
<1>3. ASSUME NEW m \in S PROVE Row(m) \in Rows_
  <2>1. entries[m].pMarket + entries[m].divergence \in Int
    BY DEF Entries
  <2>2. Probability(entries[m].pMarket + entries[m].divergence) \in Int
    BY <2>1, ProbabilityType, Scales
  <2> QED
    BY <2>2 DEF Rows
<1>4. RankedByRules(entries) = [k \in DOMAIN eligible |-> Row(eligible[k])]
  BY <1>1 DEF RankedByRules
<1>5. Len(eligible) \in Nat /\ DOMAIN eligible = 1 .. Len(eligible) /\ \A k \in DOMAIN eligible : eligible[k] \in S
  BY <1>2, SeqDomain
<1>6. PICK n \in Nat : RankedByRules(entries) \in [1 .. n -> Rows_]
  <2> HIDE DEF S, Row, Rows_
  <2>1. RankedByRules(entries) \in [1 .. Len(eligible) -> Rows_]
    BY <1>3, <1>4, <1>5
  <2> QED
    BY <1>5, <2>1
<1>7. RankedByRules(entries) \in Seq(Rows_)
  <2> HIDE DEF Rows_
  <2> QED
    BY <1>6
<1> QED
  BY <1>7 DEF Rankings

LEMMA ModelType ==
  ASSUME NEW rows \in ModelRows
  PROVE  Rankings(RankedByModel(rows), Confidences)
<1> DEFINE S == {row.market : row \in ToSet(rows)}
           Rows_ == Rows(S, Confidences)
           All == [market : S, side : {"BUY_YES", "BUY_NO", "HOLD"}, pModel : Int \cup {NaN},
                   confidence : Confidences]
<1>1. /\ rows \in Seq(ToSet(rows))
      /\ \A row \in ToSet(rows) : row \in [market : {row.market}, side : {row.side},
                                         pModel : Int \cup {NaN}, confidence : Confidences]
  BY CycleAssumption
<1>2. ASSUME NEW row \in ToSet(rows) PROVE Mended(row) \in All
  <2>1. row.pModel \in Int \/ row.pModel = NaN
    BY <1>1
  <2>2. PICK p \in Int \cup {NaN} : p = IF row.pModel = NaN THEN NaN ELSE Probability(row.pModel)
    <3>1. CASE row.pModel = NaN
      BY <3>1
    <3>2. CASE row.pModel # NaN
      <4>1. Probability(row.pModel) \in 1 .. One - 1
        BY <2>1, <3>2, ProbabilityType
      <4> QED
        BY <3>2, <4>1, Scales
    <3> QED
      BY <3>1, <3>2
  <2>3. Mended(row) = [row EXCEPT !.side = IF @ \in {"BUY_YES", "BUY_NO"} THEN @ ELSE "HOLD",
                                    !.pModel = p]
    BY <1>1, <2>2 DEF Mended
  <2> QED
    BY <1>1, <2>3
<1>3. PICK mended : mended = [k \in DOMAIN rows |-> Mended(rows[k])]
  OBVIOUS
<1>4. Len(rows) \in Nat /\ DOMAIN rows = 1 .. Len(rows) /\ \A k \in DOMAIN rows : rows[k] \in ToSet(rows)
  BY <1>1, SeqDomain
<1>5. PICK n \in Nat : mended \in [1 .. n -> All]
  <2> HIDE DEF All
  <2>1. mended \in [1 .. Len(rows) -> All]
    BY <1>2, <1>3, <1>4
  <2> QED
    BY <1>4, <2>1
<1>6. mended \in Seq(All) /\ DOMAIN mended = DOMAIN rows
  <2> HIDE DEF All
  <2> QED
    BY <1>3, <1>5
<1>7. PICK ps \in SUBSET DOMAIN mended : ps = {k \in DOMAIN rows : mended[k].side # "HOLD"}
  BY <1>6
<1>8. RankedByModel(rows) = Kept(mended, ps)
  BY <1>3, <1>7 DEF RankedByModel
<1>9. \A j \in ps : mended[j] \in Rows_
  <2>1. \A j \in ps : mended[j] \in All /\ mended[j].side # "HOLD"
    BY <1>6, <1>7, SeqDomain
  <2> QED
    BY <2>1 DEF Rows
<1>10. Kept(mended, ps) \in Seq(Rows_)
  <2> HIDE DEF Rows_, All
  <2> QED
    BY <1>6, <1>9, KeptWhich
<1> QED
  BY <1>8, <1>10 DEF Rankings

LEMMA BlendedType ==
  ASSUME NEW entry \in Entries, NEW pModel \in Int \cup {NaN}
  PROVE  Blended(entry, pModel) \in Int \cup {NaN}
<1>1. PICK sum \in Nat : sum = WMarket + WModel + WSentiment
  BY Limits
<1>2. entry.pMarket \in Int /\ entry.pSentiment \in Int
  BY DEF Entries
<1>3. CASE sum = 0
  <2>1. Probability(entry.pMarket) \in 1 .. One - 1
    BY <1>2, ProbabilityType
  <2>2. Blended(entry, pModel) = Probability(entry.pMarket)
    BY <1>1, <1>3 DEF Blended
  <2> QED
    BY <2>1, <2>2, Scales
<1>4. CASE sum # 0 /\ pModel = NaN
  BY <1>1, <1>4 DEF Blended
<1>5. CASE sum # 0 /\ pModel # NaN
  <2>1. PICK a \in Int : a = WMarket * entry.pMarket + WModel * pModel + WSentiment * entry.pSentiment
    BY <1>2, <1>5, Limits
  <2>2. a \div sum \in Int
    BY <1>5
  <2>3. Probability(a \div sum) \in 1 .. One - 1
    BY <2>2, ProbabilityType
  <2>4. Blended(entry, pModel) = Probability(a \div sum)
    BY <1>1, <1>5, <2>1 DEF Blended
  <2> QED
    BY <2>3, <2>4, Scales
<1> QED
  BY <1>3, <1>4, <1>5

(* A wager is made only on a probability above the price.                   *)
LEMMA WagerType ==
  ASSUME NEW p \in Int, NEW price \in Int
  PROVE  /\ Constrained(FractionalKelly(p, price)) \in Nat
         /\ Constrained(FractionalKelly(p, price)) > 0
              => p > price /\ Constrained(FractionalKelly(p, price)) \in MinBet .. MaxPosition
<1>1. PICK kelly \in Int : kelly = FractionalKelly(p, price) /\ (kelly > 0 => p > price)
  <2>1. CASE price <= 0 \/ price >= One \/ p <= price
    BY <2>1 DEF FractionalKelly
  <2>2. CASE ~(price <= 0 \/ price >= One \/ p <= price)
    <3>1. One - price \in Nat \ {0}
      BY <2>2, Scales
    <3>2. PICK d \in Nat \ {0} : d = ThetaDen * (One - price)
      BY <3>1, Limits
    <3>3. (p - price) * Nav \in Int
      BY Limits
    <3>4. ((p - price) * Nav) \div d \in Int
      BY <3>2, <3>3
    <3>5. FractionalKelly(p, price) = ((p - price) * Nav) \div d
      BY <2>2, <3>2 DEF FractionalKelly
    <3> QED
      BY <2>2, <3>4, <3>5
  <2> QED
    BY <2>1, <2>2
<1>2. PICK capped \in Int : capped = Min({kelly, MaxPosition}) /\ capped = IF kelly <= MaxPosition THEN kelly ELSE MaxPosition
  <2>1. Min({kelly, MaxPosition}) = IF kelly <= MaxPosition THEN kelly ELSE MaxPosition
    BY TwoOf, Limits
  <2> QED
    BY <2>1, Limits
<1>3. Constrained(kelly) = IF capped >= MinBet THEN capped ELSE 0
  BY <1>2 DEF Constrained
<1> QED
  BY <1>1, <1>2, <1>3, Limits

LEMMA SizedType ==
  ASSUME NEW entries, NEW C, entries \in [DOMAIN entries -> Entries],
         NEW S, NEW row \in Rows(S, C), row.market \in DOMAIN entries
  PROVE  LET bet == SizedBet(row, entries[row.market])
         IN bet.wager \in Nat /\ (bet.wager > 0 => bet \in Bets(entries, C))
<1>1. PICK entry \in Entries : entry = entries[row.market]
  OBVIOUS
<1>2. PICK p \in Int \cup {NaN} : p = Blended(entry, row.pModel)
  BY BlendedType DEF Rows
<1>3. entry.pMarket \in Int /\ AskOf(entry) \in Int /\ One \in Int
  BY Scales DEF Entries, AskOf
<1>4. PICK w : w = Constrained(IF row.side = "BUY_YES" THEN FractionalKelly(p, AskOf(entry))
                                 ELSE FractionalKelly(One - p, One - entry.pMarket))
  OBVIOUS
<1>5. PICK bet : bet = [market |-> row.market, outcome |-> IF row.side = "BUY_YES" THEN "YES" ELSE "NO",
                        pBlended |-> p, confidence |-> row.confidence,
                        wager |-> IF p = NaN THEN 0 ELSE w]
  OBVIOUS
<1>6. SizedBet(row, entry) = bet
  BY <1>2, <1>4, <1>5 DEF SizedBet
<1>7. row.side \in {"BUY_YES", "BUY_NO"} /\ row.confidence \in C
  BY DEF Rows
<1>8. CASE p = NaN
  BY <1>1, <1>5, <1>6, <1>8
<1>9. CASE p # NaN /\ row.side = "BUY_YES"
  <2>1. w = Constrained(FractionalKelly(p, AskOf(entry))) /\ p \in Int
    BY <1>2, <1>4, <1>9
  <2>2. w \in Nat /\ (w > 0 => p > AskOf(entry) /\ w \in MinBet .. MaxPosition)
    BY <1>3, <2>1, WagerType
  <2> QED
    BY <1>1, <1>5, <1>6, <1>7, <1>9, <2>1, <2>2 DEF Bets, BetsOf, Favours
<1>10. CASE p # NaN /\ row.side = "BUY_NO"
  <2>1. w = Constrained(FractionalKelly(One - p, One - entry.pMarket)) /\ p \in Int
    BY <1>2, <1>4, <1>10
  <2>2. One - p \in Int /\ One - entry.pMarket \in Int
    BY <1>3, <2>1
  <2>3. w \in Nat /\ (w > 0 => One - p > One - entry.pMarket /\ w \in MinBet .. MaxPosition)
    BY <2>1, <2>2, WagerType
  <2>4. w > 0 => p < entry.pMarket
    BY <1>3, <2>1, <2>3
  <2> QED
    BY <1>1, <1>5, <1>6, <1>7, <1>10, <2>1, <2>3, <2>4 DEF Bets, BetsOf, Favours
<1> QED
  BY <1>7, <1>8, <1>9, <1>10

LEMMA CandidatesType ==
  ASSUME NEW entries, NEW C, entries \in [DOMAIN entries -> Entries],
         NEW ranking, Rankings(ranking, C)
  PROVE  Candidates(ranking, entries) \in Seq(Bets(entries, C))
<1>1. PICK S : ranking \in Seq(Rows(S, C))
  BY DEF Rankings
<1> DEFINE Rows_ == Rows(S, C)
           Known == {row \in Rows_ : row.market \in DOMAIN entries}
<1>2. PICK ps \in SUBSET DOMAIN ranking :
        ps = {k \in DOMAIN ranking : ranking[k].market \in DOMAIN entries}
  OBVIOUS
<1>3. \A j \in ps : ranking[j] \in Known
  <2>1. ranking \in Seq(Rows_)
    BY <1>1
  <2> HIDE DEF Rows_
  <2>2. \A k \in DOMAIN ranking : ranking[k] \in Rows_
    BY <2>1, SeqDomain
  <2> QED
    BY <1>2, <2>2
<1>4. PICK known \in Seq(Known) : known = Kept(ranking, ps)
  <2>1. ranking \in Seq(Rows_)
    BY <1>1
  <2> HIDE DEF Rows_, Known
  <2> QED
    BY <1>3, <2>1, KeptWhich
<1>5. Len(known) \in Nat /\ DOMAIN known = 1 .. Len(known) /\ \A k \in DOMAIN known : known[k] \in Known
  <2> HIDE DEF Known
  <2> QED
    BY SeqDomain
<1>6. PICK sized : sized = [k \in DOMAIN known |-> SizedBet(known[k], entries[known[k].market])]
  OBVIOUS
<1>7. ASSUME NEW k \in DOMAIN known
      PROVE  sized[k].wager > 0 => sized[k] \in Bets(entries, C)
  <2>1. known[k] \in Rows_ /\ known[k].market \in DOMAIN entries
    BY <1>5
  <2>2. PICK row \in Rows_ : row = known[k] /\ row.market \in DOMAIN entries
    BY <2>1
  <2>3. sized[k] = SizedBet(row, entries[row.market])
    BY <1>6, <2>2
  <2> QED
    BY <2>2, <2>3, SizedType
<1>8. PICK All : sized \in Seq(All) /\ DOMAIN sized = DOMAIN known
  <2> DEFINE all == {sized[k] : k \in DOMAIN known}
  <2>1. sized \in [1 .. Len(known) -> all]
    BY <1>5, <1>6
  <2>2. PICK n \in Nat : sized \in [1 .. n -> all]
    BY <1>5, <2>1
  <2>3. sized \in Seq(all) /\ DOMAIN sized = DOMAIN known
    <3>1. DOMAIN sized = DOMAIN known
      BY <1>6
    <3> HIDE DEF all
    <3>2. sized \in Seq(all)
      BY <2>2
    <3> QED
      BY <3>1, <3>2
  <2> QED
    BY <2>3
<1>9. PICK qs \in SUBSET DOMAIN sized : qs = {k \in DOMAIN sized : sized[k].wager > 0}
  OBVIOUS
<1>10. Candidates(ranking, entries) = Kept(sized, qs)
  BY <1>2, <1>4, <1>6, <1>9 DEF Candidates
<1>11. \A j \in qs : sized[j] \in Bets(entries, C)
  BY <1>7, <1>8, <1>9
<1> QED
  BY <1>8, <1>10, <1>11, KeptWhich

LEMMA Wagers ==
  ASSUME NEW entries, NEW C, NEW bets \in Seq(Bets(entries, C))
  PROVE  /\ Len(bets) \in Nat /\ DOMAIN bets = 1 .. Len(bets) /\ IsFiniteSet(DOMAIN bets)
         /\ \A k \in DOMAIN bets : bets[k] \in Bets(entries, C) /\ bets[k].wager \in MinBet .. MaxPosition
         /\ [k \in DOMAIN bets |-> bets[k].wager] \in [DOMAIN bets -> Nat]
         /\ Gross(bets) \in Nat
<1>1. /\ Len(bets) \in Nat /\ DOMAIN bets = 1 .. Len(bets) /\ IsFiniteSet(DOMAIN bets)
      /\ \A k \in DOMAIN bets : bets[k] \in Bets(entries, C)
  BY SeqDomain
<1>2. \A k \in DOMAIN bets : bets[k].wager \in MinBet .. MaxPosition
  BY <1>1 DEF Bets, BetsOf
<1>3. PICK f : f = [k \in DOMAIN bets |-> bets[k].wager]
  OBVIOUS
<1>4. f \in [DOMAIN bets -> Nat] /\ f \in [DOMAIN bets -> Int]
  BY <1>2, <1>3, Limits
<1>5. Total(f) \in Nat
  BY <1>1, <1>4, TotalType
<1> QED
  BY <1>1, <1>2, <1>3, <1>4, <1>5 DEF Gross

LEMMA RewageredType ==
  ASSUME NEW entries, NEW C, NEW bet \in Bets(entries, C), NEW wager \in MinBet .. MaxPosition
  PROVE  WithWager(bet, wager) \in Bets(entries, C) /\ WithWager(bet, wager).wager = wager
BY DEF Bets, BetsOf, Favours, WithWager

(* The weights the solver ends with stay within the limits.                 *)
LEMMA ProjectedType ==
  ASSUME NEW D, IsFiniteSet(D), NEW asked \in [D -> Int]
  PROVE  /\ Projected(asked) \in [D -> Nat]
         /\ \A k \in D : Projected(asked)[k] <= MaxPosition
         /\ Total(Projected(asked)) <= MaxGross
<1>1. PICK capped : capped = [k \in DOMAIN asked |-> Capped(asked[k])]
  OBVIOUS
<1>2. \A k \in D : Clamp(asked[k], 0, MaxPosition) \in 0 .. MaxPosition
  <2>1. 0 <= MaxPosition /\ 0 \in Int /\ MaxPosition \in Int
    BY Limits
  <2> QED
    BY <2>1, ClampType
<1>3. /\ capped \in [D -> Nat] /\ capped \in [D -> Int]
      /\ \A k \in D : capped[k] \in Nat /\ capped[k] <= MaxPosition /\ capped[k] # NaN
  BY <1>1, <1>2, NaNIsNoNumber, Limits DEF Capped
<1>4. PICK gross \in Nat : gross = Total(capped)
  BY <1>3, TotalType
<1>5. CASE gross <= MaxGross
  <2>1. Projected(asked) = capped
    BY <1>1, <1>4, <1>5, Limits DEF Projected
  <2> QED
    BY <1>3, <1>4, <1>5, <2>1
<1>6. CASE gross > MaxGross
  <2>1. PICK scaled : scaled = [k \in D |-> (capped[k] * MaxGross) \div gross]
    OBVIOUS
  <2>2. Projected(asked) = scaled
    BY <1>1, <1>3, <1>4, <1>6, <2>1 DEF Projected
  <2>3. gross \in Nat \ {0} /\ MaxGross \in Nat
    BY <1>6, Limits
  <2>4. ASSUME NEW k \in D PROVE scaled[k] \in Nat /\ scaled[k] <= MaxPosition
    <3>1. PICK c \in Nat : c = capped[k] /\ c <= MaxPosition
      BY <1>3
    <3>2. c * MaxGross <= c * gross /\ c * MaxGross \in Nat
      BY <1>6, <2>3
    <3>3. PICK a \in Nat : a = c * MaxGross /\ a <= c * gross
      BY <3>2
    <3>4. (a \div gross) \in Nat /\ (a \div gross) * gross <= a
      BY <2>3
    <3>5. PICK q \in Nat : q = a \div gross /\ q * gross <= c * gross
      BY <2>3, <3>3, <3>4
    <3>6. q <= c
      <4> SUFFICES ASSUME q >= c + 1 PROVE FALSE
        OBVIOUS
      <4>1. q * gross >= (c + 1) * gross
        BY <2>3
      <4> QED
        BY <2>3, <3>5, <4>1
    <3> QED
      BY <2>1, <3>1, <3>3, <3>5, <3>6, Limits
  <2>5. Total(scaled) <= MaxGross
    BY <1>3, <1>4, <2>1, <2>3, SumScaled
  <2>6. scaled \in [D -> Nat]
    BY <2>1, <2>4
  <2> QED
    BY <2>2, <2>4, <2>5, <2>6
<1> QED
  BY <1>4, <1>5, <1>6, Limits

LEMMA WeightedType ==
  ASSUME NEW entries, NEW C, NEW bets \in Seq(Bets(entries, C)),
         NEW weights \in [DOMAIN bets -> Nat],
         \A k \in DOMAIN bets : weights[k] <= MaxPosition, Total(weights) <= MaxGross
  PROVE  Weighted(bets, weights) \in Seq(Bets(entries, C)) /\ Gross(Weighted(bets, weights)) <= MaxGross
<1>1. PICK weighted : weighted = [k \in DOMAIN bets |-> WithWager(bets[k], weights[k])]
  OBVIOUS
<1>2. PICK ps : ps = {k \in DOMAIN bets : weights[k] >= MinBet}
  OBVIOUS
<1>3. Weighted(bets, weights) = Kept(weighted, ps)
  <2>1. \A k \in DOMAIN bets : weights[k] # NaN
    BY NaNIsNoNumber
  <2> QED
    BY <1>1, <1>2, <2>1 DEF Weighted
<1>4. /\ DOMAIN bets \in SUBSET Nat /\ IsFiniteSet(DOMAIN bets)
      /\ ps \in SUBSET DOMAIN bets /\ ps \in SUBSET Nat /\ IsFiniteSet(ps)
  BY <1>2, SeqDomain
<1>5. ASSUME NEW k \in ps
      PROVE  weighted[k] \in Bets(entries, C) /\ weighted[k].wager = weights[k]
  <2>1. bets[k] \in Bets(entries, C) /\ weights[k] \in Nat /\ weights[k] <= MaxPosition
    BY <1>4, Wagers
  <2>2. weighted[k] = WithWager(bets[k], weights[k]) /\ weights[k] >= MinBet
    BY <1>1, <1>2
  <2>3. weighted[k].wager = weights[k]
    BY <2>1, <2>2 DEF WithWager, Bets, BetsOf
  <2>4. weights[k] \in MinBet .. MaxPosition
    BY <2>1, <2>2, Limits
  <2> QED
    BY <2>1, <2>2, <2>3, <2>4, RewageredType
<1>6. /\ Cardinality(ps) \in Nat /\ DOMAIN Kept(weighted, ps) = 1 .. Cardinality(ps)
      /\ Kept(weighted, ps) = [k \in DOMAIN Kept(weighted, ps) |-> Kept(weighted, ps)[k]]
  BY <1>4, KeptElements
<1>7. PICK h \in [DOMAIN Kept(weighted, ps) -> ps] :
        /\ \A j, k \in DOMAIN Kept(weighted, ps) : h[j] = h[k] => j = k
        /\ \A k \in DOMAIN Kept(weighted, ps) : Kept(weighted, ps)[k] = weighted[h[k]]
  BY <1>4, KeptElements, Zenon
<1>8. PICK kept, n : kept = Kept(weighted, ps) /\ n = Cardinality(ps)
  OBVIOUS
<1>9. /\ n \in Nat /\ DOMAIN kept = 1 .. n /\ kept = [k \in DOMAIN kept |-> kept[k]]
      /\ h \in [DOMAIN kept -> ps] /\ (\A j, k \in DOMAIN kept : h[j] = h[k] => j = k)
      /\ \A k \in DOMAIN kept : kept[k] = weighted[h[k]]
  BY <1>6, <1>7, <1>8
<1>10. ASSUME NEW k \in DOMAIN kept
      PROVE  h[k] \in ps /\ kept[k] \in Bets(entries, C) /\ kept[k].wager = weights[h[k]]
  <2>1. h[k] \in ps
    BY <1>9
  <2> QED
    BY <1>5, <1>9, <2>1
<1>11. kept \in Seq(Bets(entries, C))
  <2>1. kept \in [1 .. n -> Bets(entries, C)]
    BY <1>9, <1>10
  <2> QED
    BY <1>9, <2>1
<1>12. Gross(kept) <= MaxGross
  <2>1. PICK g : g = [k \in DOMAIN kept |-> kept[k].wager]
    OBVIOUS
  <2>2. IsFiniteSet(DOMAIN kept) /\ g \in [DOMAIN kept -> Nat] /\ Gross(kept) = Total(g) /\ DOMAIN g = DOMAIN kept
    BY <1>11, <2>1, Wagers DEF Gross
  <2>3. h \in [DOMAIN kept -> DOMAIN bets] /\ \A k \in DOMAIN kept : g[k] <= weights[h[k]]
    <3>1. ASSUME NEW k \in DOMAIN kept PROVE h[k] \in DOMAIN bets /\ g[k] <= weights[h[k]]
      <4>1. g[k] = weights[h[k]] /\ h[k] \in DOMAIN bets
        BY <1>4, <1>10, <2>1
      <4>2. weights[h[k]] \in Nat
        BY <4>1
      <4> QED
        BY <4>1, <4>2
    <3> QED
      BY <1>9, <3>1
  <2>4. DOMAIN kept \in SUBSET DOMAIN kept /\ DOMAIN bets \in SUBSET DOMAIN bets /\ DOMAIN weights = DOMAIN bets
    OBVIOUS
  <2>5. Sums(g)[DOMAIN kept] <= Sums(weights)[DOMAIN bets]
    BY <1>4, <1>9, <2>2, <2>3, <2>4, SumOfSome
  <2>6. Total(g) <= Total(weights)
    BY <2>2, <2>4, <2>5, TotalIsSum
  <2>7. Total(g) \in Nat /\ Total(weights) \in Nat
    <3>1. g \in [DOMAIN kept -> Int] /\ weights \in [DOMAIN bets -> Int]
      BY <2>2
    <3> QED
      BY <1>4, <2>2, <3>1, TotalType
  <2> QED
    BY <2>2, <2>6, <2>7, Limits
<1> QED
  BY <1>3, <1>8, <1>11, <1>12

(* Taking one more bet keeps within the limit.                              *)
Books(entries, C) == {bets \in Seq(Bets(entries, C)) : Gross(bets) <= MaxGross}

LEMMA AppendType ==
  ASSUME NEW S, NEW s \in Seq(S), NEW e \in S
  PROVE  /\ Append(s, e) \in Seq(S)
         /\ Len(s) \in Nat /\ DOMAIN s = 1 .. Len(s) /\ DOMAIN Append(s, e) = 1 .. Len(s) + 1
         /\ Append(s, e)[Len(s) + 1] = e /\ \A k \in 1 .. Len(s) : Append(s, e)[k] = s[k]
OBVIOUS

LEMMA GrossOfMore ==
  ASSUME NEW entries, NEW C, NEW bets \in Seq(Bets(entries, C)), NEW bet \in Bets(entries, C)
  PROVE  /\ Append(bets, bet) \in Seq(Bets(entries, C))
         /\ Gross(Append(bets, bet)) <= Gross(bets) + bet.wager
<1>1. PICK more \in Seq(Bets(entries, C)) : more = Append(bets, bet)
  BY AppendType
<1>2. PICK n : /\ n \in Nat /\ n = Len(bets) /\ DOMAIN bets = 1 .. n /\ DOMAIN more = 1 .. n + 1
               /\ more[n + 1] = bet /\ \A k \in 1 .. n : more[k] = bets[k]
  BY <1>1, AppendType
<1>3. more[n + 1] = bet /\ \A k \in 1 .. n : more[k] = bets[k]
  BY <1>2
<1>4. PICK f, g : f = [k \in DOMAIN more |-> more[k].wager] /\ g = [k \in DOMAIN bets |-> bets[k].wager]
  OBVIOUS
<1>5. f \in [DOMAIN more -> Nat] /\ g \in [DOMAIN bets -> Nat] /\ IsFiniteSet(DOMAIN bets)
  BY <1>1, <1>4, Wagers
<1>6. DOMAIN more = DOMAIN bets \cup {n + 1} /\ n + 1 \notin DOMAIN bets
  BY <1>2
<1>7. f[n + 1] = bet.wager /\ \A k \in DOMAIN bets : f[k] = g[k]
  BY <1>2, <1>3, <1>4, <1>6
<1>8. Total(f) <= Total(g) + f[n + 1]
  BY <1>5, <1>6, <1>7, SumOfOneMore
<1> QED
  BY <1>1, <1>4, <1>7, <1>8 DEF Gross

LEMMA TakeType ==
  ASSUME NEW entries, NEW C, NEW chosen \in Books(entries, C), NEW bet \in Bets(entries, C)
  PROVE  Take(chosen, bet) \in Books(entries, C)
<1>1. PICK left \in Int : left = MaxGross - Gross(chosen) /\ chosen \in Seq(Bets(entries, C)) /\ Gross(chosen) \in Nat
  <2>1. chosen \in Seq(Bets(entries, C))
    BY DEF Books
  <2>2. Gross(chosen) \in Nat
    BY <2>1, Wagers
  <2> QED
    BY <2>1, <2>2, Limits
<1>2. bet.wager \in MinBet .. MaxPosition
  BY DEF Bets, BetsOf
<1>3. CASE bet.wager <= left
  <2>1. Take(chosen, bet) = Append(chosen, bet)
    BY <1>1, <1>3 DEF Take
  <2>2. PICK more \in Seq(Bets(entries, C)) : more = Append(chosen, bet) /\ Gross(more) <= Gross(chosen) + bet.wager
    BY <1>1, GrossOfMore
  <2>3. Gross(more) \in Nat
    BY Wagers
  <2>4. Gross(more) <= MaxGross
    BY <1>1, <1>2, <1>3, <2>2, <2>3, Limits
  <2> QED
    BY <2>1, <2>2, <2>4 DEF Books
<1>4. CASE ~(bet.wager <= left) /\ left >= MinBet
  <2>1. left \in MinBet .. MaxPosition
    BY <1>2, <1>4, Limits
  <2>2. PICK cut \in Bets(entries, C) : cut = WithWager(bet, left) /\ cut.wager = left
    BY <2>1, RewageredType
  <2>3. Take(chosen, bet) = Append(chosen, cut)
    BY <1>1, <1>4, <2>2 DEF Take
  <2>4. PICK more \in Seq(Bets(entries, C)) : more = Append(chosen, cut) /\ Gross(more) <= Gross(chosen) + left
    BY <1>1, <2>2, GrossOfMore
  <2>5. Gross(more) \in Nat
    BY Wagers
  <2>6. Gross(more) <= MaxGross
    BY <1>1, <2>4, <2>5, Limits
  <2> QED
    BY <2>3, <2>4, <2>6 DEF Books
<1>5. CASE ~(bet.wager <= left) /\ ~(left >= MinBet)
  BY <1>1, <1>5 DEF Take
<1> QED
  BY <1>3, <1>4, <1>5

(* The bets are taken one after another.                                    *)
Taken(bets) ==
  CHOOSE iter : iter = [s \in SUBSET DOMAIN bets |->
    IF s = {} THEN <<>>
    ELSE LET k == Max(s) IN Take(iter[s \ {k}], bets[k])]

LEMMA NoBets ==
  ASSUME NEW entries, NEW C
  PROVE  <<>> \in Books(entries, C)
<1>1. PICK f : f = [k \in DOMAIN <<>> |-> <<>>[k].wager]
  OBVIOUS
<1>2. <<>> \in Seq(Bets(entries, C)) /\ DOMAIN <<>> = {} /\ DOMAIN f = {}
  BY <1>1
<1>3. f \in [{} -> Int] /\ IsFiniteSet({})
  BY <1>1, <1>2, FS_EmptySet
<1>4. Sums(f)[{}] = 0
  BY <1>3, SumsDefined DEF IsSum
<1>5. Gross(<<>>) = 0
  BY <1>1, <1>2, <1>4, TotalIsSum DEF Gross
<1> QED
  BY <1>2, <1>5, Limits DEF Books

LEMMA GreedyType ==
  ASSUME NEW entries, NEW C, NEW bets \in Seq(Bets(entries, C))
  PROVE  Greedy(bets) \in Books(entries, C)
<1> DEFINE D == DOMAIN bets
           A == Books(entries, C)
           pick == [s \in SUBSET D |-> Max(s)]
           step == [a \in A \X D |-> Take(a[1], bets[a[2]])]
           Equation(g) == g = [s \in SUBSET DOMAIN bets |->
             IF s = {} THEN <<>> ELSE LET k == Max(s) IN Take(g[s \ {k}], bets[k])]
<1>1. IsFiniteSet(D) /\ D \in SUBSET Nat /\ \A k \in D : bets[k] \in Bets(entries, C)
  BY SeqDomain
<1>2. \A s \in SUBSET D : s # {} => pick[s] \in s /\ pick[s] = Max(s)
  BY <1>1, GreatestOf
<1>3. step \in [A \X D -> A] /\ <<>> \in A
  <2>1. \A a \in A, k \in D : Take(a, bets[k]) \in A
    BY <1>1, TakeType
  <2>2. <<>> \in A
    BY NoBets
  <2> HIDE DEF A, D
  <2> QED
    BY <2>1, <2>2
<1>4. \E g : IsFold(g, A, D, pick, <<>>, step)
  <2> HIDE DEF pick, step, D, A
  <2> QED
    BY <1>1, <1>2, <1>3, FoldDefined
<1>5. PICK g \in [SUBSET D -> A] : \A s \in SUBSET D :
        g[s] = IF s = {} THEN <<>> ELSE step[<<g[s \ {pick[s]}], pick[s]>>]
  BY <1>4 DEF IsFold
<1> HIDE DEF A
<1>6. ASSUME NEW s \in SUBSET D, s # {}
      PROVE  g[s] = Take(g[s \ {Max(s)}], bets[Max(s)])
  <2>1. pick[s] = Max(s) /\ Max(s) \in D /\ g[s \ {Max(s)}] \in A
    BY <1>2, <1>6
  <2>2. step[<<g[s \ {Max(s)}], Max(s)>>] = Take(g[s \ {Max(s)}], bets[Max(s)])
    BY <2>1
  <2> HIDE DEF pick, step
  <2> QED
    BY <1>5, <1>6, <2>1, <2>2
<1>7. Equation(g)
  <2>1. \A s \in SUBSET D :
          g[s] = IF s = {} THEN <<>> ELSE LET k == Max(s) IN Take(g[s \ {k}], bets[k])
    BY <1>5, <1>6
  <2> QED
    BY <2>1
<1>8. Equation(Taken(bets))
  <2>1. \E h : Equation(h)
    BY <1>7
  <2> QED
    BY <2>1, Zenon DEF Taken
<1>9. PICK t : t = Taken(bets)
  OBVIOUS
<1>10. \A s \in SUBSET D : t[s] = IF s = {} THEN <<>> ELSE Take(t[s \ {Max(s)}], bets[Max(s)])
  BY <1>8, <1>9
<1> DEFINE Good == {s \in SUBSET D : t[s] \in A}
<1> HIDE DEF D
<1>11. ASSUME NEW s \in SUBSET D, \A u \in SUBSET s : u # s => u \in Good
       PROVE  s \in Good
  <2>1. CASE s = {}
    BY <1>3, <1>10, <2>1
  <2>2. CASE s # {}
    <3>1. Max(s) \in s
      BY <1>1, <2>2, GreatestOf
    <3>2. t[s \ {Max(s)}] \in Books(entries, C) /\ bets[Max(s)] \in Bets(entries, C)
      BY <1>1, <1>11, <3>1 DEF A
    <3>3. Take(t[s \ {Max(s)}], bets[Max(s)]) \in A
      BY <3>2, TakeType DEF A
    <3> QED
      BY <1>10, <2>2, <3>3
  <2> QED
    BY <2>1, <2>2
<1>12. D \in Good
  <2>1. D \in SUBSET D
    OBVIOUS
  <2> HIDE DEF Good
  <2>2. \A s \in SUBSET D : s \in Good
    BY <1>1, <1>11, BySmaller
  <2> QED
    BY <2>1, <2>2
<1>13. Greedy(bets) = t[D]
  BY <1>9, Zenon DEF Greedy, FoldLeft, MapThenFoldSet, Taken, D
<1> QED
  BY <1>12, <1>13 DEF A

(* Bets of which none has a size.                                           *)
Blank(entries, C) == {bets \in Seq(BetsOf(entries, C, {NaN})) : HaveNoSize(bets)}

(* A confidence that is no number takes the size of every bet.              *)
LEMMA SizesLost ==
  ASSUME NEW entries, NEW C, NEW order \in Seq(Bets(entries, C)), Len(order) > 1,
         NEW k \in DOMAIN order, order[k].confidence = "text",
         NEW asked \in Requests(order)
  PROVE  "text" \in C /\ Allocated(order, asked) \in Blank(entries, C)
<1>1. PICK n \in Nat : n = Len(order) /\ n > 1 /\ DOMAIN order = 1 .. n
  BY Wagers
<1>2. asked = [j \in 1 .. n |-> NaN]
  BY <1>1 DEF Requests
<1>3. Projected(asked) = asked
  <2>1. [j \in DOMAIN asked |-> Capped(asked[j])] = asked
    BY <1>2 DEF Capped
  <2>2. 1 \in DOMAIN asked /\ asked[1] = NaN
    BY <1>1, <1>2
  <2> QED
    BY <2>1, <2>2 DEF Projected
<1>4. \A j \in 1 .. n : order[j] \in Bets(entries, C)
  BY <1>1, Wagers
<1>5. PICK blank : blank = [j \in 1 .. n |-> WithWager(order[j], NaN)]
  OBVIOUS
<1>6. ASSUME NEW j \in 1 .. n
      PROVE  /\ blank[j] \in BetsOf(entries, C, {NaN}) /\ blank[j].wager = NaN
             /\ blank[j].confidence = order[j].confidence
  BY <1>4, <1>5 DEF Bets, BetsOf, Favours, WithWager
<1>7. blank \in Seq(BetsOf(entries, C, {NaN})) /\ DOMAIN blank = 1 .. n /\ Len(blank) = n
  <2>1. PICK B : B = BetsOf(entries, C, {NaN})
    OBVIOUS
  <2>2. blank \in [1 .. n -> B]
    BY <1>5, <1>6, <2>1
  <2>3. blank \in Seq(B) /\ DOMAIN blank = 1 .. n /\ Len(blank) = n
    BY <1>1, <2>2
  <2> QED
    BY <2>1, <2>3
<1>8. Weighted(order, asked) = blank
  <2>1. [j \in DOMAIN order |-> WithWager(order[j], asked[j])] = blank
    BY <1>1, <1>2, <1>5
  <2>2. {j \in DOMAIN order : asked[j] = NaN \/ asked[j] >= MinBet} = DOMAIN blank
    BY <1>1, <1>2, <1>7
  <2>3. Weighted(order, asked) = Kept(blank, DOMAIN blank)
    BY <2>1, <2>2 DEF Weighted
  <2> QED
    BY <1>7, <2>3, KeptAll
<1>9. HaveNoSize(blank)
  BY <1>1, <1>6, <1>7 DEF HaveNoSize
<1>10. Allocated(order, asked) = blank
  <2>1. blank # <<>>
    BY <1>1, <1>7
  <2> QED
    BY <1>3, <1>8, <2>1 DEF Allocated
<1>11. "text" \in C
  BY <1>1, <1>4 DEF Bets, BetsOf
<1> QED
  BY <1>7, <1>9, <1>10, <1>11 DEF Blank

(* However the bets are allocated, they are candidates within the limits,   *)
(* unless they have lost their sizes.                                       *)
LEMMA AllocationsType ==
  ASSUME NEW entries, NEW C, NEW bets \in Seq(Bets(entries, C)), NEW result \in Allocations(bets)
  PROVE  \/ result \in Books(entries, C)
         \/ "text" \in C /\ result \in Blank(entries, C)
<1>1. PICK n \in Nat : n = Len(bets) /\ DOMAIN bets = 1 .. n /\ IsFiniteSet(DOMAIN bets)
  BY Wagers
<1>2. CASE n <= 1
  <2>1. result = bets
    BY <1>1, <1>2 DEF Allocations
  <2>2. PICK f : f = [k \in DOMAIN bets |-> bets[k].wager]
    OBVIOUS
  <2>3. f \in [DOMAIN bets -> Nat] /\ f \in [DOMAIN bets -> Int] /\ Gross(bets) = Total(f) /\ DOMAIN f = DOMAIN bets
    BY <2>2, Wagers DEF Gross
  <2>4. CASE n = 0
    <3>1. bets = <<>>
      BY <1>1, <2>4
    <3> QED
      BY <2>1, <3>1, NoBets
  <2>5. CASE n = 1
    <3>1. DOMAIN bets = {1} /\ 1 \in DOMAIN bets /\ DOMAIN bets \ {1} = {} /\ f \in [{1} -> Int]
      BY <1>1, <2>3, <2>5
    <3>2. Sums(f)[DOMAIN bets] = f[1] + Sums(f)[DOMAIN bets \ {1}]
      <4>1. IsFiniteSet(DOMAIN bets) /\ f \in [DOMAIN bets -> Int] /\ 1 \in DOMAIN bets
        BY <1>1, <2>3, <3>1
      <4> QED
        BY <4>1, SumTakesOne
    <3>3. Sums(f)[{}] = 0
      BY <1>1, <3>1, SumsDefined DEF IsSum
    <3>4. f[1] \in MinBet .. MaxPosition
      BY <2>2, <3>1, Wagers
    <3>5. Total(f) = f[1]
      <4>1. Total(f) = Sums(f)[DOMAIN bets]
        BY <1>1, <2>3, TotalIsSum
      <4>2. Sums(f)[DOMAIN bets] = f[1] + 0
        BY <3>1, <3>2, <3>3
      <4> QED
        BY <3>4, <4>1, <4>2, Limits
    <3> QED
      BY <2>1, <2>3, <3>4, <3>5, Limits DEF Books
  <2> QED
    BY <1>2, <2>4, <2>5
<1>3. CASE ~(n <= 1)
  <2>1. PICK order \in Orders(bets) : \E asked \in Requests(order) : result = Allocated(order, asked)
    BY <1>1, <1>3 DEF Allocations
  <2>2. PICK p \in [DOMAIN bets -> DOMAIN bets] : order = [k \in DOMAIN bets |-> bets[p[k]]]
    BY DEF Orders
  <2>3. order \in Seq(Bets(entries, C)) /\ DOMAIN order = DOMAIN bets
    <3>1. \A k \in DOMAIN bets : bets[p[k]] \in Bets(entries, C)
      BY Wagers
    <3>2. order \in [1 .. n -> Bets(entries, C)]
      BY <1>1, <2>2, <3>1
    <3> QED
      BY <2>2, <3>2
  <2>4. PICK asked \in Requests(order) : result = Allocated(order, asked)
    BY <2>1
  <2>5. CASE \E k \in DOMAIN order : order[k].confidence = "text"
    <3>1. Len(order) > 1
      BY <1>1, <1>3, <2>3, Wagers
    <3> QED
      BY <2>3, <2>4, <2>5, <3>1, SizesLost
  <2>6. CASE ~\E k \in DOMAIN order : order[k].confidence = "text"
    <3>1. PICK weights : weights = Projected(asked)
      OBVIOUS
    <3>2. /\ weights \in [DOMAIN order -> Nat] /\ Total(weights) <= MaxGross
          /\ \A k \in DOMAIN order : weights[k] <= MaxPosition
      <4>1. asked \in [DOMAIN order -> Int]
        BY <2>6, Limits DEF Requests
      <4> QED
        BY <1>1, <2>3, <3>1, <4>1, ProjectedType
    <3>3. Weighted(order, weights) \in Books(entries, C)
      BY <2>3, <3>2, WeightedType DEF Books
    <3>4. Greedy(order) \in Books(entries, C)
      BY <2>3, GreedyType
    <3> QED
      BY <2>4, <3>1, <3>3, <3>4 DEF Allocated
  <2> QED
    BY <2>5, <2>6
<1> QED
  BY <1>2, <1>3

(* So are the results of a cycle, whoever ranked; only what a language model *)
(* ranked may have lost its sizes.                                          *)
LEMMA ResultsType ==
  ASSUME NEW fixture \in BOOLEAN, NEW heard \in Snapshots(fixture), NEW useLlm,
         NEW result \in Results(heard, useLlm)
  PROVE  \/ \E C : result \in Books(Normalized(heard), C)
         \/ useLlm /\ \E C : result \in Blank(Normalized(heard), C)
<1>1. PICK entries : entries = Normalized(heard) /\ IsFiniteSet(DOMAIN entries)
                     /\ entries \in [DOMAIN entries -> Entries]
  BY NormalizedType
<1>2. ASSUME NEW C, NEW ranking, Rankings(ranking, C), result \in Allocations(Candidates(ranking, entries))
      PROVE  result \in Books(entries, C) \/ ("text" \in C /\ result \in Blank(entries, C))
  <2>1. PICK bets \in Seq(Bets(entries, C)) : bets = Candidates(ranking, entries)
    BY <1>1, <1>2, CandidatesType
  <2> QED
    BY <1>2, <2>1, AllocationsType
<1>3. Rankings(RankedByRules(entries), {"number"})
      /\ \A rows \in ModelRows : Rankings(RankedByModel(rows), Confidences)
  BY <1>1, RulesType, ModelType
<1>4. CASE result = <<>>
  BY <1>1, <1>4, NoBets
<1>5. CASE result \in Allocations(Candidates(RankedByRules(entries), entries))
  <2>1. result \in Books(entries, {"number"})
    BY <1>2, <1>3, <1>5
  <2> QED
    BY <1>1, <2>1
<1>6. CASE useLlm /\ \E rows \in ModelRows : result \in Allocations(Candidates(RankedByModel(rows), entries))
  <2>1. result \in Books(entries, Confidences) \/ result \in Blank(entries, Confidences)
    BY <1>2, <1>3, <1>6
  <2> QED
    BY <1>1, <1>6, <2>1
<1>7. \/ result = <<>>
      \/ result \in Allocations(Candidates(RankedByRules(entries), entries))
      \/ useLlm /\ \E rows \in ModelRows : result \in Allocations(Candidates(RankedByModel(rows), entries))
  BY <1>1 DEF Results, ModelRankings, EmptyCycle
<1> QED
  BY <1>4, <1>5, <1>6, <1>7

-----------------------------------------------------------------------------
(* The daemon decides on a snapshot and relays what it made of it.          *)
DecidedInv ==
  /\ flags \in Starts
  /\ at \in {"deciding", "relaying"} => snapshot \in Snapshots(~flags.live)
  /\ at = "relaying" => intents \in Results(snapshot, flags.llm) /\ (flags.signs => HaveSize(intents))
  /\ at # "relaying" => intents = <<>>

LEMMA DecidedStarts == Init => DecidedInv
BY DEF Init, DecidedInv

LEMMA DecidedStep ==
  ASSUME DecidedInv, [Next]_vars
  PROVE  DecidedInv'
<1>1. CASE UNCHANGED <<flags, at, snapshot, intents>>
  BY <1>1 DEF DecidedInv
<1>2. CASE BuildSnapshot
  BY <1>2 DEF DecidedInv, BuildSnapshot, GoesTo
<1>3. CASE RunCognitiveCycle \/ SigningThrows
  BY <1>3 DEF DecidedInv, RunCognitiveCycle, SigningThrows, GoesTo, HaveSize
<1>4. CASE RelayIntents
  BY <1>4 DEF DecidedInv, RelayIntents, GoesTo
<1>5. CASE CycleCutOff
  BY <1>5 DEF DecidedInv, CycleCutOff
<1>6. CASE CarryOut /\ ~RelayIntents
  <2>1. /\ flags' = flags /\ intents' = intents
        /\ at \notin {"deciding", "relaying"} /\ at' \notin {"deciding", "relaying"}
    BY <1>6 DEF CarryOut, Execute, Executed, Tracking, Tracked, CrossChain, Audit, Anchoring,
         Anchored, Report, Reported, CycleThrows, GoesTo, cycleVars
  <2> QED
    BY <2>1 DEF DecidedInv
<1>7. CASE CommandLineStep \/ Outside \/ UNCHANGED vars
  BY <1>1, <1>7 DEF CommandLineStep, Outside, vars, cycleVars
<1> QED
  BY <1>2, <1>3, <1>4, <1>5, <1>6, <1>7 DEF Next, Decide

LEMMA DecidedAlways == Spec => []DecidedInv
<1>1. DecidedInv /\ [Next]_vars => DecidedInv'
  BY DecidedStep
<1> QED
  BY DecidedStarts, <1>1, PTL DEF Spec

LEMMA LiveIsBoolean ==
  ASSUME DecidedInv
  PROVE  (~flags.live) \in BOOLEAN
<1>1. flags \in Starts
  BY DEF DecidedInv
<1>2. Starts \subseteq [live : BOOLEAN, llm : BOOLEAN, crossChain : BOOLEAN, anchor : BOOLEAN,
                      trackFills : BOOLEAN, signs : BOOLEAN, commandLine : BOOLEAN]
  BY DaemonAssumption
<1> QED
  BY <1>1, <1>2

LEMMA IntentsAre ==
  ASSUME DecidedInv
  PROVE  \/ at # "relaying" /\ intents = <<>>
         \/ at = "relaying" /\ \E C : intents \in Books(Normalized(snapshot), C)
         \/ /\ at = "relaying" /\ flags.llm /\ ~flags.signs
            /\ \E C : intents \in Blank(Normalized(snapshot), C)
<1>1. CASE at = "relaying"
  <2>1. snapshot \in Snapshots(~flags.live) /\ intents \in Results(snapshot, flags.llm)
        /\ (flags.signs => HaveSize(intents))
    BY <1>1 DEF DecidedInv
  <2>2. \/ \E C : intents \in Books(Normalized(snapshot), C)
        \/ flags.llm /\ \E C : intents \in Blank(Normalized(snapshot), C)
    BY <2>1, LiveIsBoolean, ResultsType
  <2>3. ASSUME NEW C, intents \in Blank(Normalized(snapshot), C) PROVE ~HaveSize(intents)
    BY <2>3, SeqDomain DEF Blank, HaveNoSize, HaveSize
  <2> QED
    BY <1>1, <2>1, <2>2, <2>3
<1> QED
  BY <1>1 DEF DecidedInv

(* Whatever posts, votes and ticks are heard, the divergence a live cycle   *)
(* ranks by is the one its sentiment makes of its price (aggregator/store): *)
(* of every market, for any ticks in any order.                             *)
THEOREM CycleSnapshotInStep == Spec => []SnapshotInStep
<1>1. ASSUME DecidedInv PROVE SnapshotInStep
  <2> SUFFICES ASSUME at = "deciding" /\ flags.live
               PROVE  \A m \in DOMAIN snapshot.entry : InStep(snapshot.entry[m])
    BY DEF SnapshotInStep
  <2>1. snapshot \in Snapshots(FALSE)
    BY <1>1 DEF DecidedInv
  <2> QED
    BY <2>1, SnapshotType
<1> QED
  BY DecidedAlways, <1>1, PTL

(* What a cycle bets is within the gross limit and every bet within its own *)
(* (qp-solver.ts, multi-market.ts), for any number of markets and whatever  *)
(* the solver's gradient asks for or a language model answers: but that a   *)
(* confidence in words leaves the bets of a daemon without a key no size.   *)
THEOREM CycleWithinBudget == Spec => []BetsWithinBudget
<1>1. ASSUME DecidedInv PROVE BetsWithinBudget
  <2>1. ASSUME NEW entries, NEW C, intents \in Books(entries, C) PROVE WithinBudget(intents)
    <3>1. PICK bets \in Seq(Bets(entries, C)) : bets = intents /\ Gross(bets) <= MaxGross
      BY <2>1 DEF Books
    <3>2. \A k \in DOMAIN bets : bets[k].wager \in MinBet .. MaxPosition
      BY Wagers
    <3> QED
      BY <3>1, <3>2 DEF WithinBudget
  <2>2. CASE at # "relaying" /\ intents = <<>>
    <3>1. intents \in Books(Normalized(snapshot), {})
      BY <2>2, NoBets
    <3> QED
      BY <2>1, <3>1 DEF BetsWithinBudget
  <2>3. CASE \E C : intents \in Books(Normalized(snapshot), C)
    BY <2>1, <2>3 DEF BetsWithinBudget
  <2>4. CASE flags.llm /\ ~flags.signs /\ \E C : intents \in Blank(Normalized(snapshot), C)
    BY <2>4 DEF BetsWithinBudget, Blank
  <2> QED
    BY <1>1, <2>2, <2>3, <2>4, IntentsAre
<1> QED
  BY DecidedAlways, <1>1, PTL

(* No bet is on a side its own probability is against (sizer.ts), whoever   *)
(* ranked the markets and whatever the weights of the blend.                *)
THEOREM CycleOnBelief == Spec => []BetsOnBelief
<1>1. ASSUME DecidedInv PROVE BetsOnBelief
  <2> SUFFICES ASSUME at = "relaying" PROVE OnItsBelief(intents, Normalized(snapshot))
    BY DEF BetsOnBelief
  <2>1. PICK entries : entries = Normalized(snapshot)
    OBVIOUS
  <2>2. \E C, wagers : intents \in Seq(BetsOf(entries, C, wagers))
    BY <1>1, <2>1, IntentsAre DEF Books, Bets, Blank
  <2>3. PICK C, wagers : intents \in Seq(BetsOf(entries, C, wagers))
    BY <2>2
  <2>4. \A k \in DOMAIN intents : intents[k] \in BetsOf(entries, C, wagers)
    BY <2>3, SeqDomain
  <2> QED
    BY <2>1, <2>4 DEF OnItsBelief, BetsOf, Favours
<1> QED
  BY DecidedAlways, <1>1, PTL

-----------------------------------------------------------------------------
(* Orders, ids and fills.  The ids are in the order the orders were posted  *)
(* in, some left out.                                                       *)
Posted ==
  /\ IsSeq(orders) /\ IsSeq(ids) /\ posted \in Nat /\ Len(ids) <= posted
  /\ \A q \in DOMAIN ids : ids[q] \in Int /\ (ids[q] >= q \/ -ids[q] >= q)

(* What the user channel told of an order the exchange has filled of it.    *)
Exchanged ==
  /\ DOMAIN filled \subseteq Nat \ {0} /\ \A k \in DOMAIN filled : filled[k] \in Nat
  /\ \A k \in DOMAIN inbox :
       k \in DOMAIN filled /\ inbox[k].lots \in Nat /\ inbox[k].lots <= filled[k]
  /\ \A k \in DOMAIN found :
       /\ k \in DOMAIN filled /\ found[k].id = k /\ found[k].order = k
       /\ found[k].lots \in Nat /\ found[k].lots <= filled[k]

Made(fill) ==
  /\ fill.lots \in Nat
  /\ fill.source = "exchange" /\ fill.lots > 0
       => fill.id \in DOMAIN filled /\ fill.lots <= filled[fill.id]

(* The fill at a position is of the id there.                               *)
FiledAt(fill, p) ==
  /\ p \in Nat \ {0}
  /\ p \in DOMAIN ids => fill.id = ids[p]
  /\ fill.order = p \/ (fill.order = fill.id /\ fill.id \in Nat)

FillsSo == \A p \in DOMAIN fills : Made(fills[p]) /\ FiledAt(fills[p], p)

TracksSo ==
  /\ at = "posting" => tracking = "off"
  /\ tracking \in {"off", "waiting"} => fills = <<>>
  /\ tracking \in {"off", "waiting"} => polled = 0
  /\ tracking = "polling" =>
       IsSeq(fills) /\ polled \in Nat /\ Len(fills) = IF polled <= Len(ids) THEN polled ELSE Len(ids)

FillsInv == Posted /\ Exchanged /\ FillsSo /\ TracksSo

LEMMA SeqIs ==
  ASSUME NEW s, IsSeq(s)
  PROVE  Len(s) \in Nat /\ DOMAIN s = 1 .. Len(s)
BY DEF IsSeq

LEMMA BatchStarts ==
  ASSUME NEW batch, IsSeq(batch), StartBatch(batch)
  PROVE  FillsInv'
<1>1. /\ orders' = batch /\ posted' = 0 /\ ids' = <<>> /\ filled' = NoFills /\ tracking' = "off"
      /\ inbox' = NoFills /\ found' = NoFills /\ polled' = 0 /\ fills' = <<>>
  BY DEF StartBatch
<1>2. IsSeq(ids') /\ Len(ids') = 0 /\ DOMAIN ids' = {} /\ DOMAIN fills' = {}
  BY <1>1, EmptyIsSeq
<1>3. Posted'
  BY <1>1, <1>2 DEF Posted
<1>4. DOMAIN NoFills = {}
  BY DEF NoFills
<1>5. Exchanged'
  BY <1>1, <1>4 DEF Exchanged
<1>6. FillsSo' /\ TracksSo'
  BY <1>1, <1>2 DEF FillsSo, TracksSo
<1> QED
  BY <1>3, <1>5, <1>6 DEF FillsInv

LEMMA FillsStart ==
  ASSUME Init
  PROVE  FillsInv
<1>1. /\ orders = <<>> /\ posted = 0 /\ ids = <<>> /\ filled = NoFills /\ tracking = "off"
      /\ inbox = NoFills /\ found = NoFills /\ polled = 0 /\ fills = <<>> /\ at = "idle"
  BY DEF Init, FillInit
<1>2. IsSeq(ids) /\ Len(ids) = 0 /\ DOMAIN ids = {} /\ DOMAIN fills = {} /\ IsSeq(orders)
  BY <1>1, EmptyIsSeq
<1>3. Posted
  BY <1>1, <1>2 DEF Posted
<1>4. DOMAIN NoFills = {}
  BY DEF NoFills
<1>5. Exchanged
  BY <1>1, <1>4 DEF Exchanged
<1>6. FillsSo /\ TracksSo
  BY <1>1, <1>2 DEF FillsSo, TracksSo
<1> QED
  BY <1>3, <1>5, <1>6 DEF FillsInv

LEMMA FillsTrackAgain ==
  ASSUME FillsInv, TrackAgain
  PROVE  FillsInv'
<1>1. /\ tracking' = "off" /\ inbox' = NoFills /\ found' = NoFills /\ polled' = 0 /\ fills' = <<>>
      /\ UNCHANGED <<orders, posted, ids, filled>>
  BY DEF TrackAgain
<1>2. DOMAIN fills' = {} /\ DOMAIN NoFills = {}
  BY <1>1, EmptyIsSeq DEF NoFills
<1>3. Posted' /\ Exchanged'
  BY <1>1, <1>2 DEF FillsInv, Posted, Exchanged
<1>4. FillsSo' /\ TracksSo'
  BY <1>1, <1>2 DEF FillsSo, TracksSo
<1> QED
  BY <1>3, <1>4 DEF FillsInv

(* What changes neither ids nor fills, and only adds to what is filled.     *)
LEMMA FillsGoOn ==
  ASSUME FillsInv, UNCHANGED <<orders, posted, ids, fills, polled, tracking>>, Exchanged',
         DOMAIN filled \subseteq DOMAIN filled',
         \A k \in DOMAIN filled : filled[k] <= filled'[k] /\ filled'[k] \in Nat,
         at' = "posting" => at = "posting"
  PROVE  FillsInv'
<1>1. Posted'
  BY DEF FillsInv, Posted
<1>2. FillsSo'
  <2> SUFFICES ASSUME NEW p \in DOMAIN fills PROVE Made(fills[p])' /\ FiledAt(fills[p], p)'
    BY DEF FillsSo
  <2>1. Made(fills[p]) /\ FiledAt(fills[p], p) /\ \A k \in DOMAIN filled : filled[k] \in Nat
    BY DEF FillsInv, FillsSo, Exchanged
  <2> QED
    BY <2>1 DEF Made, FiledAt
<1>3. TracksSo'
  BY DEF FillsInv, TracksSo
<1> QED
  BY <1>1, <1>2, <1>3 DEF FillsInv

LEMMA FillsPosts ==
  ASSUME FillsInv, at = "posting", NEW id \in {posted + 1, -(posted + 1), 0},
         NEW takes, Posts(id, takes)
  PROVE  FillsInv'
<1>1. /\ posted' = posted + 1 /\ ids' = IF id = 0 THEN ids ELSE Append(ids, id)
      /\ UNCHANGED <<orders, tracking, inbox, found, polled, fills>>
      /\ filled' = filled \/ filled' = [k \in DOMAIN filled \cup {posted + 1} |->
                                          IF k \in DOMAIN filled THEN filled[k] ELSE 0]
  BY DEF Posts, Held
<1>2. tracking = "off" /\ fills = <<>> /\ DOMAIN fills = {} /\ polled = 0
  BY EmptyIsSeq DEF FillsInv, TracksSo
<1>3. posted \in Nat /\ IsSeq(ids) /\ Len(ids) <= posted /\ IsSeq(orders)
  BY DEF FillsInv, Posted
<1>4. /\ Len(ids) \in Nat /\ DOMAIN ids = 1 .. Len(ids)
      /\ \A q \in DOMAIN ids : ids[q] \in Int /\ (ids[q] >= q \/ -ids[q] >= q)
  BY <1>3, SeqIs DEF FillsInv, Posted
<1>5. Posted'
  <2>1. CASE id = 0
    BY <1>1, <1>3, <1>4, <2>1 DEF Posted
  <2>2. CASE id # 0
    <3>1. /\ ids' = Append(ids, id) /\ IsSeq(ids') /\ DOMAIN ids' = 1 .. Len(ids) + 1
          /\ (\A k \in DOMAIN ids : ids'[k] = ids[k]) /\ ids'[Len(ids) + 1] = id
      BY <1>1, <1>3, <2>2, AppendIsSeq
    <3>2. Len(ids') = Len(ids) + 1
      BY <1>4, <3>1 DEF IsSeq
    <3>3. id \in Int /\ (id >= Len(ids) + 1 \/ -id >= Len(ids) + 1)
      BY <1>3, <1>4, <2>2
    <3>4. \A q \in DOMAIN ids' : ids'[q] \in Int /\ (ids'[q] >= q \/ -ids'[q] >= q)
      <4> TAKE q \in DOMAIN ids'
      <4>1. CASE q \in DOMAIN ids
        BY <1>4, <3>1, <4>1
      <4>2. CASE q \notin DOMAIN ids
        <5>1. q = Len(ids) + 1
          BY <1>4, <3>1, <4>2
        <5> QED
          BY <3>1, <3>3, <5>1
      <4> QED
        BY <4>1, <4>2
    <3> QED
      BY <1>1, <1>3, <1>4, <3>1, <3>2, <3>4 DEF Posted
  <2> QED
    BY <2>1, <2>2
<1>6. Exchanged'
  BY <1>1, <1>3 DEF FillsInv, Exchanged
<1>7. FillsSo' /\ TracksSo'
  BY <1>1, <1>2 DEF FillsSo, TracksSo
<1> QED
  BY <1>5, <1>6, <1>7 DEF FillsInv

LEMMA FillsExecute ==
  ASSUME FillsInv, Execute
  PROVE  FillsInv'
<1>1. at = "posting" /\ at' = at
  BY DEF Execute, cycleVars
<1>2. posted \in Nat /\ IsSeq(orders) /\ IsSeq(ids) /\ fills = <<>> /\ tracking = "off" /\ polled = 0
  BY <1>1 DEF FillsInv, Posted, TracksSo
<1>3. Len(orders) \in Nat /\ DOMAIN orders = 1 .. Len(orders) /\ Len(ids) \in Nat /\ DOMAIN ids = 1 .. Len(ids)
      /\ DOMAIN fills = {}
  BY <1>2, SeqIs, EmptyIsSeq
<1>4. CASE PostAnswered \/ PostUnnumbered \/ PostRefused \/ PostUnanswered
  BY <1>1, <1>4, FillsPosts DEF PostAnswered, PostUnnumbered, PostRefused, PostUnanswered
<1>5. CASE PostNone
  <2>1. /\ posted' = Len(orders) /\ ids' = [k \in 1 .. Len(orders) |-> -k]
        /\ UNCHANGED <<orders, filled, tracking, inbox, found, polled, fills>>
    BY <1>3, <1>5 DEF PostNone, Positions
  <2>2. IsSeq(ids') /\ Len(ids') = Len(orders) /\ DOMAIN ids' = 1 .. Len(orders)
    <3>1. ids' \in Seq(Int)
      BY <1>3, <2>1
    <3> QED
      BY <1>3, <2>1, <3>1 DEF IsSeq
  <2>3. Posted'
    BY <1>2, <1>3, <2>1, <2>2 DEF Posted
  <2>4. Exchanged'
    BY <2>1 DEF FillsInv, Exchanged
  <2>5. FillsSo' /\ TracksSo'
    BY <1>2, <1>3, <2>1 DEF FillsSo, TracksSo
  <2> QED
    BY <2>3, <2>4, <2>5 DEF FillsInv
<1>6. CASE PostSkipped
  <2>1. posted' = Len(orders) /\ UNCHANGED <<orders, ids, filled, tracking, inbox, found, polled, fills>>
        /\ posted = 0
    BY <1>6 DEF PostSkipped
  <2>2. Posted'
    BY <1>2, <1>3, <2>1 DEF FillsInv, Posted
  <2>3. Exchanged'
    BY <2>1 DEF FillsInv, Exchanged
  <2>4. FillsSo' /\ TracksSo'
    BY <1>2, <1>3, <2>1 DEF FillsSo, TracksSo
  <2> QED
    BY <2>2, <2>3, <2>4 DEF FillsInv
<1> QED
  BY <1>4, <1>5, <1>6 DEF Execute

LEMMA FillsExchanged ==
  ASSUME FillsInv, UNCHANGED <<at>>, NEW k \in DOMAIN filled, NEW lots \in Nat, ExchangeFills(k, lots)
  PROVE  FillsInv'
<1>1. /\ UNCHANGED <<orders, posted, ids, tracking, inbox, found, polled, fills>>
      /\ filled' = [filled EXCEPT ![k] = @ + lots]
  BY DEF ExchangeFills
<1>2. \A j \in DOMAIN filled : filled[j] \in Nat
  BY DEF FillsInv, Exchanged
<1>3. /\ DOMAIN filled' = DOMAIN filled
      /\ \A j \in DOMAIN filled : filled[j] <= filled'[j] /\ filled'[j] \in Nat
  BY <1>1, <1>2
<1>4. Exchanged'
  <2>1. DOMAIN filled' \subseteq Nat \ {0} /\ \A j \in DOMAIN filled' : filled'[j] \in Nat
    BY <1>3 DEF FillsInv, Exchanged
  <2>2. \A j \in DOMAIN found :
          /\ j \in DOMAIN filled' /\ found[j].id = j /\ found[j].order = j
          /\ found[j].lots \in Nat /\ found[j].lots <= filled'[j]
    BY <1>2, <1>3 DEF FillsInv, Exchanged
  <2>3. \A j \in DOMAIN inbox :
          j \in DOMAIN filled' /\ inbox[j].lots \in Nat /\ inbox[j].lots <= filled'[j]
    BY <1>2, <1>3 DEF FillsInv, Exchanged
  <2> QED
    BY <1>1, <2>1, <2>2, <2>3 DEF Exchanged
<1> QED
  BY <1>1, <1>3, <1>4, FillsGoOn

LEMMA FillsTold ==
  ASSUME FillsInv, UNCHANGED <<at>>, NEW k \in DOMAIN filled, NEW lots \in Nat, NEW status,
         ChannelTells(k, lots, status)
  PROVE  FillsInv'
<1>1. /\ UNCHANGED <<orders, posted, ids, filled, tracking, found, polled, fills>> /\ lots <= filled[k]
      /\ inbox' = [j \in DOMAIN inbox \cup {k} |->
                    IF j = k THEN [lots |-> lots, status |-> status] ELSE inbox[j]]
  BY DEF ChannelTells
<1>2. \A j \in DOMAIN inbox' :
        j \in DOMAIN filled /\ inbox'[j].lots \in Nat /\ inbox'[j].lots <= filled[j]
  BY <1>1 DEF FillsInv, Exchanged
<1>3. Exchanged'
  BY <1>1, <1>2 DEF FillsInv, Exchanged
<1>4. \A j \in DOMAIN filled : filled[j] <= filled[j] /\ filled[j] \in Nat
  BY DEF FillsInv, Exchanged
<1> QED
  BY <1>1, <1>3, <1>4, FillsGoOn

LEMMA FillsTracked ==
  ASSUME FillsInv, UNCHANGED <<at>>, at # "posting", Tracks \/ TrackSimulated
  PROVE  FillsInv'
<1>1. /\ IsSeq(orders) /\ IsSeq(ids) /\ posted \in Nat
      /\ Len(orders) \in Nat /\ DOMAIN orders = 1 .. Len(orders)
      /\ Len(ids) \in Nat /\ DOMAIN ids = 1 .. Len(ids) /\ Lots \in Nat
      /\ \A q \in DOMAIN ids : ids[q] \in Int
  BY SeqIs, LotsAssumption DEF FillsInv, Posted
<1>2. UNCHANGED <<orders, posted, ids, filled>>
  BY DEF Tracks, TrackSimulated, OpenUserChannel, TrackNothing, TrackThrows, CollectHits,
     StopWaiting, PollNext, PolledAll
<1>3. Posted'
  BY <1>2 DEF FillsInv, Posted
<1>4. /\ \A k \in DOMAIN filled : filled[k] \in Nat /\ k \in Nat \ {0}
      /\ \A k \in DOMAIN found : k \in DOMAIN filled /\ found[k].id = k /\ found[k].order = k
                                 /\ found[k].lots \in Nat /\ found[k].lots <= filled[k]
  BY DEF FillsInv, Exchanged
<1>5. CASE CollectHits
  <2>1. /\ tracking = "waiting" /\ UNCHANGED <<orders, posted, ids, filled, tracking, inbox, polled, fills>>
        /\ found' = [k \in DOMAIN found \cup Hits |->
                       IF k \in DOMAIN found THEN found[k]
                       ELSE Fill(k, k, inbox[k].lots, inbox[k].status, "exchange")]
    BY <1>5 DEF CollectHits
  <2>2. \A k \in Hits : k \in DOMAIN filled /\ inbox[k].lots \in Nat /\ inbox[k].lots <= filled[k]
    BY DEF Hits, FillsInv, Exchanged
  <2>3. \A k \in DOMAIN found' : k \in DOMAIN filled /\ found'[k].id = k /\ found'[k].order = k
                                 /\ found'[k].lots \in Nat /\ found'[k].lots <= filled[k]
    BY <1>4, <2>1, <2>2 DEF Fill
  <2>4. Exchanged'
    BY <2>1, <2>3 DEF FillsInv, Exchanged
  <2>5. \A k \in DOMAIN filled : filled[k] <= filled[k]
    BY <1>4
  <2> QED
    BY <1>4, <2>1, <2>4, <2>5, FillsGoOn
<1>6. CASE ~CollectHits
  <2>1. \/ found' = found /\ inbox' = inbox
        \/ found' = NoFills /\ inbox' = NoFills
    BY <1>6 DEF Tracks, TrackSimulated, OpenUserChannel, TrackNothing, TrackThrows,
       StopWaiting, PollNext, PolledAll
  <2>2. Exchanged'
    <3>1. DOMAIN NoFills = {}
      BY DEF NoFills
    <3> QED
      BY <1>2, <2>1, <3>1 DEF FillsInv, Exchanged
  <2>3. FillsSo' /\ TracksSo'
    <3>1. CASE TrackSimulated
      <4>1. fills' = [p \in DOMAIN orders |-> Fill(IF p \in DOMAIN ids THEN ids[p] ELSE 0, p, Lots, "matched", "simulated")]
            /\ tracking' = "done"
        BY <3>1 DEF TrackSimulated, Done, Simulated, IdAt, Positions
      <4>2. ASSUME NEW p \in DOMAIN fills'
            PROVE  Made(fills[p])' /\ FiledAt(fills[p], p)'
        BY <1>1, <1>2, <4>1 DEF Made, FiledAt, Fill
      <4> QED
        BY <4>1, <4>2 DEF FillsSo, TracksSo
    <3>2. CASE TrackNothing
      <4>1. tracking' = "done" /\ fills' = <<>>
        BY <3>2 DEF TrackNothing, Done
      <4> QED
        BY <4>1, EmptyIsSeq DEF FillsSo, TracksSo
    <3>3. CASE OpenUserChannel \/ TrackThrows
      <4>1. fills' = fills /\ polled' = polled /\ tracking' \in {"waiting", "threw"}
            /\ (tracking' = "waiting" => tracking = "off")
        BY <3>3 DEF OpenUserChannel, TrackThrows
      <4> QED
        BY <1>2, <4>1 DEF FillsInv, FillsSo, Made, FiledAt, TracksSo
    <3>4. CASE StopWaiting
      <4>1. tracking = "waiting" /\ polled' = polled /\ fills = <<>> /\ polled = 0
        BY <3>4 DEF StopWaiting, FillsInv, TracksSo
      <4>2. CASE DOMAIN found = {}
        <5>1. tracking' = "polling" /\ fills' = fills
          BY <3>4, <4>2 DEF StopWaiting
        <5>2. IsSeq(fills') /\ DOMAIN fills' = {} /\ Len(fills') = 0
          BY <4>1, <5>1, EmptyIsSeq
        <5> QED
          BY <1>1, <1>2, <4>1, <5>1, <5>2 DEF FillsSo, TracksSo
      <4>3. CASE DOMAIN found # {}
        <5>1. tracking' = "done" /\ fills' = Merged
          BY <3>4, <4>3 DEF StopWaiting, Done
        <5>2. fills' = [p \in DOMAIN ids |-> IF ids[p] \in DOMAIN found THEN found[ids[p]]
                                            ELSE Fill(ids[p], p, Lots, "partial", "assumed")]
          BY <5>1 DEF Merged
        <5>3. ASSUME NEW p \in DOMAIN ids
              PROVE  Made(fills[p])' /\ FiledAt(fills[p], p)'
          <6>1. CASE ids[p] \in DOMAIN found
            BY <1>1, <1>2, <1>4, <5>2, <6>1 DEF Made, FiledAt
          <6>2. CASE ids[p] \notin DOMAIN found
            BY <1>1, <1>2, <5>2, <6>2 DEF Made, FiledAt, Fill
          <6> QED
            BY <6>1, <6>2
        <5> QED
          BY <5>1, <5>2, <5>3 DEF FillsSo, TracksSo
      <4> QED
        BY <4>2, <4>3
    <3>5. CASE PollNext
      <4>1. /\ tracking = "polling" /\ tracking' = tracking /\ polled' = polled + 1
            /\ IsSeq(fills) /\ polled \in Nat
            /\ Len(fills) = IF polled <= Len(ids) THEN polled ELSE Len(ids)
        BY <3>5 DEF PollNext, FillsInv, TracksSo
      <4>5. PICK n \in Nat : n = polled
        BY <4>1
      <4>6. PICK m \in Nat : m = Len(ids) /\ DOMAIN ids = 1 .. m
        BY <1>1
      <4>7. /\ n + 1 \in DOMAIN ids => Len(fills) = n
            /\ n + 1 \notin DOMAIN ids => Len(fills) = m /\ ~(n + 1 <= m)
        BY <4>1, <4>5, <4>6
      <4>8. Len(fills) \in Nat /\ DOMAIN fills = 1 .. Len(fills) /\ IsSeq(fills)
        BY <4>1, SeqIs
      <4>2. CASE n + 1 \in DOMAIN ids
        <5>1. PICK fill \in PollResults(ids[n + 1], n + 1) : fills' = Append(fills, fill)
          BY <3>5, <4>2, <4>5 DEF PollNext
        <5>2. /\ IsSeq(fills') /\ Len(fills) = n /\ DOMAIN fills = 1 .. n
              /\ DOMAIN fills' = 1 .. n + 1 /\ fills'[n + 1] = fill
              /\ \A p \in DOMAIN fills : fills'[p] = fills[p]
          BY <4>7, <4>8, <4>2, <5>1, AppendIsSeq
        <5>3. Made(fill)' /\ FiledAt(fill, n + 1)'
          BY <1>1, <1>2, <1>4, <4>1, <4>5, <4>2, <5>1 DEF PollResults, FillsReported, Fill, Held,
               Made, FiledAt
        <5>4. \A p \in DOMAIN fills' : Made(fills[p])' /\ FiledAt(fills[p], p)'
          <6> TAKE p \in DOMAIN fills'
          <6>1. CASE p \in DOMAIN fills
            <7>1. Made(fills[p]) /\ FiledAt(fills[p], p)
              BY <6>1 DEF FillsInv, FillsSo
            <7> QED
              BY <1>2, <5>2, <6>1, <7>1 DEF Made, FiledAt
          <6>2. CASE p \notin DOMAIN fills
            <7>1. p = n + 1
              BY <4>1, <4>5, <5>2, <6>2
            <7> QED
              BY <5>2, <5>3, <7>1 DEF Made, FiledAt
          <6> QED
            BY <6>1, <6>2
        <5>5. Len(fills') = n + 1
          BY <4>1, <4>5, <5>2 DEF IsSeq
        <5>6. FillsSo'
          BY <5>4 DEF FillsSo
        <5>7. n + 1 <= Len(ids)
          BY <4>2, <4>6
        <5>8. TracksSo'
          BY <1>2, <4>1, <4>5, <5>2, <5>5, <5>7 DEF TracksSo
        <5> QED
          BY <5>6, <5>8
      <4>3. CASE n + 1 \notin DOMAIN ids
        <5>1. fills' = fills
          BY <3>5, <4>3, <4>5 DEF PollNext
        <5>2. FillsSo'
          BY <1>2, <5>1 DEF FillsInv, FillsSo, Made, FiledAt
        <5>3. Len(fills) = Len(ids) /\ ~(n + 1 <= Len(ids))
          BY <1>1, <4>3, <4>6, <4>7
        <5> QED
          BY <1>1, <1>2, <4>1, <4>5, <5>1, <5>2, <5>3 DEF TracksSo
      <4> QED
        BY <4>2, <4>3
    <3>6. CASE PolledAll
      <4>1. tracking' = "done" /\ fills' = fills
        BY <3>6 DEF PolledAll, Done
      <4> QED
        BY <1>2, <4>1 DEF FillsInv, FillsSo, Made, FiledAt, TracksSo
    <3> QED
      BY <1>6, <3>1, <3>2, <3>3, <3>4, <3>5, <3>6 DEF Tracks
  <2> QED
    BY <1>3, <2>2, <2>3 DEF FillsInv
<1> QED
  BY <1>5, <1>6

(* The intents are a sequence, so the orders chosen of them are.            *)
LEMMA OrdersAreSeq ==
  ASSUME DecidedInv, NEW approved \in Chosen(intents)
  PROVE  IsSeq(BuildOrders(approved))
<1>1. PICK S : intents \in Seq(S)
  <2>1. CASE intents = <<>>
    <3>1. intents \in Seq({})
      BY <2>1
    <3> QED
      BY <3>1
  <2>2. CASE \E C : intents \in Books(Normalized(snapshot), C) \cup Blank(Normalized(snapshot), C)
    BY <2>2 DEF Books, Blank
  <2> QED
    BY <2>1, <2>2, IntentsAre
<1>2. PICK ps \in SUBSET DOMAIN intents : approved = Kept(intents, ps)
  BY DEF Chosen
<1>3. approved \in Seq(S)
  BY <1>1, <1>2, KeptType
<1>4. PICK n \in Nat : DOMAIN approved = 1 .. n
  BY <1>3, SeqDomain
<1>5. PICK built : built = BuildOrders(approved)
  OBVIOUS
<1>6. built = [k \in 1 .. n |-> [outcome |-> approved[k].outcome, token |-> "YES"]]
  BY <1>4, <1>5 DEF BuildOrders
<1>7. built \in Seq({built[k] : k \in 1 .. n})
  BY <1>6
<1> QED
  BY <1>5, <1>7 DEF IsSeq

LEMMA FillsUnchanged ==
  ASSUME FillsInv, UNCHANGED fillVars, at' = "posting" => at = "posting"
  PROVE  FillsInv'
<1>1. UNCHANGED <<orders, posted, ids, filled, tracking, inbox, found, polled, fills>>
  BY DEF fillVars
<1>2. Exchanged'
  BY <1>1 DEF FillsInv, Exchanged
<1>3. \A k \in DOMAIN filled : filled[k] <= filled[k] /\ filled[k] \in Nat
  BY DEF FillsInv, Exchanged
<1> QED
  BY <1>1, <1>2, <1>3, FillsGoOn

LEMMA FillsStep ==
  ASSUME DecidedInv, FillsInv, [Next]_vars
  PROVE  FillsInv'
<1>1. CASE UNCHANGED fillVars /\ (at' = "posting" => at = "posting")
  BY <1>1, FillsUnchanged
<1>2. CASE Decide
  BY <1>1, <1>2 DEF Decide, BuildSnapshot, RunCognitiveCycle, SigningThrows, GoesTo
<1>3. CASE CarryOut
  <2>1. CASE RelayIntents
    <3>1. PICK approved \in Chosen(intents) : StartBatch(BuildOrders(approved))
      BY <2>1 DEF RelayIntents
    <3> QED
      BY <3>1, OrdersAreSeq, BatchStarts
  <2>2. CASE Execute
    BY <2>2, FillsExecute
  <2>3. CASE Tracking
    <3>1. at # "posting" /\ UNCHANGED at /\ (Tracks \/ TrackSimulated)
      BY <2>3 DEF Tracking, cycleVars
    <3> QED
      BY <3>1, FillsTracked
  <2>4. CASE StartBatch(<<>>)
    BY <2>4, EmptyIsSeq, BatchStarts
  <2>5. CASE TrackAgain
    BY <2>5, FillsTrackAgain
  <2>6. CASE Executed \/ Tracked \/ CrossChain \/ Audit \/ Anchoring \/ Anchored
    <3>1. UNCHANGED fillVars /\ (at' = "posting" => at = "posting")
      BY <2>6 DEF Executed, Tracked, CrossChain, Audit, Anchoring, Anchored, GoesTo, cycleVars
    <3> QED
      BY <1>1, <3>1
  <2> QED
    BY <1>3, <2>1, <2>2, <2>3, <2>4, <2>5, <2>6 DEF CarryOut, Report, Reported, CycleThrows
<1>4. CASE CycleCutOff
  BY <1>4, EmptyIsSeq, BatchStarts DEF CycleCutOff
<1>5. CASE CommandLineStep \/ UNCHANGED vars
  BY <1>1, <1>5 DEF CommandLineStep, cycleVars, vars
<1>6. CASE Outside
  <2>1. CASE UNCHANGED <<cycleVars, fillVars>>
    BY <1>1, <2>1 DEF cycleVars
  <2>2. ASSUME NEW k \in Held, NEW lots \in 1 .. Lots, ExchangeFills(k, lots),
               UNCHANGED <<cycleVars, auditVars>>
        PROVE  FillsInv'
    <3>1. k \in DOMAIN filled /\ lots \in Nat /\ UNCHANGED <<at>>
      BY <2>2, LotsAssumption DEF Held, cycleVars
    <3> QED
      BY <2>2, <3>1, FillsExchanged
  <2>3. ASSUME NEW k \in Held, NEW lots \in 0 .. filled[k], NEW status \in Statuses,
               ChannelTells(k, lots, status), UNCHANGED <<cycleVars, auditVars>>
        PROVE  FillsInv'
    <3>1. k \in DOMAIN filled /\ lots \in Nat /\ UNCHANGED <<at>>
      BY <2>3 DEF Held, cycleVars
    <3> QED
      BY <2>3, <3>1, FillsTold
  <2> QED
    BY <1>6, <2>1, <2>2, <2>3 DEF Outside
<1> QED
  BY <1>2, <1>3, <1>4, <1>5, <1>6 DEF Next

LEMMA FillsAlways == Spec => []FillsInv
<1>1. FillsInv /\ DecidedInv /\ [Next]_vars => FillsInv'
  BY FillsStep
<1> QED
  BY FillsStart, DecidedAlways, <1>1, PTL DEF Spec

(* A fill reported as the exchange's is one it made, and no more of it than *)
(* it made (fill-tracker.ts), whether it came on the channel or was polled, *)
(* for any batch.                                                           *)
THEOREM CycleFillsHappened == Spec => []FillsHappened
<1>1. ASSUME FillsInv PROVE FillsHappened
  BY <1>1 DEF FillsInv, FillsSo, Made, FillsHappened, Held
<1> QED
  BY FillsAlways, <1>1, PTL

(* Where no order before it failed a fill is filed under the order its id   *)
(* was given for (executor.ts, fill-tracker.ts): a position is its own only *)
(* as long as none was left out.                                            *)
THEOREM CycleFillOfItsOrder == Spec => []FillOfItsOrder
<1>1. ASSUME FillsInv PROVE FillOfItsOrder
  <2> SUFFICES ASSUME NEW p \in DOMAIN fills, \A k \in 1 .. p : ToSet(ids) \cap {k, -k} # {}
               PROVE  fills[p].order = Max({fills[p].id, -fills[p].id})
    BY DEF FillOfItsOrder
  <2>1. /\ p \in Nat \ {0} /\ (p \in DOMAIN ids => fills[p].id = ids[p])
        /\ fills[p].order = p \/ (fills[p].order = fills[p].id /\ fills[p].id \in Nat)
    BY <1>1 DEF FillsInv, FillsSo, FiledAt
  <2>2. /\ IsSeq(ids) /\ Len(ids) \in Nat /\ DOMAIN ids = 1 .. Len(ids)
        /\ \A q \in DOMAIN ids : ids[q] \in Int /\ (ids[q] >= q \/ -ids[q] >= q)
    BY <1>1, SeqIs DEF FillsInv, Posted
  <2> DEFINE Own(q) == q \in DOMAIN ids /\ (ids[q] = q \/ ids[q] = -q)
             Others == {q \in 1 .. p : ~Own(q)}
  <2>3. Others = {}
    <3> SUFFICES ASSUME Others # {} PROVE FALSE
      OBVIOUS
    <3>1. PICK q \in Others : \A j \in Others : q <= j
      <4>1. Others \in SUBSET Nat
        OBVIOUS
      <4> HIDE DEF Others
      <4> QED
        BY <4>1, LeastOf
    <3>2. q \in 1 .. p /\ q \in Nat /\ ~Own(q)
      OBVIOUS
    <3>3. PICK r \in DOMAIN ids : ids[r] = q \/ ids[r] = -q
      BY <3>2 DEF ToSet
    <3>4. r \in Nat /\ r <= q /\ r \in 1 .. p
      BY <2>1, <2>2, <3>2, <3>3
    <3>5. r # q
      BY <3>2, <3>3
    <3>6. ~(q <= r)
      BY <3>2, <3>4, <3>5
    <3>7. Own(r)
      BY <3>1, <3>4, <3>6
    <3> QED
      BY <3>2, <3>3, <3>4, <3>5, <3>7
  <2>4. p \in DOMAIN ids /\ (ids[p] = p \/ ids[p] = -p)
    <3>1. Own(p)
      BY <2>1, <2>3
    <3> QED
      BY <3>1
  <2>5. fills[p].id = p \/ fills[p].id = -p
    BY <2>1, <2>4
  <2>6. fills[p].order = p
    BY <2>1, <2>5
  <2>7. p \in Int /\ -p \in Int /\ Max({p, -p}) = p /\ Max({-p, p}) = p /\ -(-p) = p
    BY <2>1, TwoOf
  <2>8. CASE fills[p].id = p
    BY <2>6, <2>7, <2>8
  <2>9. CASE fills[p].id = -p
    BY <2>6, <2>7, <2>9
  <2> QED
    BY <2>5, <2>8, <2>9
<1> QED
  BY FillsAlways, <1>1, PTL
===============================================================================
