-------------------------- MODULE ClobFailover_proof --------------------------
(***************************************************************************)
(* One connection per feed and one order of ticks, for any number of        *)
(* sockets and ticks and any threshold.                                     *)
(***************************************************************************)
EXTENDS MCFeeds, FiniteSetTheorems, TLAPS

Alive == {"connecting", "open", "closing"}

SocketType ==
  /\ made \in [Feeds -> 0 .. MaxSockets]
  /\ socket \in [Feeds -> [Ids -> Lives]]
  /\ ws \in [Feeds -> 0 .. MaxSockets]
  /\ timers \in [Feeds -> Nat]
  /\ closed \in [Feeds -> BOOLEAN]

(* A feed that is not closed waits for its timer or has the socket that ws  *)
(* names; one that is closed has one that is closing, at most.              *)
Sole(f) ==
  /\ \A s, t \in Ids : In(f, s, Alive) /\ In(f, t, Alive) => s = t
  /\ closed[f] => timers[f] = 0 /\ Working(f) = {}
  /\ ~closed[f] =>
       \/ timers[f] = 1 /\ \A s \in Ids : ~In(f, s, Alive)
       \/ timers[f] = 0 /\ ws[f] \in Ids /\ In(f, ws[f], {"connecting", "open"})

SocketInv == SocketType /\ \A f \in Feeds : Sole(f)

LEMMA IdsAreNumbers == Ids \subseteq Nat /\ \A f \in Feeds : Working(f) \subseteq Ids
BY SocketAssumption DEF Ids, Working

LEMMA SocketStarts == SocketInit => SocketInv
BY SocketAssumption DEF SocketInit, SocketInv, SocketType, Sole, In, Alive, Working, Ids, Lives

LEMMA SocketOpened ==
  ASSUME SocketInv, NEW f \in Feeds, NEW s \in Ids, Opened(f, s)
  PROVE  SocketInv'
<1>1. SocketType'
  BY DEF SocketInv, SocketType, Opened, Lives
<1>2. ASSUME NEW g \in Feeds PROVE Sole(g)'
  BY DEF SocketInv, SocketType, Sole, Opened, In, Alive, Working
<1> QED
  BY <1>1, <1>2 DEF SocketInv

LEMMA SocketGone ==
  ASSUME SocketInv, NEW f \in Feeds, NEW s \in Ids, Gone(f, s)
  PROVE  SocketInv'
<1>1. SocketType'
  BY DEF SocketInv, SocketType, Gone, Lives
<1>2. ASSUME NEW g \in Feeds PROVE Sole(g)'
  <2>1. CASE g # f
    BY <2>1 DEF SocketInv, SocketType, Sole, Gone, In, Alive, Working
  <2>2. CASE g = f
    <3>1. \A t \in Ids : ~In(f, t, Alive)'
      BY DEF SocketInv, SocketType, Sole, Gone, In, Alive
    <3>2. CASE closed[f]
      BY <2>2, <3>1, <3>2 DEF SocketInv, SocketType, Sole, Gone, In, Alive, Working
    <3>3. CASE ~closed[f]
      <4>1. timers[f] = 0
        BY <3>3 DEF SocketInv, Sole, Gone, In, Alive
      <4> QED
        BY <2>2, <3>1, <3>3, <4>1 DEF SocketInv, SocketType, Sole, Gone
    <3> QED
      BY <3>2, <3>3
  <2> QED
    BY <2>1, <2>2
<1> QED
  BY <1>1, <1>2 DEF SocketInv

LEMMA SocketReconnect ==
  ASSUME SocketInv, NEW f \in Feeds, Reconnect(f)
  PROVE  SocketInv'
<1>1. /\ ~closed[f] /\ timers[f] = 1 /\ \A s \in Ids : ~In(f, s, Alive)
      /\ made[f] + 1 \in Ids
  BY SocketAssumption DEF SocketInv, SocketType, Sole, Reconnect, Ids
<1>2. SocketType'
  BY <1>1 DEF SocketInv, SocketType, Reconnect, Lives, Ids
<1>3. ASSUME NEW g \in Feeds PROVE Sole(g)'
  <2>1. CASE g # f
    BY <2>1 DEF SocketInv, SocketType, Sole, Reconnect, In, Alive, Working
  <2>2. CASE g = f
    BY <1>1, <2>2 DEF SocketInv, SocketType, Sole, Reconnect, In, Alive
  <2> QED
    BY <2>1, <2>2
<1> QED
  BY <1>2, <1>3 DEF SocketInv

LEMMA SocketClose ==
  ASSUME SocketInv, NEW fs \in SUBSET Feeds, Close(fs)
  PROVE  SocketInv'
<1>1. SocketType'
  BY SocketAssumption DEF SocketInv, SocketType, Close, Closing, Lives
<1>2. ASSUME NEW g \in Feeds PROVE Sole(g)'
  <2>1. CASE g \notin fs
    BY <2>1 DEF SocketInv, SocketType, Sole, Close, Closing, In, Alive, Working
  <2>2. CASE g \in fs
    <3>1. \A s \in Ids : In(g, s, Alive)' => In(g, s, Alive)
      BY DEF SocketInv, SocketType, Close, Closing, In, Alive
    <3>2. \A s \in Ids : ~In(g, s, {"connecting", "open"})'
      BY <2>2 DEF SocketInv, SocketType, Sole, Close, Closing, In, Alive, Working
    <3>3. timers'[g] = 0 /\ closed'[g]
      <4>1. timers[g] = 0 \/ timers[g] = 1
        BY DEF SocketInv, SocketType, Sole
      <4>2. timers'[g] = 0
        BY <2>2, <4>1 DEF Close
      <4>3. closed'[g]
        BY <2>2 DEF Close
      <4> QED
        BY <4>2, <4>3
    <3> QED
      BY <3>1, <3>2, <3>3 DEF SocketInv, Sole, Working
  <2> QED
    BY <2>1, <2>2
<1> QED
  BY <1>1, <1>2 DEF SocketInv

LEMMA SocketStays ==
  ASSUME SocketInv, UNCHANGED socketVars
  PROVE  SocketInv'
BY DEF SocketInv, SocketType, socketVars, Sole, In, Working

LEMMA SoleIsOne ==
  ASSUME SocketInv
  PROVE  OneConnection
<1> SUFFICES ASSUME NEW f \in Feeds
             PROVE  Cardinality(Working(f)) + timers[f] = IF closed[f] THEN 0 ELSE 1
  BY DEF OneConnection
<1>0. closed[f] \in BOOLEAN
  BY DEF SocketInv, SocketType
<1>1. CASE closed[f]
  BY <1>1, FS_EmptySet DEF SocketInv, Sole
<1>2. CASE ~closed[f] /\ timers[f] = 1 /\ \A s \in Ids : ~In(f, s, Alive)
  <2>1. Working(f) = {}
    BY <1>2 DEF Working, In, Alive
  <2> QED
    BY <1>2, <2>1, FS_EmptySet
<1>3. CASE ~closed[f] /\ timers[f] = 0 /\ ws[f] \in Ids /\ In(f, ws[f], {"connecting", "open"})
  <2>1. \A s \in Ids : In(f, s, {"connecting", "open"}) => s = ws[f]
    BY <1>3 DEF SocketInv, Sole, In, Alive
  <2>2. Working(f) = {ws[f]}
    BY <1>3, <2>1 DEF Working
  <2>3. Cardinality({ws[f]}) = 1
    BY FS_Singleton
  <2> QED
    BY <1>3, <2>2, <2>3
<1> QED
  BY <1>0, <1>1, <1>2, <1>3 DEF SocketInv, Sole

-----------------------------------------------------------------------------
LEMMA SocketStep == SocketInv /\ [Next]_vars => SocketInv'
<1> SUFFICES ASSUME SocketInv, [Next]_vars PROVE SocketInv'
  OBVIOUS
<1>1. ASSUME NEW f \in Feeds, NEW s \in Ids, Open(f, s) PROVE SocketInv'
  BY <1>1, SocketOpened DEF Open
<1>2. ASSUME NEW f \in Feeds, NEW s \in Ids, Drop(f, s) PROVE SocketInv'
  BY <1>2, SocketGone DEF Drop
<1>3. ASSUME NEW f \in Feeds, NEW s \in Ids, Tick(f, s) PROVE SocketInv'
  BY <1>3, SocketStays DEF Tick, Arrives
<1>4. ASSUME NEW f \in Feeds, TimerFires(f) PROVE SocketInv'
  BY <1>4, SocketReconnect DEF TimerFires
<1>5. CASE CloseBoth
  BY <1>5, SocketClose DEF CloseBoth
<1>6. CASE Send
  BY <1>6, SocketStays DEF Send
<1>7. CASE UNCHANGED vars
  BY <1>7, SocketStays DEF vars
<1> QED
  BY <1>1, <1>2, <1>3, <1>4, <1>5, <1>6, <1>7 DEF Next

LEMMA SocketAlways == Spec => []SocketInv
<1>1. Init => SocketInv
  BY SocketStarts DEF Init
<1> QED
  BY <1>1, SocketStep, PTL DEF Spec

(* Each of the two feeds has one socket or one timer while it is open and   *)
(* none once closed, wherever close(), the close event and the timer of     *)
(* clob-ws-failover.ts fall.                                                *)
THEOREM FailoverOneConnection == Spec => []OneConnection
<1>1. SocketInv => OneConnection
  BY SoleIsOne
<1> QED
  BY SocketAlways, <1>1, PTL

-----------------------------------------------------------------------------
(* The plain feed: the same argument for one feed of its own variables, and *)
(* for whichever of the two clients a process has.                          *)
PlainIn(s, states) == pSocket[MCPlain][s] \in states

PlainType ==
  /\ pMade \in [{MCPlain} -> 0 .. MaxSockets]
  /\ pSocket \in [{MCPlain} -> [Ids -> Lives]]
  /\ pWs \in [{MCPlain} -> 0 .. MaxSockets]
  /\ pTimers \in [{MCPlain} -> Nat]
  /\ pClosed \in [{MCPlain} -> BOOLEAN]

PlainSole ==
  /\ \A s, t \in Ids : PlainIn(s, Alive) /\ PlainIn(t, Alive) => s = t
  /\ pClosed[MCPlain] =>
       pTimers[MCPlain] = 0 /\ \A s \in Ids : ~PlainIn(s, {"connecting", "open"})
  /\ ~pClosed[MCPlain] =>
       \/ pTimers[MCPlain] = 1 /\ \A s \in Ids : ~PlainIn(s, Alive)
       \/ /\ pTimers[MCPlain] = 0 /\ pWs[MCPlain] \in Ids
          /\ PlainIn(pWs[MCPlain], {"connecting", "open"})

PlainInv == PlainType /\ PlainSole

LEMMA PlainStarts == Plain!SocketInit => PlainInv
<1> SUFFICES ASSUME Plain!SocketInit PROVE PlainInv
  OBVIOUS
<1>1. /\ pMade = [f \in {MCPlain} |-> 1] /\ pWs = [f \in {MCPlain} |-> 1]
      /\ pTimers = [f \in {MCPlain} |-> 0] /\ pClosed = [f \in {MCPlain} |-> FALSE]
      /\ pSocket = [f \in {MCPlain} |->
                     [s \in Ids |-> IF s = 1 THEN "connecting" ELSE "none"]]
  BY DEF Plain!SocketInit, Plain!Ids, Ids
<1>2. 1 \in Ids /\ 1 \in 0 .. MaxSockets
  BY SocketAssumption DEF Ids
<1>3. PlainType
  BY <1>1, <1>2 DEF PlainType, Lives
<1>4. PlainSole
  BY <1>1, <1>2 DEF PlainSole, PlainIn, Alive
<1> QED
  BY <1>3, <1>4 DEF PlainInv

LEMMA PlainOpened ==
  ASSUME PlainInv, NEW s \in Ids, Plain!Opened(MCPlain, s)
  PROVE  PlainInv'
<1>1. /\ PlainIn(s, {"connecting"})
      /\ pSocket' = [pSocket EXCEPT ![MCPlain][s] = "open"]
      /\ UNCHANGED <<pMade, pWs, pTimers, pClosed>>
  BY DEF Plain!Opened, Plain!In, PlainIn
<1>2. PlainType'
  BY <1>1 DEF PlainInv, PlainType, Lives
<1>3. PlainSole'
  BY <1>1 DEF PlainInv, PlainType, PlainSole, PlainIn, Alive
<1> QED
  BY <1>2, <1>3 DEF PlainInv

LEMMA PlainGone ==
  ASSUME PlainInv, NEW s \in Ids, Plain!Gone(MCPlain, s)
  PROVE  PlainInv'
<1>1. /\ PlainIn(s, Alive)
      /\ pSocket' = [pSocket EXCEPT ![MCPlain][s] = "gone"]
      /\ pTimers' = IF pClosed[MCPlain] THEN pTimers
                    ELSE [pTimers EXCEPT ![MCPlain] = @ + 1]
      /\ UNCHANGED <<pMade, pWs, pClosed>>
  BY DEF Plain!Gone, Plain!In, PlainIn, Alive
<1>2. PlainType'
  BY <1>1 DEF PlainInv, PlainType, Lives
<1>3. \A t \in Ids : ~PlainIn(t, Alive)'
  BY <1>1 DEF PlainInv, PlainType, PlainSole, PlainIn, Alive
<1>4. PlainSole'
  <2>1. CASE pClosed[MCPlain]
    BY <1>1, <1>3, <2>1 DEF PlainInv, PlainType, PlainSole, PlainIn, Alive
  <2>2. CASE ~pClosed[MCPlain]
    <3>1. pTimers[MCPlain] = 0
      BY <1>1, <2>2 DEF PlainInv, PlainSole
    <3>2. pTimers'[MCPlain] = 1
      BY <1>1, <2>2, <3>1 DEF PlainInv, PlainType
    <3> QED
      BY <1>1, <1>3, <2>2, <3>2 DEF PlainSole
  <2> QED
    BY <2>1, <2>2
<1> QED
  BY <1>2, <1>4 DEF PlainInv

LEMMA PlainReconnect ==
  ASSUME PlainInv, Plain!Reconnect(MCPlain)
  PROVE  PlainInv'
<1> DEFINE new == pMade[MCPlain] + 1
<1>1. /\ pTimers[MCPlain] > 0 /\ pMade[MCPlain] < MaxSockets
      /\ pTimers' = [pTimers EXCEPT ![MCPlain] = @ - 1]
      /\ pClosed' = [pClosed EXCEPT ![MCPlain] = FALSE]
      /\ pMade' = [pMade EXCEPT ![MCPlain] = @ + 1]
      /\ pSocket' = [pSocket EXCEPT ![MCPlain][new] = "connecting"]
      /\ pWs' = [pWs EXCEPT ![MCPlain] = new]
  BY DEF Plain!Reconnect
<1>2. /\ ~pClosed[MCPlain] /\ pTimers[MCPlain] = 1
      /\ \A s \in Ids : ~PlainIn(s, Alive)
  BY <1>1 DEF PlainInv, PlainType, PlainSole
<1>3. new \in Ids /\ new \in 0 .. MaxSockets
  BY <1>1, SocketAssumption DEF PlainInv, PlainType, Ids
<1>4. PlainType'
  BY <1>1, <1>2, <1>3 DEF PlainInv, PlainType, Lives
<1>5. PlainSole'
  BY <1>1, <1>2, <1>3 DEF PlainInv, PlainType, PlainSole, PlainIn, Alive
<1> QED
  BY <1>4, <1>5 DEF PlainInv

LEMMA PlainClose ==
  ASSUME PlainInv, Plain!Close({MCPlain})
  PROVE  PlainInv'
<1>1. /\ pClosed' = [f \in {MCPlain} |-> TRUE]
      /\ pTimers' = [f \in {MCPlain} |->
                      IF pTimers[f] > 0 THEN pTimers[f] - 1 ELSE pTimers[f]]
      /\ pSocket' = [f \in {MCPlain} |->
                      [s \in Ids |->
                        IF pWs[f] = s /\ PlainIn(s, {"connecting", "open"})
                        THEN "closing" ELSE pSocket[f][s]]]
      /\ pWs' = [f \in {MCPlain} |-> 0] /\ pMade' = pMade
  <2>1. pClosed' = [f \in {MCPlain} |-> pClosed[f] \/ f \in {MCPlain}]
    BY DEF Plain!Close
  <2>2. pClosed' = [f \in {MCPlain} |-> TRUE]
    BY <2>1, Zenon
  <2> QED
    BY <2>2 DEF Plain!Close, Plain!Closing, Plain!In, Plain!Ids, Ids, PlainIn
<1>2. PlainType'
  BY <1>1, SocketAssumption DEF PlainInv, PlainType, Lives
<1>3. \A s \in Ids : PlainIn(s, Alive)' => PlainIn(s, Alive)
  BY <1>1 DEF PlainIn, Alive
<1>4. \A s \in Ids : ~PlainIn(s, {"connecting", "open"})'
  BY <1>1 DEF PlainInv, PlainType, PlainSole, PlainIn, Alive
<1>5. pTimers'[MCPlain] = 0 /\ pClosed'[MCPlain]
  BY <1>1 DEF PlainInv, PlainType, PlainSole
<1> QED
  BY <1>2, <1>3, <1>4, <1>5 DEF PlainInv, PlainSole

LEMMA PlainStays ==
  ASSUME PlainInv, UNCHANGED <<pMade, pSocket, pWs, pTimers, pClosed>>
  PROVE  PlainInv'
BY DEF PlainInv, PlainType, PlainSole, PlainIn

LEMMA PlainStep ==
  ASSUME PlainInv, Plain!Next
  PROVE  PlainInv'
<1> USE DEF Plain!socketVars, Plain!feedVars
<1>1. ASSUME NEW s \in Plain!Ids, Plain!Open(s) PROVE PlainInv'
  BY <1>1, PlainOpened DEF Plain!Open, Plain!Ids, Ids
<1>2. ASSUME NEW s \in Plain!Ids, Plain!Drop(s) PROVE PlainInv'
  BY <1>2, PlainGone DEF Plain!Drop, Plain!Ids, Ids
<1>3. ASSUME NEW s \in Plain!Ids, Plain!Tick(s) PROVE PlainInv'
  BY <1>3, PlainStays DEF Plain!Tick
<1>4. CASE Plain!TimerFires
  BY <1>4, PlainReconnect DEF Plain!TimerFires
<1>5. CASE Plain!CloseFeed
  BY <1>5, PlainClose DEF Plain!CloseFeed
<1>6. ASSUME NEW a \in Tokens, Plain!Move(a) PROVE PlainInv'
  BY <1>6, PlainStays DEF Plain!Move
<1>7. ASSUME NEW x \in fills, Plain!FillRead(x) PROVE PlainInv'
  BY <1>7, PlainStays DEF Plain!FillRead
<1>8. CASE Plain!FillEnds
  BY <1>8, PlainStays DEF Plain!FillEnds, Plain!FillApplied, Plain!FillFailed
<1>9. CASE Plain!Trade \/ Plain!StopConsumer
  BY <1>9, PlainStays DEF Plain!Trade, Plain!StopConsumer
<1>10. CASE Plain!RefreshSentiment \/ Plain!RefreshEnds
  BY <1>10, PlainStays DEF Plain!RefreshSentiment, Plain!RefreshEnds
<1> QED
  BY <1>1, <1>2, <1>3, <1>4, <1>5, <1>6, <1>7, <1>8, <1>9, <1>10 DEF Plain!Next

LEMMA PlainIsOne ==
  ASSUME PlainInv
  PROVE  Plain!OneConnection
<1> DEFINE working == {s \in Ids : PlainIn(s, {"connecting", "open"})}
<1>1. Plain!Working(MCPlain) = working
  BY DEF Plain!Working, Plain!In, Plain!Ids, Ids, PlainIn
<1>2. Cardinality(working) + pTimers[MCPlain] = IF pClosed[MCPlain] THEN 0 ELSE 1
  <2>0. pClosed[MCPlain] \in BOOLEAN
    BY DEF PlainInv, PlainType
  <2>1. CASE pClosed[MCPlain] \/ \A s \in Ids : ~PlainIn(s, {"connecting", "open"})
    <3>1. working = {}
      BY <2>1 DEF PlainInv, PlainSole
    <3>2. pTimers[MCPlain] = IF pClosed[MCPlain] THEN 0 ELSE 1
      BY <2>0, <2>1 DEF PlainInv, PlainSole
    <3> QED
      BY <3>1, <3>2, FS_EmptySet
  <2>2. CASE /\ ~pClosed[MCPlain] /\ pTimers[MCPlain] = 0 /\ pWs[MCPlain] \in Ids
             /\ PlainIn(pWs[MCPlain], {"connecting", "open"})
    <3>1. working = {pWs[MCPlain]}
      BY <2>2 DEF PlainInv, PlainSole, PlainIn, Alive
    <3>2. Cardinality({pWs[MCPlain]}) = 1
      BY FS_Singleton
    <3> QED
      BY <2>2, <3>1, <3>2
  <2> QED
    BY <2>0, <2>1, <2>2 DEF PlainInv, PlainSole, PlainIn, Alive
<1>3. Plain!Cardinality(working) = Cardinality(working)
  BY DEF Plain!Cardinality, Cardinality
<1>4. \A f \in {MCPlain} :
        Plain!Cardinality(Plain!Working(f)) + pTimers[f] = IF pClosed[f] THEN 0 ELSE 1
  BY <1>1, <1>2, <1>3
<1> QED
  BY <1>4 DEF Plain!OneConnection

LEMMA OtherClientClosed ==
  /\ WithPlainFeed => SocketInv
  /\ WithFailover => PlainInv
<1> DEFINE None(S) == [f \in S |-> [s \in Ids |-> "none"]]
<1>1. ASSUME WithPlainFeed PROVE SocketInv
  BY <1>1, SocketAssumption
     DEF WithPlainFeed, NoSocket, SocketInv, SocketType, Sole, In, Alive, Working, Ids, Lives
<1>2. ASSUME WithFailover PROVE PlainInv
  BY <1>2, SocketAssumption
     DEF WithFailover, NoSocket, PlainInv, PlainType, PlainSole, PlainIn, Alive, Ids, Lives
<1> QED
  BY <1>1, <1>2

(* A process follows the market over one connection at a time, or waits for *)
(* the one timer that makes the next, and over none after close(): of       *)
(* clob-ws.ts and of clob-ws-failover.ts, whichever it was started with.    *)
THEOREM FeedsConnectedOnce == MCSpec => []ConnectedOnce
<1> DEFINE Both == SocketInv /\ PlainInv
           Step == \/ Next /\ UNCHANGED plainVars
                   \/ Plain!Next /\ UNCHANGED vars
<1>1. WithPlainFeed \/ WithFailover => Both
  <2>1. WithPlainFeed => PlainInv
    BY PlainStarts DEF WithPlainFeed, Plain!Init
  <2>2. WithFailover => SocketInv
    BY SocketStarts DEF WithFailover, Init
  <2> QED
    BY <2>1, <2>2, OtherClientClosed
<1>2. Both /\ [Step]_<<vars, plainVars>> => Both'
  <2> SUFFICES ASSUME Both, [Step]_<<vars, plainVars>> PROVE Both'
    OBVIOUS
  <2>1. SocketInv'
    <3>1. [Next]_vars
      OBVIOUS
    <3> QED
      BY <3>1, SocketStep
  <2>2. PlainInv'
    <3>1. CASE Plain!Next
      BY <3>1, PlainStep
    <3>2. CASE UNCHANGED plainVars
      BY <3>2, PlainStays DEF plainVars
    <3> QED
      BY <3>1, <3>2
  <2> QED
    BY <2>1, <2>2
<1>3. Both => ConnectedOnce
  BY SoleIsOne, PlainIsOne DEF ConnectedOnce
<1> HIDE DEF Both
<1>4. MCSpec => (WithPlainFeed \/ WithFailover) /\ [][Step]_<<vars, plainVars>>
  BY PTL DEF MCSpec
<1> QED
  BY <1>1, <1>2, <1>3, <1>4, PTL

-----------------------------------------------------------------------------
(* Ticks.                                                                   *)
TickType ==
  /\ active \in {"primary", "secondary"}
  /\ sent \in Nat
  /\ wire \in [Feeds -> [Ids -> Seq(Nat)]]
  /\ passed \in Seq([feed : Feeds, number : Nat])

(* What is on a wire is increasing, has been sent, is later than what its   *)
(* feed has passed, and is lost with its socket.                            *)
Line(f, s) ==
  /\ \A k \in 1 .. Len(wire[f][s]) :
       /\ In(f, s, {"open", "closing"})
       /\ wire[f][s][k] <= sent
       /\ \A j \in 1 .. Len(wire[f][s]) : j < k => wire[f][s][j] < wire[f][s][k]
       /\ \A i \in 1 .. Len(passed) :
            passed[i].feed = f => passed[i].number < wire[f][s][k]

PassedSoFar ==
  \A i \in 1 .. Len(passed) :
    /\ passed[i].number <= sent
    /\ active = "primary" => passed[i].feed = "primary"

TickInv ==
  /\ SocketInv /\ TickType
  /\ \A f \in Feeds, s \in Ids : Line(f, s)
  /\ PassedSoFar /\ PassedInOrder

LEMMA EntryOf ==
  ASSUME NEW S, NEW w \in Seq(S), NEW k \in 1 .. Len(w)
  PROVE  w[k] \in S
OBVIOUS

LEMMA PassedIs ==
  ASSUME TickType, NEW i \in 1 .. Len(passed)
  PROVE  passed[i].feed \in Feeds /\ passed[i].number \in Nat
<1>1. passed \in Seq([feed : Feeds, number : Nat])
  BY DEF TickType
<1>2. passed[i] \in [feed : Feeds, number : Nat]
  BY <1>1, EntryOf
<1> QED
  BY <1>2

LEMMA AppendKeeps ==
  ASSUME NEW S, NEW w \in Seq(S), NEW e \in S
  PROVE  /\ Append(w, e) \in Seq(S) /\ Len(w) \in Nat /\ Len(Append(w, e)) = Len(w) + 1
         /\ Append(w, e)[Len(w) + 1] = e
         /\ \A k \in 1 .. Len(w) : Append(w, e)[k] = w[k] /\ w[k] \in S
OBVIOUS

LEMMA TickStarts == Init => TickInv
<1> SUFFICES ASSUME Init PROVE TickInv
  OBVIOUS
<1>1. SocketInv
  BY SocketStarts DEF Init
<1>2. /\ passed = <<>> /\ wire = [f \in Feeds |-> [s \in Ids |-> <<>>]]
      /\ active = "primary" /\ sent = 0
  BY DEF Init
<1>3. TickType
  BY <1>2 DEF TickType
<1>4. \A f \in Feeds, s \in Ids : wire[f][s] = <<>>
  BY <1>2
<1>5. \A f \in Feeds, s \in Ids : Line(f, s)
  BY <1>4 DEF Line
<1>6. PassedSoFar /\ PassedInOrder
  BY <1>2 DEF PassedSoFar, PassedInOrder
<1> QED
  BY <1>1, <1>3, <1>5, <1>6 DEF TickInv

(* A step of the sockets that leaves what has arrived and what is sent.     *)
LEMMA NothingMoves ==
  ASSUME TickInv, SocketInv', UNCHANGED <<active, sent, wire, passed>>,
         \A f \in Feeds, s \in Ids :
           In(f, s, {"open", "closing"}) => In(f, s, {"open", "closing"})'
  PROVE  TickInv'
<1>1. TickType' /\ PassedSoFar' /\ PassedInOrder'
  BY DEF TickInv, TickType, PassedSoFar, PassedInOrder
<1>2. ASSUME NEW f \in Feeds, NEW s \in Ids PROVE Line(f, s)'
  <2>1. Line(f, s)
    BY DEF TickInv
  <2> QED
    BY <2>1 DEF Line
<1> QED
  BY <1>1, <1>2 DEF TickInv

LEMMA TickDropped ==
  ASSUME TickInv, SocketInv', NEW f \in Feeds, NEW s \in Ids, Drop(f, s)
  PROVE  TickInv'
<1>1. UNCHANGED <<sent, passed>> /\ wire' = [wire EXCEPT ![f][s] = <<>>]
  BY DEF Drop
<1>2. active' \in {"primary", "secondary"} /\ (active' = "primary" => active = "primary")
  BY DEF Drop, OnPrimaryDisconnect, TickInv, TickType
<1>3. TickType'
  BY <1>1, <1>2 DEF TickInv, TickType
<1>4. PassedSoFar' /\ PassedInOrder'
  BY <1>1, <1>2 DEF TickInv, PassedSoFar, PassedInOrder
<1>5. ASSUME NEW g \in Feeds, NEW t \in Ids PROVE Line(g, t)'
  <2>1. CASE g = f /\ t = s
    <3>1. wire'[g][t] = <<>>
      BY <1>1, <2>1 DEF TickInv, TickType
    <3> QED
      BY <3>1 DEF Line
  <2>2. CASE ~(g = f /\ t = s)
    <3>1. wire'[g][t] = wire[g][t] /\ socket'[g][t] = socket[g][t]
      BY <1>1, <2>2 DEF TickInv, TickType, Drop, Gone, SocketInv, SocketType
    <3>2. Line(g, t)
      BY DEF TickInv
    <3> QED
      BY <1>1, <3>1, <3>2 DEF Line, In
  <2> QED
    BY <2>1, <2>2
<1> QED
  BY <1>3, <1>4, <1>5 DEF TickInv

LEMMA TickSent ==
  ASSUME TickInv, SocketInv', Send
  PROVE  TickInv'
<1>1. UNCHANGED <<active, passed, socket>> /\ sent' = sent + 1 /\ sent \in Nat
  BY DEF Send, socketVars, TickInv, TickType
<1>2. \A f \in Feeds, s \in Ids :
        wire'[f][s] = IF In(f, s, {"open"}) THEN Append(wire[f][s], sent + 1) ELSE wire[f][s]
  BY DEF Send
<1>3. TickType'
  BY <1>1 DEF Send, TickInv, TickType
<1>4. PassedInOrder'
  BY <1>1 DEF TickInv, PassedInOrder
<1>5. \A i \in 1 .. Len(passed) : passed[i].number \in Nat /\ passed[i].number <= sent
  BY PassedIs DEF TickInv, PassedSoFar
<1>6. PassedSoFar'
  BY <1>1, <1>5 DEF TickInv, PassedSoFar
<1>7. ASSUME NEW f \in Feeds, NEW s \in Ids PROVE Line(f, s)'
  <2>1. wire[f][s] \in Seq(Nat) /\ Line(f, s)
    BY DEF TickInv, TickType
  <2>2. CASE In(f, s, {"open"})
    <3> DEFINE w == wire[f][s]
               n == Len(w)
    <3>1. wire'[f][s] = Append(w, sent + 1)
      BY <1>2, <2>2
    <3>2. /\ n \in Nat /\ Len(wire'[f][s]) = n + 1
          /\ \A k \in 1 .. n : wire'[f][s][k] = w[k] /\ w[k] \in Nat /\ w[k] <= sent
          /\ wire'[f][s][n + 1] = sent + 1
      <4>1. sent + 1 \in Nat
        BY <1>1
      <4> HIDE DEF w
      <4>2. w \in Seq(Nat)
        BY <2>1 DEF w
      <4>3. \A k \in 1 .. n : w[k] <= sent
        BY <2>1 DEF Line, w
      <4> QED
        BY <3>1, <4>1, <4>2, <4>3, AppendKeeps
    <3>3. In(f, s, {"open", "closing"})'
      BY <1>1, <2>2 DEF In
    <3>4. ASSUME NEW k \in 1 .. n + 1
          PROVE  /\ wire'[f][s][k] <= sent'
                 /\ \A j \in 1 .. n + 1 : j < k => wire'[f][s][j] < wire'[f][s][k]
                 /\ \A i \in 1 .. Len(passed') :
                      passed'[i].feed = f => passed'[i].number < wire'[f][s][k]
      <4>1. CASE k = n + 1
        <5>1. wire'[f][s][k] = sent + 1 /\ sent' = sent + 1 /\ sent \in Nat
          BY <1>1, <3>2, <4>1
        <5>2. ASSUME NEW j \in 1 .. n + 1, j < k PROVE wire'[f][s][j] < sent + 1
          <6>1. j \in 1 .. n
            BY <3>2, <4>1, <5>2
          <6>2. wire'[f][s][j] \in Nat /\ wire'[f][s][j] <= sent
            BY <3>2, <6>1
          <6> QED
            BY <5>1, <6>2
        <5>3. \A i \in 1 .. Len(passed) : passed[i].number < sent + 1
          BY <1>5, <5>1
        <5> QED
          BY <1>1, <5>1, <5>2, <5>3
      <4>2. CASE k \in 1 .. n
        <5>1. wire'[f][s][k] <= sent'
          <6>1. PICK x \in Nat : x = wire'[f][s][k] /\ x <= sent
            BY <3>2, <4>2
          <6>2. x <= sent'
            BY <1>1, <6>1
          <6> QED
            BY <6>1, <6>2
        <5>2. ASSUME NEW j \in 1 .. n + 1, j < k PROVE wire'[f][s][j] < wire'[f][s][k]
          <6>1. j \in 1 .. n
            BY <3>2, <4>2, <5>2
          <6>2. w[j] < w[k]
            BY <2>1, <4>2, <5>2, <6>1 DEF Line
          <6> QED
            BY <3>2, <4>2, <6>1, <6>2
        <5>3. \A i \in 1 .. Len(passed') :
                passed'[i].feed = f => passed'[i].number < wire'[f][s][k]
          BY <1>1, <2>1, <3>2, <4>2 DEF Line
        <5> QED
          BY <5>1, <5>2, <5>3
      <4> QED
        <5>1. n \in Nat
          BY <3>2
        <5>2. k = n + 1 \/ k \in 1 .. n
          BY <5>1
        <5> HIDE DEF n, w
        <5> QED
          BY <4>1, <4>2, <5>2
    <3> QED
      BY <3>2, <3>3, <3>4 DEF Line
  <2>3. CASE ~In(f, s, {"open"})
    <3>1. wire'[f][s] = wire[f][s]
      BY <1>2, <2>3
    <3>2. ASSUME NEW k \in 1 .. Len(wire[f][s]) PROVE wire[f][s][k] <= sent'
      BY <1>1, <2>1, <3>2 DEF Line
    <3> QED
      BY <1>1, <2>1, <3>1, <3>2 DEF Line, In
  <2> QED
    BY <2>2, <2>3
<1> QED
  BY <1>3, <1>4, <1>6, <1>7 DEF TickInv

(* A tick arrives: it is later than all its feed has passed, and no other   *)
(* socket of the feed has any.                                              *)
LEMMA TickArrived ==
  ASSUME TickInv, SocketInv', NEW f \in Feeds, NEW s \in Ids, Tick(f, s)
  PROVE  TickInv'
<1> DEFINE w == wire[f][s]
           n == Len(passed)
           p == [feed |-> f, number |-> Head(w)]
<1>1. UNCHANGED <<active, sent, socket>> /\ wire' = [wire EXCEPT ![f][s] = Tail(w)]
  BY DEF Tick, Arrives, socketVars
<1>2. w \in Seq(Nat) /\ w # <<>> /\ Line(f, s)
  BY DEF Tick, Arrives, TickInv, TickType
<1>3. /\ Len(w) \in Nat \ {0} /\ Head(w) = w[1] /\ w[1] \in Nat
      /\ Tail(w) \in Seq(Nat) /\ Len(Tail(w)) = Len(w) - 1
      /\ \A k \in 1 .. Len(w) - 1 : Tail(w)[k] = w[k + 1]
  BY <1>2
<1>4. w[1] <= sent /\ \A k \in 1 .. Len(w) - 1 : w[1] < w[k + 1]
  BY <1>2, <1>3 DEF Line
<1>5. passed \in Seq([feed : Feeds, number : Nat]) /\ n \in Nat
  BY DEF TickInv, TickType
<1>6. p \in [feed : Feeds, number : Nat] /\ p.feed = f /\ p.number = w[1]
  BY <1>3
<1>7. passed' = IF f = active THEN Append(passed, p) ELSE passed
  BY DEF Tick, Pass
<1>8. TickType'
  <2>1. passed' \in Seq([feed : Feeds, number : Nat])
    <3> HIDE DEF p
    <3>1. Append(passed, p) \in Seq([feed : Feeds, number : Nat])
      BY <1>5, <1>6, AppendKeeps
    <3> QED
      BY <1>5, <1>7, <3>1
  <2>2. wire' \in [Feeds -> [Ids -> Seq(Nat)]]
    <3> HIDE DEF w
    <3> QED
      BY <1>1, <1>3 DEF TickInv, TickType
  <2> QED
    BY <1>1, <2>1, <2>2 DEF TickInv, TickType
<1>9. \A i \in 1 .. Len(passed') :
        \/ i \in 1 .. n /\ passed'[i] = passed[i]
        \/ i = n + 1 /\ f = active /\ passed'[i] = p
  BY <1>5, <1>6, <1>7
<1>10. \A i \in 1 .. n : passed[i].feed = f => passed[i].number < w[1]
  BY <1>2, <1>3 DEF Line
<1>11. PassedSoFar'
  <2> SUFFICES ASSUME NEW i \in 1 .. Len(passed')
               PROVE  /\ passed'[i].number <= sent'
                      /\ active' = "primary" => passed'[i].feed = "primary"
    BY DEF PassedSoFar
  <2>1. CASE i \in 1 .. n /\ passed'[i] = passed[i]
    BY <1>1, <2>1 DEF TickInv, PassedSoFar
  <2>2. CASE i = n + 1 /\ f = active /\ passed'[i] = p
    BY <1>1, <1>4, <1>6, <2>2
  <2> QED
    BY <1>9, <2>1, <2>2
<1>12. PassedInOrder'
  <2> SUFFICES ASSUME NEW i \in 1 .. Len(passed'), NEW j \in 1 .. Len(passed'), i < j
               PROVE  \/ passed'[i].feed = passed'[j].feed /\ passed'[i].number < passed'[j].number
                      \/ passed'[i].feed = "primary" /\ passed'[j].feed = "secondary"
    BY DEF PassedInOrder
  <2>1. i \in 1 .. n /\ passed'[i] = passed[i]
    <3>1. j \in 1 .. n + 1
      BY <1>5, <1>9
    <3>2. i # n + 1
      BY <1>5, <3>1
    <3> QED
      BY <1>9, <3>2
  <2>2. CASE j \in 1 .. n /\ passed'[j] = passed[j]
    BY <2>1, <2>2 DEF TickInv, PassedInOrder
  <2>3. CASE j = n + 1 /\ f = active /\ passed'[j] = p
    <3>1. CASE passed[i].feed = f
      BY <1>6, <1>10, <2>1, <2>3, <3>1
    <3>2. CASE passed[i].feed # f
      <4>1. passed[i].feed \in {"primary", "secondary"} /\ f \in {"primary", "secondary"}
        BY <2>1, PassedIs, FailoverAssumption DEF TickInv
      <4>2. f # "primary"
        BY <2>1, <2>3, <3>2 DEF TickInv, PassedSoFar
      <4> QED
        BY <1>6, <2>1, <2>3, <3>2, <4>1, <4>2
    <3> QED
      BY <3>1, <3>2
  <2> QED
    BY <1>9, <2>2, <2>3
<1>13. ASSUME NEW g \in Feeds, NEW t \in Ids PROVE Line(g, t)'
  <2>1. wire[g][t] \in Seq(Nat) /\ Line(g, t)
    BY DEF TickInv, TickType
  <2>2. CASE g = f /\ t = s
    <3>1. wire'[g][t] = Tail(w)
      BY <1>1, <2>2 DEF TickInv, TickType
    <3>2. In(g, t, {"open", "closing"})'
      BY <1>1, <2>2 DEF Tick, Arrives, In
    <3>3. ASSUME NEW k \in 1 .. Len(w) - 1
          PROVE  /\ w[k + 1] <= sent
                 /\ \A j \in 1 .. Len(w) - 1 : j < k => w[j + 1] < w[k + 1]
                 /\ \A i \in 1 .. n : passed[i].feed = f => passed[i].number < w[k + 1]
      <4>1. k + 1 \in 1 .. Len(w) /\ \A j \in 1 .. Len(w) - 1 : j + 1 \in 1 .. Len(w)
        BY <1>3
      <4>2. /\ w[k + 1] <= sent
            /\ \A j \in 1 .. Len(w) : j < k + 1 => w[j] < w[k + 1]
            /\ \A i \in 1 .. n : passed[i].feed = f => passed[i].number < w[k + 1]
        BY <1>2, <4>1 DEF Line
      <4>3. ASSUME NEW j \in 1 .. Len(w) - 1, j < k PROVE w[j + 1] < w[k + 1]
        <5>1. j + 1 < k + 1
          BY <1>3, <4>3
        <5> QED
          BY <4>1, <4>2, <5>1
      <4> QED
        BY <4>2, <4>3
    <3>4. ASSUME NEW k \in 1 .. Len(w) - 1, NEW i \in 1 .. Len(passed'), passed'[i].feed = f
          PROVE  passed'[i].number < w[k + 1]
      BY <1>4, <1>6, <1>9, <3>3, <3>4
    <3>5. /\ Len(wire'[g][t]) = Len(w) - 1
          /\ \A k \in 1 .. Len(w) - 1 : wire'[g][t][k] = w[k + 1]
      BY <1>3, <3>1
    <3> HIDE DEF w
    <3> QED
      BY <1>1, <2>2, <3>2, <3>3, <3>4, <3>5 DEF Line
  <2>3. CASE g = f /\ t # s
    <3>1. ~In(g, t, {"open", "closing"})
      BY <2>3 DEF TickInv, SocketInv, Sole, Tick, Arrives, In, Alive
    <3>2. wire'[g][t] = wire[g][t]
      BY <1>1, <2>3 DEF TickInv, TickType
    <3> QED
      BY <2>1, <3>1, <3>2 DEF Line
  <2>4. CASE g # f
    <3>1. wire'[g][t] = wire[g][t]
      BY <1>1, <2>4 DEF TickInv, TickType
    <3>2. \A i \in 1 .. Len(passed') : passed'[i].feed = g => i \in 1 .. n /\ passed'[i] = passed[i]
      BY <1>6, <1>9, <2>4
    <3> QED
      BY <1>1, <2>1, <3>1, <3>2 DEF Line, In
  <2> QED
    BY <2>2, <2>3, <2>4
<1> QED
  BY <1>8, <1>11, <1>12, <1>13 DEF TickInv

LEMMA TickStep == TickInv /\ [Next]_vars => TickInv'
<1> SUFFICES ASSUME TickInv, [Next]_vars PROVE TickInv'
  OBVIOUS
<1>0. SocketInv'
  BY SocketStep DEF TickInv
<1>1. ASSUME NEW f \in Feeds, NEW s \in Ids, Open(f, s) PROVE TickInv'
  <2>1. \A g \in Feeds, t \in Ids :
          In(g, t, {"open", "closing"}) => In(g, t, {"open", "closing"})'
    BY <1>1 DEF Open, Opened, In, TickInv, SocketInv, SocketType
  <2> QED
    BY <1>0, <1>1, <2>1, NothingMoves DEF Open
<1>2. ASSUME NEW f \in Feeds, NEW s \in Ids, Drop(f, s) PROVE TickInv'
  BY <1>0, <1>2, TickDropped
<1>3. ASSUME NEW f \in Feeds, NEW s \in Ids, Tick(f, s) PROVE TickInv'
  BY <1>0, <1>3, TickArrived
<1>4. ASSUME NEW f \in Feeds, TimerFires(f) PROVE TickInv'
  <2>1. \A s \in Ids : ~In(f, s, Alive)
    BY <1>4 DEF TimerFires, Reconnect, TickInv, SocketInv, SocketType, Sole
  <2>2. \A g \in Feeds, t \in Ids :
          In(g, t, {"open", "closing"}) => In(g, t, {"open", "closing"})'
    BY <1>4, <2>1 DEF TimerFires, Reconnect, In, Alive, TickInv, SocketInv, SocketType
  <2> QED
    BY <1>0, <1>4, <2>2, NothingMoves DEF TimerFires
<1>5. CASE CloseBoth
  <2>1. \A g \in Feeds, t \in Ids :
          In(g, t, {"open", "closing"}) => In(g, t, {"open", "closing"})'
    BY <1>5 DEF CloseBoth, Close, Closing, In
  <2> QED
    BY <1>0, <1>5, <2>1, NothingMoves DEF CloseBoth
<1>6. CASE Send
  BY <1>0, <1>6, TickSent
<1>7. CASE UNCHANGED vars
  BY <1>0, <1>7, NothingMoves DEF vars, socketVars, In
<1> QED
  BY <1>1, <1>2, <1>3, <1>4, <1>5, <1>6, <1>7 DEF Next

(* What the wrapper passes on comes from the primary and then from the      *)
(* secondary, each in the exchange's order over all its sockets.            *)
THEOREM FailoverPassedInOrder == Spec => []PassedInOrder
<1>1. TickInv => PassedInOrder
  BY DEF TickInv
<1> QED
  BY TickStarts, TickStep, <1>1, PTL DEF Spec
===============================================================================
