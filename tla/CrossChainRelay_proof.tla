------------------------ MODULE CrossChainRelay_proof ------------------------
(***************************************************************************)
(* Cross-chain relaying keeps its promise for every set of runs, intents    *)
(* and wallets and under every fault the model has.                         *)
(*                                                                         *)
(* The argument is that a mined submission is a ticket: the bridge gives    *)
(* out one per intent, ever (OneTicket), a ticket that is held has not been *)
(* used (TicketUnused), and using it is the only way to act on the intent.  *)
(***************************************************************************)
EXTENDS CrossChainRelay, TLAPS

Holds(r, i) == at[r] = "registered" /\ current[r] = i

CurrentKnown ==
  \A r \in Runs : at[r] \notin {"ready", "crashed"} => current[r] \in Intents

OneTicket ==
  \A r, s \in Runs, i \in Intents : Holds(r, i) /\ Holds(s, i) => r = s

TicketUnused ==
  \A r \in Runs, i \in Intents :
    Holds(r, i) => i \in submittedAt /\ Acted(i) = 0

ExecutedIsRegistered == executed \subseteq submittedAt

PlacedByRun ==
  \A r \in Runs :
    at[r] \in {"confirmed", "marking", "settled"} => Acted(current[r]) = 1

SettledIsExecuted ==
  \A r \in Runs : at[r] = "settled" => current[r] \in executed

MarkedIsPlaced ==
  \A r \in Runs, i \in Intents : Tx("mark", i, r) \in pool => Acted(i) = 1

ExecutedIsPlaced == \A i \in executed : Acted(i) = 1

Inv ==
  /\ TypeOK
  /\ CurrentKnown
  /\ OneTicket
  /\ TicketUnused
  /\ PlacedByRun
  /\ SettledIsExecuted
  /\ MarkedIsPlaced
  /\ OrdersRegistered
  /\ ExecutedIsRegistered
  /\ ExecutedIsPlaced
  /\ ReportsAreTrue

USE DEF States, Results, Acted, exchangeVars

LEMMA InvInit == Init => Inv
BY BridgeAssumption
   DEF Init, BridgeInit, Inv, TypeOK, BridgeTypeOK, CurrentKnown, OneTicket,
       TicketUnused, PlacedByRun, SettledIsExecuted, MarkedIsPlaced,
       OrdersRegistered, ExecutedIsRegistered, ExecutedIsPlaced,
       ReportsAreTrue, Holds

(* What returning a result for one intent does to the run and its report.   *)
LEMMA ReturnEffect ==
  ASSUME NEW r \in Runs, NEW i \in Intents, NEW result \in Results,
         TypeOK, Return(r, i, result)
  PROVE  /\ at' \in [Runs -> States]
         /\ at'[r] = "ready"
         /\ \A s \in Runs \ {r} : at'[s] = at[s]
         /\ report' \in [Runs -> [Intents -> Results]]
         /\ \A s \in Runs, j \in Intents :
              report'[s][j] = IF s = r /\ j = i THEN result ELSE report[s][j]
<1>1. at \in [Runs -> States] /\ report \in [Runs -> [Intents -> Results]]
  BY DEF TypeOK
<1>2. at' = [at EXCEPT ![r] = "ready"]
      /\ report' = [report EXCEPT ![r] = [report[r] EXCEPT ![i] = result]]
  BY DEF Return, Goto
<1>3. [report[r] EXCEPT ![i] = result] \in [Intents -> Results]
      /\ \A j \in Intents : [report[r] EXCEPT ![i] = result][j]
           = IF j = i THEN result ELSE report[r][j]
  BY <1>1
<1>4. /\ report' \in [Runs -> [Intents -> Results]]
      /\ report'[r] = [report[r] EXCEPT ![i] = result]
      /\ \A s \in Runs \ {r} : report'[s] = report[s]
  BY <1>1, <1>2, <1>3
<1>5. \A s \in Runs, j \in Intents :
        report'[s][j] = IF s = r /\ j = i THEN result ELSE report[s][j]
  BY <1>3, <1>4
<1>6. at' \in [Runs -> States] /\ at'[r] = "ready"
      /\ \A s \in Runs \ {r} : at'[s] = at[s]
  BY <1>1, <1>2
<1> QED BY <1>4, <1>5, <1>6

(* Returning a result that is true keeps the invariant: the run lets go of  *)
(* whatever it held.                                                        *)
LEMMA InvReturn ==
  ASSUME NEW r \in Runs, NEW i \in Intents, NEW result \in Results, Inv,
         Return(r, i, result),
         UNCHANGED <<bridgeVars, exchangeVars, current>>,
         todo' \in [Runs -> SUBSET Intents],
         pool' \subseteq pool,
         result = "executed" =>
           (orders[i] = 1 /\ i \in executed) \/ unnumbered[i] = 1,
         result = "registered" => i \in submittedAt
  PROVE  Inv'
<1> USE DEF Inv, bridgeVars
<1>1. /\ at' \in [Runs -> States]
      /\ at'[r] = "ready"
      /\ \A s \in Runs \ {r} : at'[s] = at[s]
      /\ report' \in [Runs -> [Intents -> Results]]
      /\ \A s \in Runs, j \in Intents :
           report'[s][j] = IF s = r /\ j = i THEN result ELSE report[s][j]
  BY ReturnEffect
<1>2. TypeOK'
  BY <1>1 DEF TypeOK, BridgeTypeOK
<1>3. \A s \in Runs : at'[s] = "ready" \/ at'[s] = at[s]
  BY <1>1
<1>4. CurrentKnown' /\ OneTicket'
  BY <1>3 DEF CurrentKnown, OneTicket, Holds
<1>5. TicketUnused'
  BY <1>3 DEF TicketUnused, Holds
<1>6. PlacedByRun' /\ SettledIsExecuted'
  BY <1>3 DEF PlacedByRun, SettledIsExecuted
<1>7. MarkedIsPlaced' /\ OrdersRegistered' /\ ExecutedIsRegistered'
        /\ ExecutedIsPlaced'
  BY DEF MarkedIsPlaced, OrdersRegistered, ExecutedIsRegistered,
                         ExecutedIsPlaced
<1>8. ReportsAreTrue'
  BY <1>1 DEF ReportsAreTrue
<1> QED BY <1>2, <1>4, <1>5, <1>6, <1>7, <1>8

(* A step that touches neither the bridge nor the exchange.                 *)
LEMMA InvSend ==
  ASSUME NEW r \in Runs, NEW i \in Intents, Inv,
         SendSubmit(r, i) \/ SubmitRefused(r, i)
  PROVE  Inv'
<1> USE DEF Inv, TypeOK, BridgeTypeOK, bridgeVars, Goto
<1>1. CASE SendSubmit(r, i)
  <2>1. TypeOK'
    BY <1>1 DEF SendSubmit, Tx, Transactions
  <2>2. CurrentKnown' /\ OneTicket' /\ TicketUnused' /\ PlacedByRun'
        /\ SettledIsExecuted'
    BY <1>1 DEF SendSubmit, CurrentKnown, OneTicket, TicketUnused,
                PlacedByRun, SettledIsExecuted, Holds
  <2>3. MarkedIsPlaced'
    BY <1>1 DEF SendSubmit, MarkedIsPlaced, Tx
  <2>4. OrdersRegistered' /\ ExecutedIsRegistered' /\ ExecutedIsPlaced'
        /\ ReportsAreTrue'
    BY <1>1 DEF SendSubmit, OrdersRegistered, ExecutedIsRegistered,
                ExecutedIsPlaced, ReportsAreTrue
  <2> QED BY <2>1, <2>2, <2>3, <2>4
<1>2. CASE SubmitRefused(r, i)
  <2>1. /\ Return(r, i, "failed")
        /\ UNCHANGED <<bridgeVars, current, pool, exchangeVars>>
        /\ todo' \in [Runs -> SUBSET Intents]
    BY <1>2 DEF SubmitRefused
  <2> QED BY <2>1, InvReturn
<1> QED BY <1>1, <1>2

(* The four answers of the exchange that the relayer takes for an order.    *)
Acts(r) ==
  PlaceConfirmed(r) \/ PlaceUnanswered(r) \/ PlaceUnnumbered(r) \/ PlaceBlank(r)

(* The ticket: the run holds it alone, and the intent has not been acted on. *)
LEMMA Ticket ==
  ASSUME NEW r \in Runs, Inv, at[r] = "registered"
  PROVE  /\ current[r] \in Intents
         /\ current[r] \in submittedAt
         /\ Acted(current[r]) = 0
         /\ \A s \in Runs : Holds(s, current[r]) => s = r
BY DEF Inv, CurrentKnown, TicketUnused, OneTicket, Holds

(* What acting does to the exchange and to the run.                         *)
LEMMA ActsEffect ==
  ASSUME NEW r \in Runs, Inv, Acts(r)
  PROVE  /\ orders' \in [Intents -> Nat] /\ unnumbered' \in [Intents -> Nat]
         /\ \A j \in Intents :
              Acted(j)' = IF j = current[r] THEN 1 ELSE Acted(j)
         /\ \A j \in Intents \ {current[r]} :
              orders'[j] = orders[j] /\ unnumbered'[j] = unnumbered[j]
         /\ UNCHANGED <<bridgeVars, todo, current, pool>>
         /\ at' \in [Runs -> States] /\ at'[r] \in {"ready", "confirmed"}
         /\ \A s \in Runs \ {r} : at'[s] = at[s]
         /\ report' \in [Runs -> [Intents -> Results]]
         /\ \A s \in Runs, j \in Intents :
              \/ report'[s][j] = report[s][j]
              \/ j = current[r] /\ report'[s][j] = "registered"
              \/ j = current[r] /\ unnumbered'[j] = 1
<1> DEFINE i == current[r]
<1>1. /\ i \in Intents /\ at[r] = "registered"
      /\ orders \in [Intents -> Nat] /\ unnumbered \in [Intents -> Nat]
      /\ orders[i] = 0 /\ unnumbered[i] = 0
  <2>1. at[r] = "registered"
    BY DEF Acts, PlaceConfirmed, PlaceUnanswered, PlaceUnnumbered, PlaceBlank
  <2>2. orders \in [Intents -> Nat] /\ unnumbered \in [Intents -> Nat]
    BY DEF Inv, TypeOK
  <2> QED BY <2>1, <2>2, Ticket DEF Acted
<1>2. \/ /\ orders' = [orders EXCEPT ![i] = orders[i] + 1]
         /\ unnumbered' = unnumbered
      \/ /\ unnumbered' = [unnumbered EXCEPT ![i] = unnumbered[i] + 1]
         /\ orders' = orders
  BY DEF Acts, PlaceConfirmed, PlaceUnanswered, PlaceUnnumbered, PlaceBlank
<1>3. /\ orders' \in [Intents -> Nat] /\ unnumbered' \in [Intents -> Nat]
      /\ \A j \in Intents \ {i} :
           orders'[j] = orders[j] /\ unnumbered'[j] = unnumbered[j]
      /\ orders'[i] + unnumbered'[i] = 1
  BY <1>1, <1>2
<1>4. \A j \in Intents : Acted(j)' = IF j = i THEN 1 ELSE Acted(j)
  BY <1>3 DEF Acted
<1>5. /\ UNCHANGED <<bridgeVars, todo, current, pool>>
      /\ \/ at' = [at EXCEPT ![r] = "confirmed"] /\ report' = report
         \/ Return(r, i, "registered")
         \/ Return(r, i, "executed") /\ unnumbered'[i] = 1
  BY <1>1, <1>3 DEF Acts, PlaceConfirmed, PlaceUnanswered, PlaceUnnumbered,
    PlaceBlank, Goto
<1>6. TypeOK /\ at \in [Runs -> States]
      /\ report \in [Runs -> [Intents -> Results]]
  BY DEF Inv, TypeOK
<1>7. /\ at' \in [Runs -> States] /\ at'[r] \in {"ready", "confirmed"}
      /\ \A s \in Runs \ {r} : at'[s] = at[s]
      /\ report' \in [Runs -> [Intents -> Results]]
      /\ \A s \in Runs, j \in Intents :
           \/ report'[s][j] = report[s][j]
           \/ j = i /\ report'[s][j] = "registered"
           \/ j = i /\ unnumbered'[j] = 1
  <2>1. CASE at' = [at EXCEPT ![r] = "confirmed"] /\ report' = report
    BY <1>6, <2>1
  <2>2. CASE Return(r, i, "registered")
    BY <1>1, <1>6, <2>2, ReturnEffect
  <2>3. CASE Return(r, i, "executed") /\ unnumbered'[i] = 1
    BY <1>1, <1>6, <2>3, ReturnEffect
  <2> QED BY <1>5, <2>1, <2>2, <2>3
<1> QED BY <1>3, <1>4, <1>5, <1>7

(* The run with the ticket uses it ...                                      *)
LEMMA InvActs ==
  ASSUME NEW r \in Runs, Inv, Acts(r)
  PROVE  Inv'
<1> USE DEF Inv, bridgeVars
<1> DEFINE i == current[r]
<1>1. at[r] = "registered"
  BY DEF Acts, PlaceConfirmed, PlaceUnanswered, PlaceUnnumbered, PlaceBlank
<1>2. /\ i \in Intents /\ i \in submittedAt /\ Acted(i) = 0
      /\ \A s \in Runs : Holds(s, i) => s = r
  BY <1>1, Ticket
<1>3. /\ orders' \in [Intents -> Nat] /\ unnumbered' \in [Intents -> Nat]
      /\ \A j \in Intents : Acted(j)' = IF j = i THEN 1 ELSE Acted(j)
      /\ \A j \in Intents \ {i} :
           orders'[j] = orders[j] /\ unnumbered'[j] = unnumbered[j]
      /\ UNCHANGED <<bridgeVars, todo, current, pool>>
      /\ at' \in [Runs -> States] /\ at'[r] \in {"ready", "confirmed"}
      /\ \A s \in Runs \ {r} : at'[s] = at[s]
      /\ report' \in [Runs -> [Intents -> Results]]
      /\ \A s \in Runs, j \in Intents :
           \/ report'[s][j] = report[s][j]
           \/ j = i /\ report'[s][j] = "registered"
           \/ j = i /\ unnumbered'[j] = 1
  BY ActsEffect
<1>4. TypeOK'
  BY <1>3 DEF TypeOK, BridgeTypeOK
<1>5. CurrentKnown'
  BY <1>2, <1>3 DEF CurrentKnown
<1>10. \A s \in Runs, j \in Intents : Holds(s, j)' => Holds(s, j)
  BY <1>1, <1>3 DEF Holds
<1>11. OneTicket'
  BY <1>10 DEF OneTicket
<1>6. TicketUnused'
  BY <1>2, <1>3 DEF TicketUnused, Holds
<1>7. PlacedByRun' /\ SettledIsExecuted'
  <2>1. ASSUME NEW s \in Runs, at'[s] \in {"confirmed", "marking", "settled"}
        PROVE  Acted(current[s])' = 1
    <3>1. CASE s = r
      BY <1>2, <1>3, <3>1
    <3>2. CASE s # r
      <4>1. at[s] = at'[s] /\ current'[s] = current[s] /\ current[s] \in Intents
        BY <1>3, <2>1, <3>2 DEF CurrentKnown
      <4>2. Acted(current[s]) = 1
        BY <2>1, <4>1 DEF PlacedByRun
      <4> QED
        BY <1>3, <4>1, <4>2
    <3> QED
      BY <3>1, <3>2
  <2>2. ASSUME NEW s \in Runs, at'[s] = "settled"
        PROVE  current'[s] \in executed'
    <3>1. s # r /\ at[s] = "settled"
      BY <1>3, <2>2
    <3> QED
      BY <1>3, <3>1 DEF SettledIsExecuted
  <2> QED
    BY <2>1, <2>2 DEF PlacedByRun, SettledIsExecuted
<1>8. MarkedIsPlaced' /\ OrdersRegistered' /\ ExecutedIsRegistered'
        /\ ExecutedIsPlaced'
  BY <1>2, <1>3 DEF MarkedIsPlaced, OrdersRegistered, ExecutedIsRegistered,
    ExecutedIsPlaced, TypeOK, BridgeTypeOK
<1>9. ReportsAreTrue'
  <2>1. orders[i] = 0 /\ unnumbered[i] = 0
    BY <1>2 DEF Acted, TypeOK
  <2> QED BY <1>2, <1>3, <2>1 DEF ReportsAreTrue
<1> QED BY <1>4, <1>5, <1>6, <1>7, <1>8, <1>9, <1>11

(* ... or lets it lapse.                                                    *)
LEMMA InvPlaceFailed ==
  ASSUME NEW r \in Runs, Inv, PlaceFailed(r)
  PROVE  Inv'
<1>1. /\ Return(r, current[r], "registered")
      /\ UNCHANGED <<bridgeVars, todo, current, pool, exchangeVars>>
      /\ at[r] = "registered"
  BY DEF PlaceFailed
<1>2. current[r] \in Intents /\ current[r] \in submittedAt
  BY <1>1, Ticket
<1>3. todo' \in [Runs -> SUBSET Intents]
  BY <1>1 DEF Inv, TypeOK
<1>4. "registered" # "executed"
  OBVIOUS
<1> QED BY <1>1, <1>2, <1>3, <1>4, InvReturn

LEMMA OneOfTwo ==
  ASSUME NEW x \in Nat, NEW y \in Nat, x + y = 1
  PROVE  x = 1 \/ y = 1
OBVIOUS

(* What a run does once its order is placed.                                *)
LEMMA InvFinish ==
  ASSUME NEW r \in Runs, Inv,
         SendMark(r) \/ MarkRefused(r) \/ ReturnExecuted(r)
  PROVE  Inv'
<1> USE DEF Inv, TypeOK, BridgeTypeOK, bridgeVars, Goto
<1> DEFINE i == current[r]
<1>1. i \in Intents /\ Acted(i) = 1
  BY DEF CurrentKnown, PlacedByRun, SendMark, MarkRefused, ReturnExecuted
<1>2. CASE SendMark(r)
  <2>1. TypeOK'
    BY <1>1, <1>2 DEF SendMark, Tx, Transactions
  <2>2. CurrentKnown' /\ OneTicket' /\ TicketUnused' /\ PlacedByRun'
        /\ SettledIsExecuted'
    BY <1>2 DEF SendMark, CurrentKnown, OneTicket, TicketUnused,
                PlacedByRun, SettledIsExecuted, Holds
  <2>3. MarkedIsPlaced'
    BY <1>1, <1>2 DEF SendMark, MarkedIsPlaced, Tx
  <2>4. OrdersRegistered' /\ ExecutedIsRegistered' /\ ExecutedIsPlaced'
        /\ ReportsAreTrue'
    BY <1>2 DEF SendMark, OrdersRegistered, ExecutedIsRegistered,
                ExecutedIsPlaced, ReportsAreTrue
  <2> QED BY <2>1, <2>2, <2>3, <2>4
<1>3. CASE MarkRefused(r)
  <2>1. Return(r, i, "failed")
        /\ UNCHANGED <<bridgeVars, todo, current, pool, exchangeVars>>
    BY <1>3 DEF MarkRefused
  <2> QED BY <1>1, <2>1, InvReturn
<1>4. CASE ReturnExecuted(r)
  <2>1. Return(r, i, "executed")
        /\ UNCHANGED <<bridgeVars, todo, current, pool, exchangeVars>>
    BY <1>4 DEF ReturnExecuted
  <2>2. i \in executed
    BY <1>4 DEF ReturnExecuted, SettledIsExecuted
  <2>3. orders[i] = 1 \/ unnumbered[i] = 1
    <3>1. orders[i] \in Nat /\ unnumbered[i] \in Nat
      BY <1>1
    <3>2. orders[i] + unnumbered[i] = 1
      BY <1>1
    <3> QED BY <3>1, <3>2, OneOfTwo
  <2>4. todo' \in [Runs -> SUBSET Intents] /\ "executed" # "registered"
    BY <2>1
  <2> QED BY <1>1, <2>1, <2>2, <2>3, <2>4, InvReturn
<1> QED BY <1>2, <1>3, <1>4

(* A ticket whose holder fails or dies is never used.                       *)
LEMMA InvFail ==
  ASSUME NEW r \in Runs, Inv, LoseConnection(r) \/ Crash(r)
  PROVE  Inv'
<1> USE DEF Inv, TypeOK, BridgeTypeOK, bridgeVars, Goto
<1>1. CASE LoseConnection(r)
  <2>1. Return(r, current[r], "failed")
        /\ UNCHANGED <<bridgeVars, todo, current, pool, exchangeVars>>
    BY <1>1 DEF LoseConnection
  <2>2. current[r] \in Intents
    BY <1>1 DEF LoseConnection, CurrentKnown
  <2> QED BY <2>1, <2>2, InvReturn
<1>2. CASE Crash(r)
  <2>1. TypeOK'
    BY <1>2 DEF Crash
  <2>2. CurrentKnown' /\ OneTicket' /\ TicketUnused' /\ PlacedByRun'
        /\ SettledIsExecuted'
    BY <1>2 DEF Crash, CurrentKnown, OneTicket, TicketUnused, PlacedByRun,
                SettledIsExecuted, Holds
  <2>3. MarkedIsPlaced' /\ OrdersRegistered' /\ ExecutedIsRegistered' /\ ExecutedIsPlaced'
        /\ ReportsAreTrue'
    BY <1>2 DEF Crash, MarkedIsPlaced, OrdersRegistered, ExecutedIsRegistered,
                ExecutedIsPlaced, ReportsAreTrue
  <2> QED BY <2>1, <2>2, <2>3
<1> QED BY <1>1, <1>2

(* A transaction that reverts changes nothing but what its run knows.       *)
LEMMA InvReverted ==
  ASSUME NEW r \in Runs, NEW i \in Intents, NEW state \in States, Inv,
         UNCHANGED <<bridgeVars, todo, current, exchangeVars>>,
         pool' \subseteq pool,
         InformReverted(r, i, state)
  PROVE  Inv'
<1> USE DEF Inv
<1>1. CASE Awaits(r, i, state)
  <2>1. Return(r, i, "failed")
    BY <1>1 DEF InformReverted
  <2> QED BY <2>1, InvReturn DEF TypeOK
<1>2. CASE ~Awaits(r, i, state)
  <2>1. UNCHANGED <<bridgeVars, todo, current, exchangeVars, at, report>>
    BY <1>2 DEF InformReverted
  <2>2. TypeOK'
    BY <2>1 DEF bridgeVars, TypeOK, BridgeTypeOK
  <2> QED
    BY <2>1, <2>2 DEF bridgeVars, CurrentKnown, OneTicket, TicketUnused,
      PlacedByRun, SettledIsExecuted, MarkedIsPlaced, OrdersRegistered,
      ExecutedIsRegistered, ExecutedIsPlaced, ReportsAreTrue, Holds
<1> QED BY <1>1, <1>2

(* The bridge hands out the ticket of i, or refuses a second one.           *)
LEMMA InvMineSubmit ==
  ASSUME NEW r \in Runs, NEW i \in Intents, Inv, MineSubmit(r, i)
  PROVE  Inv'
<1> USE DEF Inv, TypeOK, BridgeTypeOK
<1>1. /\ pool' \subseteq pool
      /\ UNCHANGED <<todo, current, exchangeVars>>
  BY DEF MineSubmit
<1>2. CASE CanSubmit(i)
  <2>1. /\ submittedAt' = submittedAt \cup {i}
        /\ executed' = executed \ {i}
        /\ intentCount' = intentCount + 1 /\ relayers' = relayers
        /\ Inform(r, i, "submitting", "registered")
        /\ i \notin submittedAt
    BY <1>2 DEF MineSubmit, SubmitIntent, CanSubmit
  <2>2. i \notin executed /\ Acted(i) = 0
    BY <2>1 DEF ExecutedIsRegistered, OrdersRegistered
  <2>3. \A s \in Runs : ~Holds(s, i)
    BY <2>1 DEF TicketUnused
  <2>4. /\ at' \in [Runs -> States]
        /\ \A s \in Runs :
             \/ at'[s] = at[s]
             \/ s = r /\ current[r] = i /\ at'[s] = "registered"
    BY <2>1 DEF Inform, Awaits, Goto
  <2>5. report' = report
    BY <2>1 DEF Inform
  <2>6. TypeOK'
    BY <1>1, <2>1, <2>4, <2>5
  <2>7. CurrentKnown' /\ OneTicket'
    BY <1>1, <2>3, <2>4 DEF CurrentKnown, OneTicket, Holds
  <2>8. TicketUnused'
    BY <1>1, <2>1, <2>2, <2>3, <2>4 DEF TicketUnused, Holds
  <2>9. PlacedByRun' /\ SettledIsExecuted'
    BY <1>1, <2>1, <2>2, <2>4 DEF PlacedByRun, SettledIsExecuted
  <2>10. MarkedIsPlaced' /\ OrdersRegistered' /\ ExecutedIsRegistered'
        /\ ExecutedIsPlaced'
    BY <1>1, <2>1, <2>2 DEF MarkedIsPlaced, OrdersRegistered, ExecutedIsRegistered,
                         ExecutedIsPlaced
  <2>11. ReportsAreTrue'
    BY <1>1, <2>1, <2>2, <2>5 DEF ReportsAreTrue
  <2> QED BY <2>6, <2>7, <2>8, <2>9, <2>10, <2>11
<1>3. CASE ~CanSubmit(i)
  <2>1. UNCHANGED bridgeVars /\ InformReverted(r, i, "submitting")
    BY <1>3 DEF MineSubmit
  <2> QED BY <1>1, <2>1, InvReverted
<1> QED BY <1>2, <1>3

(* The bridge records the execution of an intent whose order is placed.     *)
LEMMA InvMineMark ==
  ASSUME NEW r \in Runs, NEW i \in Intents, Inv, MineMark(r, i)
  PROVE  Inv'
<1> USE DEF Inv
<1>1. /\ pool' \subseteq pool
      /\ UNCHANGED <<todo, current, exchangeVars>>
  BY DEF MineMark
<1>2. CASE CanMark(Wallet[r], i)
  <2>1. /\ executed' = executed \cup {i}
        /\ UNCHANGED <<submittedAt, intentCount, relayers>>
        /\ Inform(r, i, "marking", "settled")
        /\ i \in submittedAt
    BY <1>2 DEF MineMark, MarkExecuted, CanMark
  <2>2. Acted(i) = 1
    BY DEF MineMark, MarkedIsPlaced
  <2>3. at \in [Runs -> States]
    BY DEF TypeOK
  <2>4. /\ at' \in [Runs -> States]
        /\ \A s \in Runs :
             \/ at'[s] = at[s]
             \/ s = r /\ current[r] = i /\ at'[s] = "settled"
    BY <2>1, <2>3 DEF Inform, Awaits, Goto
  <2>5. report' = report
    BY <2>1 DEF Inform
  <2>6. TypeOK'
    BY <1>1, <2>1, <2>4, <2>5 DEF TypeOK, BridgeTypeOK
  <2>7. CurrentKnown' /\ OneTicket'
    BY <1>1, <2>4 DEF CurrentKnown, OneTicket, Holds
  <2>8. TicketUnused'
    BY <1>1, <2>1, <2>2, <2>4 DEF TicketUnused, Holds
  <2>9. PlacedByRun' /\ SettledIsExecuted'
    BY <1>1, <2>1, <2>2, <2>4 DEF PlacedByRun, SettledIsExecuted
  <2>10. MarkedIsPlaced' /\ OrdersRegistered' /\ ExecutedIsRegistered'
        /\ ExecutedIsPlaced'
    BY <1>1, <2>1, <2>2 DEF MarkedIsPlaced, OrdersRegistered, ExecutedIsRegistered,
                         ExecutedIsPlaced
  <2>11. ReportsAreTrue'
    BY <1>1, <2>1, <2>5 DEF ReportsAreTrue
  <2> QED BY <2>6, <2>7, <2>8, <2>9, <2>10, <2>11
<1>3. CASE ~CanMark(Wallet[r], i)
  <2>1. UNCHANGED bridgeVars /\ InformReverted(r, i, "marking")
    BY <1>3 DEF MineMark
  <2> QED BY <1>1, <2>1, InvReverted
<1> QED BY <1>2, <1>3

(* Transactions of others: a stranger's submission takes the ticket away.   *)
LEMMA InvOthers ==
  ASSUME Inv,
         \/ \E i \in Intents : SubmitByOutsider(i)
         \/ \E w \in Wallets \ {Owner}, allowed \in BOOLEAN : OwnerSetsRelayer(w, allowed)
  PROVE  Inv'
<1> USE DEF Inv
<1>1. ASSUME NEW i \in Intents, SubmitByOutsider(i)
      PROVE  Inv'
  <2>1. /\ submittedAt' = submittedAt \cup {i}
        /\ executed' = executed \ {i}
        /\ intentCount' = intentCount + 1 /\ relayers' = relayers
        /\ UNCHANGED <<todo, current, at, report, pool, exchangeVars>>
        /\ i \notin submittedAt
    BY <1>1 DEF SubmitByOutsider, SubmitIntent, CanSubmit, runVars
  <2>2. i \notin executed
    BY <2>1 DEF ExecutedIsRegistered
  <2>3. executed' = executed
    BY <2>1, <2>2
  <2>4. TypeOK'
    BY <2>1 DEF TypeOK, BridgeTypeOK
  <2> QED
    BY <2>1, <2>3, <2>4 DEF CurrentKnown, OneTicket, TicketUnused, PlacedByRun,
      SettledIsExecuted, MarkedIsPlaced, OrdersRegistered, ExecutedIsRegistered,
      ExecutedIsPlaced, ReportsAreTrue, Holds
<1>2. ASSUME NEW w \in Wallets, NEW allowed \in BOOLEAN,
             OwnerSetsRelayer(w, allowed)
      PROVE  Inv'
  <2>1. /\ relayers' \subseteq Wallets
        /\ UNCHANGED <<submittedAt, executed, intentCount, runVars, pool, exchangeVars>>
    BY <1>2 DEF OwnerSetsRelayer, SetRelayer, TypeOK, BridgeTypeOK
  <2>2. TypeOK'
    BY <2>1 DEF TypeOK, BridgeTypeOK, runVars
  <2> QED
    BY <2>1, <2>2 DEF runVars, CurrentKnown, OneTicket, TicketUnused,
      PlacedByRun, SettledIsExecuted, MarkedIsPlaced, OrdersRegistered,
      ExecutedIsRegistered, ExecutedIsPlaced, ReportsAreTrue, Holds
<1> QED BY <1>1, <1>2

LEMMA InvStutter ==
  ASSUME Inv, UNCHANGED vars
  PROVE  Inv'
BY DEF Inv, vars, bridgeVars, runVars, TypeOK, BridgeTypeOK, CurrentKnown,
  OneTicket, TicketUnused, PlacedByRun, SettledIsExecuted, MarkedIsPlaced,
  OrdersRegistered, ExecutedIsRegistered, ExecutedIsPlaced,
       ReportsAreTrue, Holds

LEMMA InvStep == Inv /\ [Next]_vars => Inv'
<1> SUFFICES ASSUME Inv, [Next]_vars
             PROVE  Inv'
  OBVIOUS
<1>1. CASE \E r \in Runs : Step(r)
  BY <1>1, InvSend, InvActs, InvPlaceFailed, InvFinish DEF Step, Acts
<1>2. CASE \E r \in Runs : Mine(r)
  BY <1>2, InvMineSubmit, InvMineMark DEF Mine
<1>3. CASE Outside
  BY <1>3, InvFail, InvOthers DEF Outside
<1>4. CASE UNCHANGED vars
  BY <1>4, InvStutter
<1> QED BY <1>1, <1>2, <1>3, <1>4 DEF Next

LEMMA SpecInv == Spec => []Inv
<1>1. Init => Inv
  BY InvInit
<1>2. Inv /\ [Next]_vars => Inv'
  BY InvStep
<1> QED BY <1>1, <1>2, PTL DEF Spec

(* Every run, the bridge and the exchange keep to their types.              *)
THEOREM BridgeTypes == Spec => []TypeOK
<1>1. Inv => TypeOK
  BY DEF Inv
<1> QED BY <1>1, SpecInv, PTL

(* relayCrossChainIntents never reports more than happened, whatever other  *)
(* runs, strangers, crashes and lost answers do, but for intents that the   *)
(* exchange answered without an order id.                                   *)
THEOREM RelayReportsAreTrue == Spec => []ReportsAreTrue
<1>1. Inv => ReportsAreTrue
  BY DEF Inv
<1> QED BY <1>1, SpecInv, PTL

(* An intent is never acted on twice, nor unless the bridge has it, for any *)
(* number of runs and whatever the exchange answers: submitIntent's refusal *)
(* of a known intent is what guards liveExecute.                            *)
THEOREM RelayOrdersRegistered == Spec => []OrdersRegistered
<1>1. Inv => OrdersRegistered
  BY DEF Inv
<1> QED BY <1>1, SpecInv, PTL

-----------------------------------------------------------------------------
(* The refinement: a step of the relaying is a step of OrderOnce or none.   *)

Unmoved == UNCHANGED <<submittedAt, executed, exchangeVars>>

Moves(i, from, to) ==
  /\ PhaseOf(i) = from
  /\ PhaseOf(i)' = to
  /\ \A j \in Intents \ {i} : PhaseOf(j)' = PhaseOf(j)

LEMMA MovesAdvance ==
  ASSUME NEW i \in Intents, NEW from, NEW to, Moves(i, from, to)
  PROVE  Once!Advance(i, from, to)
BY DEF Moves, Once!Advance, phaseMap

LEMMA PhaseOnRegister ==
  ASSUME NEW i \in Intents, Inv, CanSubmit(i), SubmitIntent(i),
         UNCHANGED exchangeVars
  PROVE  Once!Register(i)
<1>1. i \notin submittedAt /\ i \notin executed /\ Acted(i) = 0
  BY DEF CanSubmit, Inv, ExecutedIsRegistered, OrdersRegistered
<1>2. submittedAt' = submittedAt \cup {i} /\ executed' = executed \ {i}
      /\ \A j \in Intents : Acted(j)' = Acted(j)
  BY DEF SubmitIntent, Acted, exchangeVars
<1>3. Moves(i, "new", "registered")
  BY <1>1, <1>2 DEF Moves, PhaseOf
<1> QED BY <1>3, MovesAdvance DEF Once!Register

LEMMA PhaseOnPlace ==
  ASSUME NEW r \in Runs, Inv, Acts(r)
  PROVE  \E i \in Intents : Once!PlaceOrder(i)
<1>1. at[r] = "registered"
  BY DEF Acts, PlaceConfirmed, PlaceUnanswered, PlaceUnnumbered, PlaceBlank
<1>2. PICK i \in Intents :
        i = current[r] /\ Acted(i) = 0 /\ i \in submittedAt /\ i \notin executed
  BY <1>1, Ticket DEF Inv, ExecutedIsPlaced
<1>3. /\ UNCHANGED <<submittedAt, executed>>
      /\ Acted(i)' = 1
      /\ \A j \in Intents \ {i} : Acted(j)' = Acted(j)
  BY <1>2, ActsEffect DEF bridgeVars
<1>4. Moves(i, "registered", "placed")
  BY <1>2, <1>3 DEF Moves, PhaseOf
<1> QED BY <1>4, MovesAdvance DEF Once!PlaceOrder

LEMMA PhaseOnMark ==
  ASSUME NEW i \in Intents, NEW w \in Wallets, Inv, Acted(i) = 1,
         CanMark(w, i), MarkExecuted(w, i), UNCHANGED exchangeVars
  PROVE  Once!Execute(i)
<1>1. i \in submittedAt /\ i \notin executed
  BY DEF CanMark
<1>2. executed' = executed \cup {i} /\ submittedAt' = submittedAt
      /\ \A j \in Intents : Acted(j)' = Acted(j)
  BY DEF MarkExecuted, Acted, exchangeVars
<1>3. Moves(i, "placed", "executed")
  BY <1>1, <1>2 DEF Moves, PhaseOf
<1> QED BY <1>3, MovesAdvance DEF Once!Execute

LEMMA PhaseStep ==
  ASSUME Inv, [Next]_vars
  PROVE  [Once!OONext]_phaseMap
<1>1. ASSUME Unmoved
      PROVE  UNCHANGED phaseMap
  BY <1>1 DEF Unmoved, phaseMap, PhaseOf, Acted, exchangeVars
<1>2. ASSUME NEW r \in Runs, Step(r)
      PROVE  [Once!OONext]_phaseMap
  <2>1. CASE Acts(r)
    BY <2>1, PhaseOnPlace DEF Once!OONext
  <2>2. CASE ~Acts(r)
    <3>1. Unmoved
      BY <1>2, <2>2 DEF Acts, Step, SendSubmit, SubmitRefused, PlaceFailed,
        SendMark, MarkRefused, ReturnExecuted, bridgeVars, Unmoved
    <3> QED BY <3>1, <1>1
  <2> QED BY <2>1, <2>2
<1>3. ASSUME NEW r \in Runs, NEW i \in Intents, MineSubmit(r, i)
      PROVE  [Once!OONext]_phaseMap
  <2>1. CASE CanSubmit(i)
    BY <1>3, <2>1, PhaseOnRegister DEF MineSubmit, Once!OONext
  <2>2. CASE ~CanSubmit(i)
    BY <1>1, <1>3, <2>2 DEF MineSubmit, bridgeVars, Unmoved
  <2> QED BY <2>1, <2>2
<1>4. ASSUME NEW r \in Runs, NEW i \in Intents, MineMark(r, i)
      PROVE  [Once!OONext]_phaseMap
  <2>1. CASE CanMark(Wallet[r], i)
    <3>1. Acted(i) = 1
      BY <1>4 DEF MineMark, Inv, MarkedIsPlaced
    <3>2. Wallet[r] \in Wallets
      BY RunsAssumption
    <3>3. Once!Execute(i)
      BY <1>4, <2>1, <3>1, <3>2, PhaseOnMark DEF MineMark
    <3> QED BY <3>3 DEF Once!OONext
  <2>2. CASE ~CanMark(Wallet[r], i)
    BY <1>1, <1>4, <2>2 DEF MineMark, bridgeVars, Unmoved
  <2> QED BY <2>1, <2>2
<1>5. ASSUME Outside
      PROVE  [Once!OONext]_phaseMap
  <2>1. ASSUME NEW i \in Intents, SubmitByOutsider(i)
        PROVE  [Once!OONext]_phaseMap
    <3>1. CanSubmit(i)
      BY <2>1 DEF SubmitByOutsider, SubmitIntent
    <3> QED BY <2>1, <3>1, PhaseOnRegister DEF SubmitByOutsider, Once!OONext
  <2>2. CASE ~\E i \in Intents : SubmitByOutsider(i)
    <3>1. Unmoved
      BY <1>5, <2>2 DEF Outside, LoseConnection, Crash, OwnerSetsRelayer,
        SetRelayer, bridgeVars, Unmoved
    <3> QED BY <3>1, <1>1
  <2> QED BY <2>1, <2>2
<1>6. CASE UNCHANGED vars
  BY <1>1, <1>6 DEF vars, bridgeVars, Unmoved
<1> QED BY <1>2, <1>3, <1>4, <1>5, <1>6 DEF Next, Mine

(* An intent is acted on at most once, after it is registered and before it *)
(* is marked executed: cross-chain relaying implements OrderOnce, because   *)
(* submitIntent refuses an intent it has seen.                              *)
THEOREM RelayOrdersOnce == Spec => OrderedOnce
<1>1. Init => Once!OOInit
  BY DEF Init, BridgeInit, Once!OOInit, phaseMap, PhaseOf, Acted
<1>2. Inv /\ [Next]_vars => [Once!OONext]_phaseMap
  BY PhaseStep
<1> QED BY <1>1, <1>2, SpecInv, PTL DEF Spec, OrderedOnce, Once!OOSpec
=============================================================================
