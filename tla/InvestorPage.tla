------------------------------ MODULE InvestorPage ------------------------------
(***************************************************************************)
(* The investor's page of the product (BetaApp.tsx): what it knows of the   *)
(* wallet (lib/wallet.ts) and of the account (the /api routes, the          *)
(* executor's /performance), while the wallet is switched, answers come in  *)
(* any order or not at all, and a transaction is waited for.                *)
(*                                                                         *)
(* The page runs in steps: a click, a message of the wallet or an answer    *)
(* runs a handler up to its next await and sets state; React then renders   *)
(* and runs the effects whose dependencies changed (Commit).  Handlers and  *)
(* effects see the state of the render that made them, which is seen, not   *)
(* the state that has been set since.  It begins when config has loaded.    *)
(*                                                                         *)
(* The code keeps plain values; here the account they were asked for is     *)
(* kept with them, for the properties.  The operator's console is reduced   *)
(* to what it does to requests and grants.                                  *)
(***************************************************************************)
EXTENDS Naturals, Sequences, SequencesExt

CONSTANTS
  Accounts,
  Null,         \* no account, nothing loaded
  First,        \* the account the wallet starts on
  MaxEvents     \* bound: changes in the wallet, clicks, grants and failures

Readings == [of : Accounts, value : BOOLEAN]

ASSUME PageAssumption ==
  /\ Null \notin Accounts \cup Readings \cup BOOLEAN /\ First \in Accounts
  /\ MaxEvents \in Nat

VARIABLES
  account, onTarget,   \* the wallet: its account, whether it is on the fund's chain
  asked,               \* requests the wallet puts to its user
  stream,              \* events and answers of the wallet, in order
  address, walletChainId, chainOk,
  authorized, report, shareBalance, accessRequested, loading,
  seen,                \* what the effects that ran last depended on
  calls,               \* calls of the /api routes in the order they were made
  tx,                  \* handleDeposit or handleRedeem
  requests,            \* accounts in the store of access requests
  granted,             \* isAuthorized of the fund
  glitches,            \* what went wrong so far (history)
  events               \* how many outside events there were

walletVars == <<account, onTarget>>
chainVars == <<walletChainId, chainOk>>
pageVars == <<address, chainVars, authorized, report, shareBalance, accessRequested, loading>>
serverVars == <<requests, granted>>
vars == <<walletVars, asked, stream, pageVars, seen, calls, tx, serverVars, glitches, events>>

Known == Accounts \cup {Null}

(* A chain counts as the fund's or another; Null is one not read.           *)
Chains == BOOLEAN \cup {Null}
Switches == {"switch", "connectSwitch"}
Asks == {"connect"} \cup Switches
Reads == {"restore", "connectChain", "connectAfter", "chain"}
Messages ==
  [what : {"accounts", "restore", "connect"}, value : Known]
  \cup [what : {"chainChanged", "connectChain", "connectAfter", "chain"}, value : BOOLEAN]
  \cup [what : Switches, value : {TRUE}]
Kinds == {"auth", "shares", "performance", "request"}
Waits == {"nobody", "load", "tx", "loadForTx"}
Calls == [kind : Kinds, of : Accounts, for : Waits]

TypeOK ==
  /\ account \in Known /\ onTarget \in BOOLEAN
  /\ asked \subseteq Asks
  /\ stream \in Seq(Messages)
  /\ address \in Known /\ walletChainId \in Chains /\ chainOk \in BOOLEAN
  /\ authorized \in Readings \cup {Null}
  /\ report \in Known
  /\ shareBalance \in Known
  /\ accessRequested \in BOOLEAN /\ loading \in BOOLEAN
  /\ seen \in [address : Known, authorized : BOOLEAN \cup {Null}, chainOk : BOOLEAN]
  /\ calls \in Seq(Calls)
  /\ tx \in [pc : {"idle", "sent", "refresh"}, of : Known, authorized : BOOLEAN]
  /\ requests \subseteq Accounts /\ granted \subseteq Accounts
  /\ glitches \subseteq {"missed", "overtaken", "failed", "late", "refused"}
  /\ events \in 0 .. MaxEvents

-----------------------------------------------------------------------------
(* What is rendered.                                                        *)

Authorized == IF authorized = Null THEN Null ELSE authorized.value
Rendered == [address |-> address, authorized |-> Authorized, chainOk |-> chainOk]

Connected == seen.address # Null
NeedsAccess == seen.authorized # TRUE
ShowsRequestForm == Connected /\ seen.chainOk /\ NeedsAccess
ShowsFundForm == Connected /\ seen.chainOk
ShowsReport == seen.authorized = TRUE /\ report # Null

Idle == [pc |-> "idle", of |-> Null, authorized |-> FALSE]
TxPending == tx.pc # "idle"

(* What the wallet answers at once, eth_accounts and eth_chainId, with what *)
(* it is on when asked.                                                     *)
Answer(ask) == [what |-> ask, value |-> IF ask = "restore" THEN account ELSE onTarget]

Init ==
  /\ account = First /\ onTarget \in BOOLEAN
  /\ asked = {} /\ stream = <<Answer("restore")>>
  /\ address = Null /\ walletChainId = Null /\ chainOk = FALSE
  /\ authorized = Null /\ report = Null
  /\ shareBalance = Null /\ accessRequested = FALSE /\ loading = FALSE
  /\ seen = Rendered
  /\ calls = <<>> /\ tx = Idle
  /\ requests = {} /\ granted \in SUBSET Accounts
  /\ glitches = {}
  /\ events = 0

-----------------------------------------------------------------------------
(* The wallet (external).  It tells the page of changes and answers its     *)
(* requests over one channel, in order.                                     *)

Tell(what, value) == stream' = Append(stream, [what |-> what, value |-> value])

Event == events < MaxEvents /\ events' = events + 1

SwitchAccount(a) ==
  /\ Event
  /\ a # account /\ account' = a
  /\ Tell("accounts", a)
  /\ UNCHANGED <<onTarget, asked, pageVars, seen, calls, tx, serverVars, glitches>>

SwitchChain ==
  /\ Event
  /\ onTarget' = ~onTarget
  /\ Tell("chainChanged", ~onTarget)
  /\ UNCHANGED <<account, asked, pageVars, seen, calls, tx, serverVars, glitches>>

(* connectWallet: the user agrees.                                          *)
WalletConnects ==
  /\ "connect" \in asked /\ asked' = asked \ {"connect"}
  /\ account # Null
  /\ Tell("connect", account)
  /\ UNCHANGED <<walletVars, pageVars, seen, calls, tx, serverVars, glitches, events>>

(* switchToNetwork: the chain is switched, or is new to the wallet and only *)
(* added to it (wallet_addEthereumChain).                                   *)
WalletSwitches(ask) ==
  /\ ask \in asked /\ asked' = asked \ {ask}
  /\ \E ok \in BOOLEAN :
       /\ onTarget' = (onTarget \/ ok)
       /\ stream' = stream
            \o (IF ok /\ ~onTarget THEN <<[what |-> "chainChanged", value |-> TRUE]>> ELSE <<>>)
            \o <<[what |-> ask, value |-> TRUE]>>
  /\ UNCHANGED <<account, pageVars, seen, calls, tx, serverVars, glitches, events>>

(* The user declines, or there is no account to give.                       *)
WalletDeclines(ask) ==
  /\ ask \in asked /\ asked' = asked \ {ask}
  /\ UNCHANGED <<walletVars, stream, pageVars, seen, calls, tx, serverVars, glitches, events>>

-----------------------------------------------------------------------------
(* What the page does with the wallet's messages, and with a reading of it  *)
(* that is rejected, whose value is Null.                                   *)

Ask(asks, rest) == stream' = rest \o asks /\ UNCHANGED asked

(* Fault: the chain is taken to be right once the switch has been answered. *)
OnSwitchedAssumed(ask, rest) ==
  walletChainId' = TRUE /\ chainOk' = TRUE /\ Ask(<<>>, rest) /\ UNCHANGED address

(* handleConnect and handleSwitchNetwork read the chain again.              *)
OnSwitched(ask, rest) ==
  /\ Ask(<<Answer(IF ask = "switch" THEN "chain" ELSE "connectAfter")>>, rest)
  /\ UNCHANGED <<address, chainVars>>

OnConnect(a, rest) ==
  address' = a /\ Ask(<<Answer("connectChain")>>, rest) /\ UNCHANGED chainVars

(* Either reading of handleConnect ends it when rejected.                   *)
OnConnectChain(ok, rest) ==
  /\ walletChainId' = IF ok = Null THEN walletChainId ELSE ok
  /\ chainOk' = (chainOk \/ ok = TRUE)
  /\ asked' = IF ok = FALSE THEN asked \cup {"connectSwitch"} ELSE asked
  /\ stream' = rest /\ UNCHANGED address

OnConnectAfter(ok, rest) ==
  /\ walletChainId' = IF ok = Null THEN walletChainId ELSE ok
  /\ chainOk' = IF ok = Null THEN chainOk ELSE ok
  /\ Ask(<<>>, rest) /\ UNCHANGED address

OnRestore(a, rest) ==
  /\ address' = IF a = Null THEN address ELSE a
  /\ Ask(<<>>, rest) /\ UNCHANGED chainVars

(* refreshChain, or chainChanged.                                           *)
OnChain(ok, rest) ==
  walletChainId' = ok /\ chainOk' = (ok = TRUE) /\ Ask(<<>>, rest) /\ UNCHANGED address

OnAccounts(a, rest) == address' = a /\ Ask(<<>>, rest) /\ UNCHANGED chainVars

(* watchWallet is listening while an address has been rendered.             *)
Hears(m) == m.what \in {"accounts", "chainChanged"} => Connected

React(m, rest) ==
  /\ \/ m.what = "accounts" /\ OnAccounts(m.value, rest)
     \/ m.what \in {"chainChanged", "chain"} /\ OnChain(m.value, rest)
     \/ m.what = "restore" /\ OnRestore(m.value, rest)
     \/ m.what = "connect" /\ OnConnect(m.value, rest)
     \/ m.what = "connectChain" /\ OnConnectChain(m.value, rest)
     \/ m.what = "connectAfter" /\ OnConnectAfter(m.value, rest)
     \/ m.what \in Switches /\ OnSwitched(m.what, rest)
  /\ UNCHANGED glitches

Unheard(rest) ==
  /\ stream' = rest /\ UNCHANGED <<address, chainVars, asked>>
  /\ glitches' = IF address # Null /\ Head(stream).what = "accounts"
                 THEN glitches \cup {"missed"} ELSE glitches

Hear ==
  /\ stream # <<>>
  /\ IF Hears(Head(stream))
     THEN React(Head(stream), Tail(stream))
     ELSE Unheard(Tail(stream))
  /\ UNCHANGED <<walletVars, authorized, report, shareBalance, accessRequested, loading,
                 seen, calls, tx, serverVars, events>>

(* eth_accounts or eth_chainId is rejected.                                 *)
ReadFails ==
  /\ Event
  /\ stream # <<>> /\ Head(stream).what \in Reads
  /\ React([what |-> Head(stream).what, value |-> Null], Tail(stream))
  /\ UNCHANGED <<walletVars, authorized, report, shareBalance, accessRequested, loading,
                 seen, calls, tx, serverVars>>

-----------------------------------------------------------------------------
(* Rendering and effects.                                                   *)

Call(kind, a, for) == [kind |-> kind, of |-> a, for |-> for]

(* Fault: the account is looked up when the page is first connected only.   *)
LookupsOnce ==
  IF address # Null /\ seen.address = Null
  THEN <<Call("auth", address, "nobody"), Call("shares", address, "nobody")>>
  ELSE <<>>

(* refreshAuth and refreshShares.                                           *)
Lookups ==
  IF address \notin {Null, seen.address}
  THEN <<Call("auth", address, "nobody"), Call("shares", address, "nobody")>>
  ELSE <<>>

(* Fault: performance is loaded when the account changes, not when it is    *)
(* found to be authorized.                                                  *)
LoadsOnAddress ==
  IF address \notin {Null, seen.address} /\ Authorized = TRUE /\ chainOk
  THEN <<Call("performance", address, "load")>>
  ELSE <<>>

Loads ==
  IF address # Null /\ Authorized = TRUE /\ chainOk
  THEN <<Call("performance", address, "load")>>
  ELSE <<>>

Commit ==
  /\ seen # Rendered /\ seen' = Rendered
  /\ Ask(IF address \in {Null, seen.address} THEN <<>> ELSE <<Answer("chain")>>, stream)
  /\ calls' = calls \o Lookups \o Loads
  /\ loading' = (loading \/ Loads # <<>>)
  /\ UNCHANGED <<walletVars, address, chainVars, authorized, report, shareBalance,
                 accessRequested, tx, serverVars, glitches, events>>

-----------------------------------------------------------------------------
(* Clicks.                                                                  *)

Request(what) ==
  /\ asked' = asked \cup {what}
  /\ UNCHANGED <<walletVars, stream, pageVars, seen, calls, tx, serverVars, glitches>>

HandleConnect == Event /\ ~Connected /\ Request("connect")
HandleSwitchNetwork == Event /\ Connected /\ ~seen.chainOk /\ Request("switch")

Send(kind, for) ==
  /\ calls' = Append(calls, Call(kind, seen.address, for))
  /\ UNCHANGED <<walletVars, asked, stream, address, chainVars, authorized, report, shareBalance,
                 accessRequested, seen, tx, serverVars, glitches>>

HandleRequestAccess ==
  /\ Event /\ ShowsRequestForm /\ ~accessRequested
  /\ Send("request", "nobody") /\ UNCHANGED loading

CheckAuthorization ==
  Event /\ ShowsRequestForm /\ Send("auth", "nobody") /\ UNCHANGED loading

RefreshPerformance ==
  /\ Event /\ ShowsReport /\ ~loading /\ Connected
  /\ Send("performance", "load") /\ loading' = TRUE

(* handleDeposit, handleRedeem.                                             *)
HandleTransaction ==
  /\ Event /\ ShowsFundForm /\ ~TxPending
  /\ tx' = [pc |-> "sent", of |-> seen.address, authorized |-> seen.authorized = TRUE]
  /\ UNCHANGED <<walletVars, asked, stream, pageVars, seen, calls, serverVars, glitches>>

-----------------------------------------------------------------------------
(* A transaction of the fund form.  How an ERC-20 deposit is made of two is *)
(* the subject of InvestorCommands.                                         *)

Late(a) == IF a = seen.address THEN glitches ELSE glitches \cup {"late"}

(* The balance is asked for, of the account that was shown at the click.    *)
Mined ==
  /\ tx.pc = "sent" /\ account # Null
  /\ tx' = [tx EXCEPT !.pc = "refresh"]
  /\ calls' = Append(calls, Call("shares", tx.of, "tx"))
  /\ glitches' = Late(tx.of)
  /\ UNCHANGED <<walletVars, asked, stream, pageVars, seen, serverVars, events>>

(* Declined, reverted or given up.                                          *)
TransactionFails ==
  /\ tx.pc = "sent" /\ tx' = Idle
  /\ UNCHANGED <<walletVars, asked, stream, pageVars, seen, calls, serverVars, glitches, events>>

-----------------------------------------------------------------------------
(* The servers.  A call reads the chain, or writes the store, when its      *)
(* answer lands; that it may have read a little earlier changes values only,*)
(* which nothing here compares.                                             *)

AuthOk(a) == a \in granted

(* Anybody's balance is told.                                               *)
SharesOk(a) == TRUE

(* buildPerformanceReport throws for whoever is not authorized, for which   *)
(* the executor answers 403, and the route passes that on.                  *)
BuildPerformanceReport(a) == a \in granted
ReportOk(a) == BuildPerformanceReport(a)

Served(c) ==
  IF /\ c.kind = "auth" => AuthOk(c.of)
     /\ c.kind = "shares" => SharesOk(c.of)
     /\ c.kind = "performance" => ReportOk(c.of)
  THEN "ok" ELSE "refused"

(* appendBetaRequest.                                                       *)
Store(c) ==
  requests' = IF c.kind = "request" THEN requests \cup {c.of} ELSE requests

(* The operator authorizes an account: one of the requests of the console,  *)
(* or any from the command line.                                            *)
Authorize(a) ==
  /\ Event
  /\ a \notin granted /\ granted' = granted \cup {a}
  /\ UNCHANGED <<walletVars, asked, stream, pageVars, seen, calls, tx, requests, glitches>>

(* The grant is revoked, or expires.                                        *)
Revoke(a) ==
  /\ Event
  /\ a \in granted /\ granted' = granted \ {a}
  /\ UNCHANGED <<walletVars, asked, stream, pageVars, seen, calls, tx, requests, glitches>>

-----------------------------------------------------------------------------
(* Answers land.  c is the call, rest what else is under way; each operator *)
(* says how calls, tx and its part of the page change.                      *)

Overtakes(i) == \E j \in 1 .. i - 1 : calls[j].kind = calls[i].kind /\ calls[j].of # calls[i].of

OnAuth(c, answer, rest) ==
  /\ authorized' = [of |-> c.of, value |-> answer = "ok"]
  /\ calls' = rest
  /\ UNCHANGED <<report, shareBalance, accessRequested, loading, tx>>

OnRequest(c, answer, rest) ==
  /\ accessRequested' = (accessRequested \/ answer = "ok")
  /\ calls' = rest
  /\ UNCHANGED <<authorized, report, shareBalance, loading, tx>>

(* refreshShares, and whoever waits for it: loadPerformance and the         *)
(* transaction end, a transaction of an authorized account goes on to       *)
(* loadPerformance.  An answer that says no is ignored, a lost one thrown.  *)
OnShares(c, answer, rest) ==
  LET loads == c.for \in {"load", "loadForTx"}
      goesOn == c.for = "tx" /\ tx.authorized /\ answer # "lost"
  IN /\ shareBalance' = IF answer = "ok" THEN c.of ELSE shareBalance
     /\ report' = IF loads /\ answer = "lost" THEN Null ELSE report
     /\ loading' = IF loads THEN FALSE ELSE loading \/ goesOn
     /\ tx' = IF c.for = "loadForTx" \/ (c.for = "tx" /\ ~goesOn) THEN Idle ELSE tx
     /\ calls' = IF goesOn THEN Append(rest, Call("performance", c.of, "tx")) ELSE rest
     /\ UNCHANGED <<authorized, accessRequested>>

(* Fault: a failure leaves the page loading.                                *)
OnPerformanceHangs(c, answer, rest) ==
  /\ report' = IF answer = "ok" THEN c.of ELSE Null
  /\ calls' = IF answer = "ok"
              THEN Append(rest, Call("shares", c.of, IF c.for = "tx" THEN "loadForTx" ELSE "load"))
              ELSE rest
  /\ tx' = IF answer # "ok" /\ c.for = "tx" THEN Idle ELSE tx
  /\ UNCHANGED <<authorized, shareBalance, accessRequested, loading>>

(* loadPerformance.                                                         *)
OnPerformance(c, answer, rest) ==
  /\ report' = IF answer = "ok" THEN c.of ELSE Null
  /\ loading' = (loading /\ answer = "ok")
  /\ calls' = IF answer = "ok"
              THEN Append(rest, Call("shares", c.of, IF c.for = "tx" THEN "loadForTx" ELSE "load"))
              ELSE rest
  /\ tx' = IF answer # "ok" /\ c.for = "tx" THEN Idle ELSE tx
  /\ UNCHANGED <<authorized, shareBalance, accessRequested>>

Land(i, answer) ==
  /\ LET c == calls[i]
         rest == RemoveAt(calls, i)
     IN /\ \/ c.kind = "auth" /\ OnAuth(c, answer, rest)
           \/ c.kind = "shares" /\ OnShares(c, answer, rest)
           \/ c.kind = "performance" /\ OnPerformance(c, answer, rest)
           \/ c.kind = "request" /\ OnRequest(c, answer, rest)
        /\ glitches' = (IF Len(calls') = Len(calls) THEN Late(c.of) ELSE glitches)
                       \cup (IF Overtakes(i) THEN {"overtaken"} ELSE {})
                       \cup (IF answer = Served(c) THEN {} ELSE {"failed"})
                       \cup (IF c.kind = "performance" /\ Served(c) = "refused" THEN {"refused"} ELSE {})
  /\ UNCHANGED <<walletVars, asked, stream, address, chainVars, seen, granted>>

Answered(i) == Land(i, Served(calls[i])) /\ Store(calls[i]) /\ UNCHANGED events

(* The server or the network fails; a request may be stored all the same.   *)
Fails(i, how) ==
  /\ Event /\ Land(i, how)
  /\ Store(calls[i]) \/ UNCHANGED requests

-----------------------------------------------------------------------------
Next ==
  \/ \E a \in Known : SwitchAccount(a)
  \/ SwitchChain
  \/ WalletConnects
  \/ \E ask \in Switches : WalletSwitches(ask)
  \/ \E ask \in asked : WalletDeclines(ask)
  \/ Hear \/ ReadFails
  \/ Commit
  \/ HandleConnect \/ HandleSwitchNetwork \/ HandleRequestAccess
  \/ CheckAuthorization \/ RefreshPerformance
  \/ HandleTransaction \/ Mined \/ TransactionFails
  \/ \E i \in DOMAIN calls : Answered(i) \/ \E how \in {"refused", "lost"} : Fails(i, how)
  \/ \E a \in Accounts : Authorize(a) \/ Revoke(a)

Spec == Init /\ [][Next]_vars

(* Rendering goes on, the wallet's messages arrive, calls are answered or   *)
(* fail, and a transaction the wallet has is mined, declined or given up.   *)
FairSpec ==
  /\ Spec
  /\ WF_vars(Hear) /\ WF_vars(Commit)
  /\ WF_vars(\E i \in DOMAIN calls : Answered(i))
  /\ WF_vars(Mined \/ TransactionFails)

-----------------------------------------------------------------------------
(* Properties.                                                              *)

WalletQuiet == stream = <<>> /\ asked = {} /\ seen = Rendered
AtRest == WalletQuiet /\ calls = <<>> /\ ~TxPending

(* However the wallet is switched while the page connects, restores its     *)
(* session, reads the chain or asks for another, and whichever readings     *)
(* fail: once all messages are in, a page that shows an account shows the   *)
(* wallet's, and the chain it has read is the one the wallet is on; where   *)
(* none was read it does not offer the fund's form.  The exception is an    *)
(* account event between the answer that connects and the first render.     *)
MirrorsWallet ==
  WalletQuiet /\ address # Null =>
    /\ walletChainId \in {onTarget, Null} /\ chainOk = (walletChainId = TRUE)
    /\ address = account \/ "missed" \in glitches

(* What is shown at rest belongs to the account shown.  What can go wrong   *)
(* is listed in glitches and nothing else can: an answer overtaken by a     *)
(* later call's, a call that fails, and a handler of the account before     *)
(* that goes on to its next call after the switch.                          *)
ShownIsOwn ==
  AtRest /\ address # Null /\ glitches \subseteq {"missed", "refused"} =>
    /\ authorized # Null /\ authorized.of = address
    /\ shareBalance = address
    /\ chainOk /\ ShowsReport => report = address

SeesUnless(excuses) ==
  \A a \in Accounts :
    address = a /\ authorized = [of |-> a, value |-> TRUE] /\ chainOk
      ~> \/ report = a
         \/ address # a \/ ~chainOk \/ authorized # [of |-> a, value |-> TRUE]
         \/ a \notin granted \/ glitches \cap excuses # {}

(* A page whose account is found to be authorized gets the report, unless   *)
(* it moves on, the grant is gone again or a glitch comes in between, of    *)
(* which one is a load that was refused: it may have been made too early,   *)
(* because the account shown before was authorized.                         *)
AuthorizedSees == SeesUnless({"missed", "overtaken", "failed", "late", "refused"})

(* "You are authorized. Loading performance data..." (BetaApp.tsx, line     *)
(* 314) comes true also when a grant falls between the load that was made   *)
(* too early and the answer about the account.                              *)
GrantIsSeen == SeesUnless({"missed", "overtaken", "failed", "late"})

(* The page does not stay busy: loading ends however the calls end, and so  *)
(* does a transaction the wallet has been asked for.                        *)
BusyEnds == (loading ~> ~loading) /\ (TxPending ~> ~TxPending)

(* A page that says "Your shares" (BetaApp.tsx, line 419) of an account     *)
(* shows that account's, when no call failed or was overtaken.              *)
SharesAreOwn ==
  AtRest /\ address # Null /\ glitches \subseteq {"missed", "refused", "late"} =>
    shareBalance = address

(* "Request submitted. Operator will authorize your wallet." (BetaApp.tsx,  *)
(* line 370) is said to somebody whose request is in the store.             *)
RequestedIsStored ==
  ShowsRequestForm /\ seen = Rendered /\ accessRequested => address \in requests
=============================================================================
