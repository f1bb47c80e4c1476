-------------------------- MODULE InvestorPage_proof --------------------------
(***************************************************************************)
(* The investor's page, for any accounts and any number of switches,        *)
(* clicks, grants and failures: what it shows at rest is the wallet's and   *)
(* belongs to the account shown.                                            *)
(***************************************************************************)
EXTENDS InvestorPage, TLAPS

-----------------------------------------------------------------------------
(* What comes in order.                                                     *)

Absent(q, S) == \A k \in DOMAIN q : q[k] \notin S

(* An entry of S is in T unless a later one of L replaces it.               *)
Standing(q, S, L, T) ==
  \A k \in DOMAIN q :
    q[k] \in S /\ (\A j \in DOMAIN q : j > k => q[j] \notin L) => q[k] \in T

(* The last entry in S, if there is one, is in T.                           *)
Newest(q, S, T) == Standing(q, S, S, T)

LEMMA AppendIs ==
  ASSUME NEW M, NEW q \in Seq(M), NEW e \in M
  PROVE  /\ Append(q, e) \in Seq(M) /\ Len(q) \in Nat
         /\ DOMAIN q = 1 .. Len(q) /\ DOMAIN Append(q, e) = 1 .. Len(q) + 1
         /\ Append(q, e)[Len(q) + 1] = e
         /\ \A k \in 1 .. Len(q) : Append(q, e)[k] = q[k]
OBVIOUS

LEMMA StandingGrown ==
  ASSUME NEW M, NEW q \in Seq(M), NEW e \in M, NEW S, NEW L, NEW T,
         e \in S => e \in T,
         e \in L \/ Standing(q, S, L, T)
  PROVE  Standing(Append(q, e), S, L, T)
<1> DEFINE w == Append(q, e)
           n == Len(q)
<1>1. /\ n \in Nat /\ DOMAIN q = 1 .. n /\ DOMAIN w = 1 .. n + 1
      /\ w[n + 1] = e /\ \A k \in 1 .. n : w[k] = q[k]
  BY AppendIs
<1> HIDE DEF w, n
<1> SUFFICES ASSUME NEW k \in 1 .. n + 1, w[k] \in S,
                    \A j \in 1 .. n + 1 : j > k => w[j] \notin L
             PROVE  w[k] \in T
  BY <1>1 DEF Standing, w
<1>2. CASE k = n + 1
  BY <1>1, <1>2
<1>3. CASE k \in 1 .. n
  <2>1. n + 1 \in 1 .. n + 1 /\ n + 1 > k
    BY <1>1, <1>3
  <2>2. e \notin L
    BY <1>1, <2>1
  <2>3. \A j \in 1 .. n : j > k => q[j] \notin L
    <3> SUFFICES ASSUME NEW j \in 1 .. n, j > k PROVE q[j] \notin L
      OBVIOUS
    <3>1. j \in 1 .. n + 1 /\ w[j] = q[j]
      BY <1>1
    <3> QED
      BY <3>1
  <2> QED
    BY <1>1, <1>3, <2>2, <2>3 DEF Standing
<1> QED
  BY <1>1, <1>2, <1>3

LEMMA AbsentGrown ==
  ASSUME NEW M, NEW q \in Seq(M), NEW e \in M, NEW S, Absent(Append(q, e), S)
  PROVE  Absent(q, S) /\ e \notin S
<1> DEFINE w == Append(q, e)
           n == Len(q)
<1>1. /\ n \in Nat /\ DOMAIN q = 1 .. n /\ DOMAIN w = 1 .. n + 1
      /\ w[n + 1] = e /\ \A k \in 1 .. n : w[k] = q[k]
  BY AppendIs
<1>2. n + 1 \in 1 .. n + 1 /\ \A k \in 1 .. n : k \in 1 .. n + 1
  BY <1>1
<1>3. \A k \in 1 .. n + 1 : w[k] \notin S
  BY <1>1 DEF Absent
<1> HIDE DEF w, n
<1> QED
  BY <1>1, <1>2, <1>3 DEF Absent

LEMMA TailIs ==
  ASSUME NEW M, NEW q \in Seq(M), q # <<>>
  PROVE  /\ Tail(q) \in Seq(M) /\ Head(q) \in M /\ Head(q) = q[1]
         /\ Len(q) \in Nat \ {0} /\ DOMAIN q = 1 .. Len(q)
         /\ DOMAIN Tail(q) = 1 .. Len(q) - 1
         /\ \A k \in 1 .. Len(q) - 1 : Tail(q)[k] = q[k + 1]
OBVIOUS

(* The first is taken: what it leaves behind, and what it was if nothing    *)
(* follows that replaces it.                                                *)
LEMMA StandingTaken ==
  ASSUME NEW M, NEW q \in Seq(M), q # <<>>, NEW S, NEW L, NEW T, Standing(q, S, L, T)
  PROVE  /\ Standing(Tail(q), S, L, T)
         /\ Absent(Tail(q), L) /\ Head(q) \in S => Head(q) \in T
         /\ Absent(Tail(q), L) /\ Head(q) \notin L => Absent(q, L)
<1> DEFINE w == Tail(q)
           n == Len(q)
<1>1. /\ n \in Nat \ {0} /\ DOMAIN q = 1 .. n /\ DOMAIN w = 1 .. n - 1
      /\ Head(q) = q[1] /\ \A k \in 1 .. n - 1 : w[k] = q[k + 1]
  BY TailIs
<1> HIDE DEF w, n
<1>2. 1 \in 1 .. n /\ \A k \in 1 .. n - 1 : k + 1 \in 1 .. n
  BY <1>1
<1>3. \A j \in 1 .. n : j > 1 => j - 1 \in 1 .. n - 1 /\ w[j - 1] = q[j]
  BY <1>1
<1>4. Standing(w, S, L, T)
  <2> SUFFICES ASSUME NEW k \in 1 .. n - 1, w[k] \in S,
                      \A j \in 1 .. n - 1 : j > k => w[j] \notin L
               PROVE  w[k] \in T
    BY <1>1 DEF Standing
  <2>1. k + 1 \in 1 .. n /\ w[k] = q[k + 1]
    BY <1>1, <1>2
  <2>2. ASSUME NEW j \in 1 .. n, j > k + 1 PROVE q[j] \notin L
    <3>1. j > 1 /\ j - 1 > k
      BY <2>2
    <3> QED
      BY <1>3, <3>1
  <2> QED
    BY <1>1, <2>1, <2>2 DEF Standing
<1>5. ASSUME Absent(w, L) PROVE \A j \in 1 .. n : j > 1 => q[j] \notin L
  BY <1>1, <1>3, <1>5 DEF Absent
<1>6. Absent(w, L) /\ Head(q) \in S => Head(q) \in T
  BY <1>1, <1>2, <1>5 DEF Standing
<1>7. Absent(w, L) /\ Head(q) \notin L => Absent(q, L)
  <2> SUFFICES ASSUME Absent(w, L), Head(q) \notin L, NEW k \in 1 .. n PROVE q[k] \notin L
    BY <1>1 DEF Absent
  <2>1. k = 1 \/ k > 1
    OBVIOUS
  <2> QED
    BY <1>1, <1>5, <2>1
<1> QED
  BY <1>4, <1>6, <1>7 DEF w

LEMMA ConcatIs ==
  ASSUME NEW M, NEW a \in Seq(M), NEW b \in Seq(M)
  PROVE  /\ a \o b \in Seq(M) /\ Len(a) \in Nat /\ Len(b) \in Nat
         /\ Len(a \o b) = Len(a) + Len(b) /\ DOMAIN (a \o b) = 1 .. Len(a \o b)
         /\ \A k \in 1 .. Len(a) : (a \o b)[k] = a[k]
         /\ \A k \in 1 .. Len(b) : (a \o b)[Len(a) + k] = b[k]
OBVIOUS

LEMMA RemoveIs ==
  ASSUME NEW M, NEW q \in Seq(M), NEW i \in 1 .. Len(q)
  PROVE  /\ RemoveAt(q, i) \in Seq(M) /\ Len(q) \in Nat \ {0}
         /\ DOMAIN q = 1 .. Len(q)
         /\ Len(RemoveAt(q, i)) = Len(q) - 1
         /\ DOMAIN RemoveAt(q, i) = 1 .. Len(q) - 1
         /\ \A k \in 1 .. Len(q) - 1 :
              RemoveAt(q, i)[k] = IF k < i THEN q[k] ELSE q[k + 1]
<1>1. /\ SubSeq(q, 1, i - 1) \in Seq(M) /\ Len(SubSeq(q, 1, i - 1)) = i - 1
      /\ \A k \in 1 .. i - 1 : SubSeq(q, 1, i - 1)[k] = q[k]
  OBVIOUS
<1>2. /\ SubSeq(q, i + 1, Len(q)) \in Seq(M) /\ Len(SubSeq(q, i + 1, Len(q))) = Len(q) - i
      /\ \A k \in 1 .. Len(q) - i : SubSeq(q, i + 1, Len(q))[k] = q[k + i]
  OBVIOUS
<1>3. PICK before \in Seq(M) :
        /\ before = SubSeq(q, 1, i - 1) /\ Len(before) = i - 1
        /\ \A k \in 1 .. i - 1 : before[k] = q[k]
  BY <1>1
<1>4. PICK after \in Seq(M) :
        /\ after = SubSeq(q, i + 1, Len(q)) /\ Len(after) = Len(q) - i
        /\ \A k \in 1 .. Len(q) - i : after[k] = q[k + i]
  BY <1>2
<1>5. RemoveAt(q, i) = before \o after
  BY <1>3, <1>4 DEF RemoveAt
<1>6. Len(q) \in Nat \ {0} /\ DOMAIN q = 1 .. Len(q)
  OBVIOUS
<1> DEFINE w == before \o after
<1>7. /\ w \in Seq(M) /\ Len(w) = (i - 1) + (Len(q) - i) /\ DOMAIN w = 1 .. Len(w)
      /\ \A k \in 1 .. i - 1 : w[k] = before[k]
      /\ \A k \in 1 .. Len(q) - i : w[(i - 1) + k] = after[k]
  <2>1. /\ w \in Seq(M) /\ Len(w) = Len(before) + Len(after) /\ DOMAIN w = 1 .. Len(w)
        /\ \A k \in 1 .. Len(before) : w[k] = before[k]
        /\ \A k \in 1 .. Len(after) : w[Len(before) + k] = after[k]
    BY ONLY ConcatIs, before \in Seq(M), after \in Seq(M)
  <2>2. Len(before) = i - 1 /\ Len(after) = Len(q) - i
    BY <1>3, <1>4
  <2> HIDE DEF w
  <2> QED
    BY <2>1, <2>2, Zenon
<1> HIDE DEF w
<1>8. Len(w) = Len(q) - 1
  BY <1>6, <1>7
<1>9. ASSUME NEW k \in 1 .. Len(q) - 1
      PROVE  w[k] = IF k < i THEN q[k] ELSE q[k + 1]
  <2>1. CASE k < i
    <3>1. k \in 1 .. i - 1
      BY <2>1
    <3> QED
      BY <1>3, <1>7, <2>1, <3>1
  <2>2. CASE k >= i
    <3> DEFINE d == k - (i - 1)
    <3>1. d \in 1 .. Len(q) - i /\ d + i = k + 1 /\ (i - 1) + d = k
      BY <1>6, <2>2
    <3> HIDE DEF d
    <3>2. w[(i - 1) + d] = after[d] /\ after[d] = q[d + i]
      BY <1>4, <1>7, <3>1
    <3> QED
      BY <2>2, <3>1, <3>2
  <2> QED
    BY <1>6, <2>1, <2>2
<1> QED
  BY <1>5, <1>6, <1>7, <1>8, <1>9 DEF w

(* One somewhere is removed, and it is not one that was put in after        *)
(* another of its sort that it differs from.                                *)
LEMMA NewestRemoved ==
  ASSUME NEW M, NEW q \in Seq(M), NEW i \in 1 .. Len(q), NEW S, NEW T, Newest(q, S, T),
         q[i] \in S /\ q[i] \in T => \A j \in 1 .. i - 1 : q[j] \in S => q[j] \in T
  PROVE  /\ Newest(RemoveAt(q, i), S, T)
         /\ Absent(RemoveAt(q, i), S) /\ q[i] \in S => q[i] \in T
         /\ Absent(RemoveAt(q, i), S) /\ q[i] \notin S => Absent(q, S)
<1> DEFINE w == RemoveAt(q, i)
           n == Len(q)
<1>1. /\ n \in Nat \ {0} /\ DOMAIN q = 1 .. n /\ DOMAIN w = 1 .. n - 1
      /\ \A k \in 1 .. n - 1 : w[k] = IF k < i THEN q[k] ELSE q[k + 1]
  BY RemoveIs
<1>0. i \in 1 .. n
  OBVIOUS
<1> HIDE DEF w, n
<1>2. \A j \in 1 .. n : /\ j < i => j \in 1 .. n - 1 /\ w[j] = q[j]
                        /\ j > i => j - 1 \in 1 .. n - 1 /\ w[j - 1] = q[j]
  BY <1>0, <1>1
<1>3. Newest(w, S, T)
  <2> SUFFICES ASSUME NEW k \in 1 .. n - 1, w[k] \in S,
                      \A j \in 1 .. n - 1 : j > k => w[j] \notin S
               PROVE  w[k] \in T
    BY <1>1 DEF Newest, Standing
  <2>1. CASE k >= i
    <3>1. k + 1 \in 1 .. n /\ w[k] = q[k + 1]
      BY <1>0, <1>1, <2>1
    <3>2. ASSUME NEW j \in 1 .. n, j > k + 1 PROVE q[j] \notin S
      <4>1. j > i /\ j - 1 > k
        BY <1>0, <2>1, <3>2
      <4> QED
        BY <1>2, <4>1
    <3> QED
      BY <1>1, <3>1, <3>2 DEF Newest, Standing
  <2>2. CASE k < i
    <3>1. k \in 1 .. n /\ w[k] = q[k] /\ k \in 1 .. i - 1
      BY <1>0, <1>1, <2>2
    <3>2. ASSUME NEW j \in 1 .. n, j > k, j # i PROVE q[j] \notin S
      <4>1. CASE j < i
        BY <1>2, <3>2, <4>1
      <4>2. CASE j > i
        <5>1. j - 1 > k
          BY <1>0, <2>2, <4>2
        <5> QED
          BY <1>2, <4>2, <5>1
      <4> QED
        BY <1>0, <3>2, <4>1, <4>2
    <3>3. CASE q[i] \notin S
      <4>1. \A j \in 1 .. n : j > k => q[j] \notin S
        BY <3>2, <3>3
      <4> QED
        BY <1>1, <3>1, <4>1 DEF Newest, Standing
    <3>4. CASE q[i] \in S
      <4>1. \A j \in 1 .. n : j > i => q[j] \notin S
        <5> SUFFICES ASSUME NEW j \in 1 .. n, j > i PROVE q[j] \notin S
          OBVIOUS
        <5>1. j > k /\ j # i
          BY <1>0, <2>2
        <5> QED
          BY <3>2, <5>1
      <4>2. q[i] \in T
        BY <1>0, <1>1, <3>4, <4>1 DEF Newest, Standing
      <4> QED
        BY <3>1, <3>4, <4>2
    <3> QED
      BY <3>3, <3>4
  <2> QED
    BY <1>0, <1>1, <2>1, <2>2
<1>4. ASSUME Absent(w, S) PROVE \A j \in 1 .. n : j # i => q[j] \notin S
  <2> SUFFICES ASSUME NEW j \in 1 .. n, j # i PROVE q[j] \notin S
    OBVIOUS
  <2>1. j < i \/ j > i
    BY <1>0
  <2> QED
    BY <1>1, <1>2, <1>4, <2>1 DEF Absent
<1>5. Absent(w, S) /\ q[i] \in S => q[i] \in T
  <2>1. \A j \in 1 .. n : j > i => j # i
    BY <1>0
  <2> QED
    BY <1>0, <1>1, <1>4, <2>1 DEF Newest, Standing
<1>6. Absent(w, S) /\ q[i] \notin S => Absent(q, S)
  BY <1>1, <1>4 DEF Absent
<1> QED
  BY <1>3, <1>5, <1>6 DEF w

-----------------------------------------------------------------------------
(* Types.                                                                   *)

(* A transaction that waits is some account's.                              *)
PageTypes == TypeOK /\ (tx.pc = "sent" => tx.of # Null)

LEMMA MessageIs ==
  ASSUME NEW m \in Messages
  PROVE  \/ m.what \in {"accounts", "restore", "connect"} /\ m.value \in Known
         \/ /\ m.what \in {"chainChanged", "connectChain", "connectAfter", "chain"}
            /\ m.value \in BOOLEAN
         \/ m.what \in Switches /\ m.value = TRUE
BY DEF Messages

LEMMA MessageMade ==
  /\ \A a \in Known, what \in {"accounts", "restore", "connect"} :
       [what |-> what, value |-> a] \in Messages
  /\ \A ok \in BOOLEAN, what \in {"chainChanged", "connectChain", "connectAfter", "chain"} :
       [what |-> what, value |-> ok] \in Messages
  /\ \A ask \in Switches : [what |-> ask, value |-> TRUE] \in Messages
BY DEF Messages

(* Readings the page asks for once it is there.                             *)
ChainReads == {"chain", "connectChain", "connectAfter"}

LEMMA AnswerMade ==
  ASSUME TypeOK
  PROVE  Answer("restore") \in Messages /\ \A what \in ChainReads : Answer(what) \in Messages
BY MessageMade DEF TypeOK, Answer, ChainReads

LEMMA CallMade ==
  ASSUME NEW kind \in Kinds, NEW a \in Accounts, NEW for \in Waits
  PROVE  Call(kind, a, for) \in Calls
BY DEF Call, Calls

LEMMA TellTypes ==
  ASSUME TypeOK, NEW what, NEW value, [what |-> what, value |-> value] \in Messages,
         Tell(what, value)
  PROVE  stream' \in Seq(Messages)
BY AppendIs DEF TypeOK, Tell

LEMMA JoinedOne ==
  ASSUME NEW M, NEW q \in Seq(M), NEW e \in M
  PROVE  q \o <<e>> = Append(q, e) /\ q \o <<>> = q
OBVIOUS

(* What the wallet sends when it is asked to switch.                        *)
LEMMA SwitchesSends ==
  ASSUME TypeOK, NEW ask \in Switches, WalletSwitches(ask)
  PROVE  LET done == [what |-> ask, value |-> TRUE]
             told == [what |-> "chainChanged", value |-> TRUE]
         IN  \/ onTarget' = onTarget /\ stream' = Append(stream, done)
             \/ onTarget' = TRUE /\ stream' = Append(Append(stream, told), done)
<1> DEFINE done == [what |-> ask, value |-> TRUE]
           told == [what |-> "chainChanged", value |-> TRUE]
<1>1. done \in Messages /\ told \in Messages /\ stream \in Seq(Messages)
  BY MessageMade DEF TypeOK
<1>2. onTarget \in BOOLEAN
  BY DEF TypeOK
<1>3. PICK ok \in BOOLEAN :
        /\ onTarget' = (onTarget \/ ok)
        /\ stream' = stream \o (IF ok /\ ~onTarget THEN <<told>> ELSE <<>>) \o <<done>>
  BY DEF WalletSwitches
<1> HIDE DEF done, told
<1>4. CASE ok /\ ~onTarget
  <2>1. stream' = (stream \o <<told>>) \o <<done>>
    BY <1>3, <1>4
  <2>2. stream \o <<told>> = Append(stream, told) /\ Append(stream, told) \in Seq(Messages)
    BY <1>1, JoinedOne, AppendIs
  <2>3. stream' = Append(Append(stream, told), done)
    <3>1. stream' = Append(stream, told) \o <<done>>
      BY <2>1, <2>2
    <3>2. Append(stream, told) \o <<done>> = Append(Append(stream, told), done)
      BY <1>1, <2>2, JoinedOne
    <3> QED
      BY <3>1, <3>2
  <2> QED
    BY <1>3, <1>4, <2>3 DEF done, told
<1>5. CASE ~(ok /\ ~onTarget)
  <2>1. stream' = (stream \o <<>>) \o <<done>>
    BY <1>3, <1>5
  <2>2. stream' = Append(stream, done)
    BY <1>1, <2>1, JoinedOne
  <2>3. onTarget' = onTarget
    BY <1>2, <1>3, <1>5
  <2> QED
    BY <2>2, <2>3 DEF done, told
<1> QED
  BY <1>4, <1>5

(* What is asked for when a render is committed.                            *)
LooksUp == address \notin {Null, seen.address}
LoadsNow == address # Null /\ Authorized = TRUE /\ chainOk

LookedUp ==
  IF LooksUp
  THEN Append(Append(calls, Call("auth", address, "nobody")), Call("shares", address, "nobody"))
  ELSE calls

LEMMA CommitSends ==
  ASSUME TypeOK, Commit
  PROVE  /\ stream' = IF LooksUp THEN Append(stream, Answer("chain")) ELSE stream
         /\ LookedUp \in Seq(Calls)
         /\ LoadsNow => Call("performance", address, "load") \in Calls
         /\ calls' = IF LoadsNow THEN Append(LookedUp, Call("performance", address, "load"))
                     ELSE LookedUp
<1> DEFINE auth == Call("auth", address, "nobody")
           shares == Call("shares", address, "nobody")
           load == Call("performance", address, "load")
<1>1. stream \in Seq(Messages) /\ Answer("chain") \in Messages /\ calls \in Seq(Calls)
  BY AnswerMade DEF TypeOK, ChainReads
<1>2. address # Null => auth \in Calls /\ shares \in Calls /\ load \in Calls
  BY CallMade DEF TypeOK, Known, Kinds, Waits
<1>3. stream' = IF LooksUp THEN Append(stream, Answer("chain")) ELSE stream
  <2>1. stream' = stream \o (IF LooksUp THEN <<Answer("chain")>> ELSE <<>>)
    BY DEF Commit, Ask, LooksUp
  <2> QED
    BY <1>1, <2>1, JoinedOne
<1>4. calls' = calls \o (IF LooksUp THEN <<auth, shares>> ELSE <<>>)
                     \o (IF LoadsNow THEN <<load>> ELSE <<>>)
  BY DEF Commit, Lookups, Loads, LooksUp, LoadsNow
<1> HIDE DEF auth, shares, load
<1>5. LookedUp \in Seq(Calls) /\ calls \o (IF LooksUp THEN <<auth, shares>> ELSE <<>>) = LookedUp
  <2>1. CASE LooksUp
    <3>1. auth \in Calls /\ shares \in Calls
      BY <1>2, <2>1 DEF LooksUp
    <3>2. Append(calls, auth) \in Seq(Calls) /\ Append(Append(calls, auth), shares) \in Seq(Calls)
      BY <1>1, <3>1, AppendIs
    <3>3. calls \o <<auth, shares>> = Append(Append(calls, auth), shares)
      BY <1>1, <3>1
    <3> QED
      BY <2>1, <3>2, <3>3 DEF LookedUp, auth, shares
  <2>2. CASE ~LooksUp
    BY <1>1, <2>2, JoinedOne DEF LookedUp
  <2> QED
    BY <2>1, <2>2
<1>6. calls' = IF LoadsNow THEN Append(LookedUp, load) ELSE LookedUp
  <2>1. calls' = LookedUp \o (IF LoadsNow THEN <<load>> ELSE <<>>)
    BY <1>4, <1>5
  <2>2. CASE LoadsNow
    <3>1. load \in Calls
      BY <1>2, <2>2 DEF LoadsNow
    <3> QED
      BY <1>5, <2>1, <2>2, <3>1, JoinedOne
  <2>3. CASE ~LoadsNow
    <3>1. LookedUp \o <<>> = LookedUp
      BY <1>5
    <3> QED
      BY <2>1, <2>3, <3>1
  <2> QED
    BY <2>2, <2>3
<1> QED
  BY <1>2, <1>3, <1>5, <1>6 DEF LoadsNow, load

LEMMA RenderedTypes ==
  ASSUME TypeOK
  PROVE  Rendered \in [address : Known, authorized : BOOLEAN \cup {Null}, chainOk : BOOLEAN]
BY DEF TypeOK, Rendered, Authorized, Readings

LEMMA CommitTypes ==
  ASSUME TypeOK, Commit
  PROVE  TypeOK'
<1>1. stream' \in Seq(Messages)
  <2>1. stream \in Seq(Messages) /\ Append(stream, Answer("chain")) \in Seq(Messages)
    BY AnswerMade, AppendIs DEF TypeOK, ChainReads
  <2> QED
    BY <2>1, CommitSends
<1>2. calls' \in Seq(Calls)
  BY CommitSends, AppendIs
<1>3. loading' \in BOOLEAN
  BY DEF Commit
<1>4. seen' \in [address : Known, authorized : BOOLEAN \cup {Null}, chainOk : BOOLEAN]
  BY RenderedTypes DEF Commit
<1>5. UNCHANGED <<walletVars, asked, address, chainVars, authorized, report, shareBalance,
                  accessRequested, tx, serverVars, glitches, events>>
  BY DEF Commit, Ask
<1> QED
  BY <1>1, <1>2, <1>3, <1>4, <1>5 DEF TypeOK, walletVars, chainVars, serverVars

LEMMA EventTypes ==
  ASSUME TypeOK, Event
  PROVE  events' \in 0 .. MaxEvents
BY PageAssumption DEF TypeOK, Event

LEMMA WalletTypes ==
  ASSUME TypeOK,
         \/ \E a \in Known : SwitchAccount(a)
         \/ SwitchChain \/ WalletConnects \/ \E ask \in Switches : WalletSwitches(ask)
         \/ \E ask \in asked : WalletDeclines(ask)
  PROVE  TypeOK'
<1> USE DEF walletVars, chainVars, pageVars, serverVars
<1>1. ASSUME NEW a \in Known, SwitchAccount(a) PROVE TypeOK'
  <2>1. stream' \in Seq(Messages)
    BY <1>1, MessageMade, TellTypes DEF SwitchAccount
  <2> QED
    BY <1>1, <2>1, EventTypes DEF SwitchAccount, TypeOK
<1>2. ASSUME SwitchChain PROVE TypeOK'
  <2>1. (~onTarget) \in BOOLEAN
    OBVIOUS
  <2>2. stream' \in Seq(Messages)
    BY <1>2, <2>1, MessageMade, TellTypes DEF SwitchChain
  <2> QED
    BY <1>2, <2>2, EventTypes DEF SwitchChain, TypeOK
<1>3. ASSUME WalletConnects PROVE TypeOK'
  <2>1. stream' \in Seq(Messages)
    BY <1>3, MessageMade, TellTypes DEF WalletConnects, TypeOK
  <2> QED
    BY <1>3, <2>1 DEF WalletConnects, TypeOK
<1>4. ASSUME NEW ask \in Switches, WalletSwitches(ask) PROVE TypeOK'
  <2>1. stream' \in Seq(Messages) /\ onTarget' \in BOOLEAN
    <3> DEFINE done == [what |-> ask, value |-> TRUE]
               told == [what |-> "chainChanged", value |-> TRUE]
    <3>1. done \in Messages /\ told \in Messages /\ stream \in Seq(Messages)
      BY MessageMade DEF TypeOK
    <3>2. /\ Append(stream, done) \in Seq(Messages) /\ Append(stream, told) \in Seq(Messages)
          /\ Append(Append(stream, told), done) \in Seq(Messages)
      BY <3>1, AppendIs
    <3> QED
      BY <1>4, <3>2, SwitchesSends DEF TypeOK
  <2>2. UNCHANGED <<account, pageVars, seen, calls, tx, serverVars, glitches, events>>
        /\ asked' \subseteq asked
    BY <1>4 DEF WalletSwitches
  <2> QED
    BY <2>1, <2>2 DEF TypeOK
<1>5. ASSUME NEW ask \in asked, WalletDeclines(ask) PROVE TypeOK'
  BY <1>5 DEF WalletDeclines, TypeOK
<1> QED
  BY <1>1, <1>2, <1>3, <1>4, <1>5

(* What the page knows of the wallet when a reading m of it has been        *)
(* rejected, or has landed, or the page has heard m.                        *)
Rejected(m) ==
  /\ m.what \in Reads
  /\ address' = address
  /\ \/ m.what = "chain" /\ walletChainId' = Null /\ chainOk' = FALSE
     \/ m.what # "chain" /\ UNCHANGED chainVars

Learnt(m) ==
  /\ \/ m.what \in {"accounts", "connect"} /\ address' = m.value
     \/ /\ m.what = "accounts" /\ address' = address
        /\ address = Null \/ "missed" \in glitches'
     \/ m.what = "restore" /\ address' = IF m.value = Null THEN address ELSE m.value
     \/ m.what \notin {"accounts", "connect", "restore"} /\ address' = address
  /\ \/ /\ m.what \in {"chain", "chainChanged", "connectAfter"}
        /\ walletChainId' = m.value /\ chainOk' = m.value
     \/ m.what = "chainChanged" /\ ~Connected /\ UNCHANGED chainVars
     \/ m.what = "connectChain" /\ walletChainId' = m.value /\ chainOk' = (chainOk \/ m.value)
     \/ /\ m.what \notin {"chain", "chainChanged", "connectChain", "connectAfter"}
        /\ UNCHANGED chainVars

Follows(rest) ==
  \/ stream' = rest
  \/ \E what \in ChainReads : stream' = Append(rest, Answer(what))

LEMMA ReactSays ==
  ASSUME TypeOK, NEW m, NEW rest \in Seq(Messages), React(m, rest)
  PROVE  /\ Follows(rest) /\ glitches' = glitches
         /\ asked' \subseteq asked \cup Switches
         /\ m \in Messages => Learnt(m)
         /\ m.value = Null => m.what \notin Reads \/ Rejected(m)
<1> USE DEF Follows, ChainReads
<1>1. /\ rest \o <<>> = rest
      /\ \A what \in ChainReads : rest \o <<Answer(what)>> = Append(rest, Answer(what))
  BY AnswerMade, JoinedOne
<1>2. m \in Messages =>
        /\ m.what \in {"chainChanged", "connectChain", "connectAfter", "chain"}
             => m.value \in BOOLEAN
        /\ m.value \in BOOLEAN => m.value # Null
  BY MessageIs, PageAssumption DEF Known, Switches
<1>3. glitches' = glitches
  BY DEF React
<1>4. CASE m.what = "accounts" /\ OnAccounts(m.value, rest)
  BY <1>1, <1>3, <1>4 DEF OnAccounts, Ask, Learnt, Reads, chainVars
<1>5. CASE m.what \in {"chainChanged", "chain"} /\ OnChain(m.value, rest)
  <2>1. m.value \in BOOLEAN => (m.value = TRUE) = m.value
    OBVIOUS
  <2>2. m.value = Null => (m.value = TRUE) = FALSE
    BY PageAssumption
  <2> QED
    BY <1>1, <1>2, <1>3, <1>5, <2>1, <2>2 DEF OnChain, Ask, Learnt, Rejected, Reads, chainVars
<1>6. CASE m.what = "restore" /\ OnRestore(m.value, rest)
  BY <1>1, <1>3, <1>6 DEF OnRestore, Ask, Learnt, Rejected, Reads, chainVars
<1>7. CASE m.what = "connect" /\ OnConnect(m.value, rest)
  BY <1>1, <1>3, <1>7 DEF OnConnect, Ask, Learnt, Reads, chainVars
<1>8. CASE m.what = "connectChain" /\ OnConnectChain(m.value, rest)
  <2>1. m.value \in BOOLEAN => (chainOk \/ m.value = TRUE) = (chainOk \/ m.value)
    OBVIOUS
  <2>2. m.value = Null => (chainOk \/ m.value = TRUE) = chainOk
    BY PageAssumption DEF TypeOK
  <2> QED
    BY <1>1, <1>2, <1>3, <1>8, <2>1, <2>2
       DEF OnConnectChain, Learnt, Rejected, Reads, Switches, chainVars
<1>9. CASE m.what = "connectAfter" /\ OnConnectAfter(m.value, rest)
  BY <1>1, <1>2, <1>3, <1>9 DEF OnConnectAfter, Ask, Learnt, Rejected, Reads, chainVars
<1>10. CASE m.what \in Switches /\ OnSwitched(m.what, rest)
  BY <1>1, <1>3, <1>10 DEF OnSwitched, Ask, Learnt, Reads, Switches, chainVars
<1> QED
  BY <1>4, <1>5, <1>6, <1>7, <1>8, <1>9, <1>10 DEF React

LEMMA HearSays ==
  ASSUME TypeOK, Hear \/ ReadFails
  PROVE  LET m == Head(stream)
             rest == Tail(stream)
         IN  /\ m \in Messages /\ rest \in Seq(Messages) /\ stream # <<>>
             /\ Follows(rest)
             /\ Learnt(m) \/ Rejected(m)
             /\ glitches \subseteq glitches' /\ glitches' \subseteq glitches \cup {"missed"}
             /\ asked' \subseteq asked \cup Switches
             /\ events' = events \/ Event
             /\ UNCHANGED <<walletVars, authorized, report, shareBalance, accessRequested,
                            loading, seen, calls, tx, serverVars>>
<1> DEFINE m == Head(stream)
           rest == Tail(stream)
<1>1. m \in Messages /\ rest \in Seq(Messages) /\ stream # <<>>
  BY TailIs DEF Hear, ReadFails, TypeOK
<1>2. CASE Hear
  <2>1. UNCHANGED <<walletVars, authorized, report, shareBalance, accessRequested,
                    loading, seen, calls, tx, serverVars, events>>
    BY <1>2 DEF Hear
  <2>2. CASE Hears(m)
    <3>1. React(m, rest)
      BY <1>2, <2>2 DEF Hear
    <3> HIDE DEF m, rest
    <3>2. /\ Follows(rest) /\ glitches' = glitches /\ asked' \subseteq asked \cup Switches
          /\ Learnt(m)
      BY <1>1, <3>1, ReactSays
    <3> QED
      BY <1>1, <2>1, <3>2 DEF m, rest
  <2>3. CASE ~Hears(m)
    <3>1. Unheard(rest)
      BY <1>2, <2>3 DEF Hear
    <3>2. m.what \in {"accounts", "chainChanged"} /\ ~Connected
      BY <2>3 DEF Hears
    <3>3. /\ stream' = rest /\ UNCHANGED <<address, chainVars, asked>>
          /\ glitches' = IF address # Null /\ m.what = "accounts"
                         THEN glitches \cup {"missed"} ELSE glitches
      BY <3>1 DEF Unheard
    <3> HIDE DEF m, rest
    <3>4. Follows(rest) /\ Learnt(m)
      BY <3>2, <3>3 DEF Follows, Learnt
    <3> QED
      BY <1>1, <2>1, <3>3, <3>4 DEF m, rest
  <2> QED
    BY <2>2, <2>3
<1>3. CASE ReadFails
  <2> DEFINE lost == [what |-> m.what, value |-> Null]
  <2>1. /\ Event /\ m.what \in Reads /\ React(lost, rest)
        /\ UNCHANGED <<walletVars, authorized, report, shareBalance, accessRequested,
                       loading, seen, calls, tx, serverVars>>
    BY <1>3 DEF ReadFails
  <2>2. lost.what = m.what /\ lost.value = Null
    OBVIOUS
  <2> HIDE DEF lost, m, rest
  <2>3. /\ Follows(rest) /\ glitches' = glitches /\ asked' \subseteq asked \cup Switches
        /\ Rejected(lost)
    BY <1>1, <2>1, <2>2, ReactSays
  <2>4. Rejected(m)
    BY <2>2, <2>3 DEF Rejected
  <2> QED
    BY <1>1, <2>1, <2>3, <2>4 DEF m, rest
<1> QED
  BY <1>2, <1>3

LEMMA HearTypes ==
  ASSUME TypeOK, Hear \/ ReadFails
  PROVE  TypeOK'
<1> DEFINE m == Head(stream)
           rest == Tail(stream)
<1>1. m \in Messages /\ rest \in Seq(Messages)
  BY HearSays
<1>2. stream' \in Seq(Messages)
  <2>1. \A what \in ChainReads : Append(rest, Answer(what)) \in Seq(Messages)
    BY <1>1, AnswerMade, AppendIs
  <2> QED
    BY <1>1, <2>1, HearSays DEF Follows
<1>3. Learnt(m) \/ Rejected(m)
  BY HearSays
<1>4. /\ glitches' \subseteq glitches \cup {"missed"}
      /\ asked' \subseteq asked \cup Switches
      /\ events' \in 0 .. MaxEvents
      /\ UNCHANGED <<walletVars, authorized, report, shareBalance, accessRequested,
                     loading, seen, calls, tx, serverVars>>
  BY HearSays, EventTypes DEF TypeOK
<1>5. address \in Known /\ walletChainId \in Chains /\ chainOk \in BOOLEAN
  BY DEF TypeOK
<1> HIDE DEF m, rest
<1>6. address' \in Known
  BY <1>1, <1>3, <1>5, MessageIs DEF Learnt, Rejected, Switches
<1>7. m.what \in {"chain", "chainChanged", "connectAfter", "connectChain"} => m.value \in BOOLEAN
  BY <1>1, MessageIs DEF Switches
<1>8. walletChainId' \in Chains
  BY <1>3, <1>5, <1>7 DEF Learnt, Rejected, Chains, chainVars
<1>9. chainOk' \in BOOLEAN
  <2>1. (chainOk \/ m.value) \in BOOLEAN
    OBVIOUS
  <2>2. \/ m.what \in {"chain", "chainChanged", "connectAfter"} /\ chainOk' = m.value
        \/ chainOk' \in {chainOk, FALSE}
        \/ chainOk' = (chainOk \/ m.value)
    BY <1>3 DEF Learnt, Rejected, chainVars
  <2> QED
    BY <1>5, <1>7, <2>1, <2>2
<1> QED
  BY <1>2, <1>4, <1>6, <1>8, <1>9 DEF TypeOK, walletVars, serverVars, Asks

(* A click that makes a call.                                               *)
LEMMA SendTypes ==
  ASSUME TypeOK, Connected, NEW kind \in Kinds, NEW for \in Waits, Send(kind, for),
         loading' \in BOOLEAN, Event
  PROVE  TypeOK'
<1>1. seen.address \in Accounts
  BY DEF TypeOK, Connected, Known
<1>2. calls' \in Seq(Calls)
  BY <1>1, CallMade, AppendIs DEF Send, TypeOK
<1> QED
  BY <1>2, EventTypes DEF Send, TypeOK, walletVars, chainVars, serverVars

LEMMA ClickTypes ==
  ASSUME TypeOK,
         \/ HandleConnect \/ HandleSwitchNetwork \/ HandleRequestAccess
         \/ CheckAuthorization \/ RefreshPerformance
  PROVE  TypeOK'
<1>1. CASE HandleConnect \/ HandleSwitchNetwork
  <2>1. PICK what \in Asks : Event /\ Request(what)
    BY <1>1 DEF HandleConnect, HandleSwitchNetwork, Asks, Switches
  <2> QED
    BY <2>1, EventTypes DEF Request, TypeOK, walletVars, chainVars, pageVars, serverVars
<1>2. CASE HandleRequestAccess
  BY <1>2, SendTypes DEF HandleRequestAccess, ShowsRequestForm, Kinds, Waits, TypeOK
<1>3. CASE CheckAuthorization
  BY <1>3, SendTypes DEF CheckAuthorization, ShowsRequestForm, Kinds, Waits, TypeOK
<1>4. CASE RefreshPerformance
  BY <1>4, SendTypes DEF RefreshPerformance, Kinds, Waits
<1> QED
  BY <1>1, <1>2, <1>3, <1>4

LEMMA TransactionTypes ==
  ASSUME PageTypes, HandleTransaction \/ Mined \/ TransactionFails
  PROVE  PageTypes'
<1> USE DEF walletVars, chainVars, pageVars, serverVars
<1>0. TypeOK
  BY DEF PageTypes
<1>1. CASE HandleTransaction
  <2>1. tx' \in [pc : {"idle", "sent", "refresh"}, of : Known, authorized : BOOLEAN]
    <3>1. seen.address \in Known /\ (seen.authorized = TRUE) \in BOOLEAN
      BY <1>0 DEF TypeOK
    <3> QED
      BY <1>1, <3>1 DEF HandleTransaction
  <2>2. tx'.of # Null
    BY <1>1 DEF HandleTransaction, ShowsFundForm, Connected
  <2> QED
    BY <1>0, <1>1, <2>1, <2>2, EventTypes DEF HandleTransaction, TypeOK, PageTypes
<1>2. CASE Mined
  <2>1. tx.of \in Accounts /\ tx \in [pc : {"idle", "sent", "refresh"}, of : Known, authorized : BOOLEAN]
    BY <1>2 DEF Mined, PageTypes, TypeOK, Known
  <2>2. /\ tx' \in [pc : {"idle", "sent", "refresh"}, of : Known, authorized : BOOLEAN]
        /\ tx'.pc = "refresh"
    BY <1>2, <2>1 DEF Mined
  <2>3. calls' \in Seq(Calls)
    <3>1. Call("shares", tx.of, "tx") \in Calls /\ calls \in Seq(Calls)
      BY <1>0, <2>1, CallMade DEF Kinds, Waits, TypeOK
    <3> QED
      BY <1>2, <3>1, AppendIs DEF Mined
  <2>4. glitches' \subseteq glitches \cup {"late"}
    BY <1>2 DEF Mined, Late
  <2> QED
    BY <1>0, <1>2, <2>2, <2>3, <2>4 DEF Mined, TypeOK, PageTypes
<1>3. CASE TransactionFails
  <2>1. /\ tx' \in [pc : {"idle", "sent", "refresh"}, of : Known, authorized : BOOLEAN]
        /\ tx'.pc = "idle"
    BY <1>3 DEF TransactionFails, Idle, Known
  <2> QED
    BY <1>0, <1>3, <2>1 DEF TransactionFails, TypeOK, PageTypes
<1> QED
  BY <1>1, <1>2, <1>3

LEMMA GrantTypes ==
  ASSUME TypeOK, NEW a \in Accounts, Authorize(a) \/ Revoke(a)
  PROVE  TypeOK'
BY EventTypes DEF Authorize, Revoke, TypeOK, walletVars, chainVars, pageVars

(* What is left when an answer has landed: rest, and one more call at most. *)
LEMMA LandLeaves ==
  ASSUME TypeOK, NEW i \in DOMAIN calls, NEW answer, Land(i, answer)
  PROVE  LET c == calls[i]
             rest == RemoveAt(calls, i)
         IN  /\ c \in Calls /\ i \in 1 .. Len(calls) /\ rest \in Seq(Calls)
             /\ \/ calls' = rest
                \/ /\ "late" \notin glitches' => c.of = seen.address
                   /\ \E kind \in {"shares", "performance"}, for \in Waits :
                        calls' = Append(rest, Call(kind, c.of, for))
             /\ "overtaken" \notin glitches' => ~Overtakes(i)
             /\ "failed" \notin glitches' => answer = Served(c)
             /\ glitches \subseteq glitches'
             /\ glitches' \subseteq glitches \cup {"late", "overtaken", "failed", "refused"}
             /\ tx' = tx \/ tx' = Idle
             /\ loading' \in BOOLEAN /\ accessRequested' \in BOOLEAN
             /\ \/ c.kind = "auth" /\ authorized' = [of |-> c.of, value |-> answer = "ok"]
                \/ c.kind # "auth" /\ authorized' = authorized
             /\ \/ c.kind = "shares" /\ shareBalance' = IF answer = "ok" THEN c.of ELSE shareBalance
                \/ c.kind # "shares" /\ shareBalance' = shareBalance
             /\ \/ c.kind = "performance" /\ report' = IF answer = "ok" THEN c.of ELSE Null
                \/ c.kind = "shares" /\ report' \in {Null, report}
                \/ c.kind \in {"auth", "request"} /\ report' = report
             /\ UNCHANGED <<walletVars, asked, stream, address, chainVars, seen, granted>>
<1> DEFINE c == calls[i]
           rest == RemoveAt(calls, i)
<1>1. calls \in Seq(Calls) /\ loading \in BOOLEAN /\ accessRequested \in BOOLEAN
  BY DEF TypeOK
<1>2. /\ i \in 1 .. Len(calls) /\ c \in Calls /\ rest \in Seq(Calls)
      /\ Len(calls) \in Nat \ {0} /\ Len(rest) = Len(calls) - 1
  BY <1>1, RemoveIs
<1>3. c.of \in Accounts /\ c.kind \in Kinds
  BY <1>2 DEF Calls
<1>4. \A kind \in Kinds, for \in Waits :
        Len(Append(rest, Call(kind, c.of, for))) = Len(calls)
  <2> TAKE kind \in Kinds, for \in Waits
  <2>1. Call(kind, c.of, for) \in Calls
    BY <1>3, CallMade
  <2> QED
    BY <1>2, <2>1
<1>5. /\ \/ c.kind = "auth" /\ OnAuth(c, answer, rest)
         \/ c.kind = "shares" /\ OnShares(c, answer, rest)
         \/ c.kind = "performance" /\ OnPerformance(c, answer, rest)
         \/ c.kind = "request" /\ OnRequest(c, answer, rest)
      /\ glitches' = (IF Len(calls') = Len(calls) THEN Late(c.of) ELSE glitches)
                     \cup (IF Overtakes(i) THEN {"overtaken"} ELSE {})
                     \cup (IF answer = Served(c) THEN {} ELSE {"failed"})
                     \cup (IF c.kind = "performance" /\ Served(c) = "refused" THEN {"refused"} ELSE {})
      /\ UNCHANGED <<walletVars, asked, stream, address, chainVars, seen, granted>>
  BY DEF Land
<1> HIDE DEF c, rest
<1>6. /\ "overtaken" \notin glitches' => ~Overtakes(i)
      /\ "failed" \notin glitches' => answer = Served(c)
      /\ Len(calls') = Len(calls) /\ "late" \notin glitches' => c.of = seen.address
      /\ glitches \subseteq glitches'
      /\ glitches' \subseteq glitches \cup {"late", "overtaken", "failed", "refused"}
  BY <1>5 DEF Late
<1>7. \/ calls' = rest
      \/ \E kind \in {"shares", "performance"}, for \in Waits :
           calls' = Append(rest, Call(kind, c.of, for))
  BY <1>5 DEF OnAuth, OnShares, OnPerformance, OnRequest, Waits
<1>8. \/ calls' = rest
      \/ /\ "late" \notin glitches' => c.of = seen.address
         /\ \E kind \in {"shares", "performance"}, for \in Waits :
              calls' = Append(rest, Call(kind, c.of, for))
  BY <1>4, <1>6, <1>7 DEF Kinds
<1>9. /\ tx' = tx \/ tx' = Idle
      /\ loading' \in BOOLEAN /\ accessRequested' \in BOOLEAN
  BY <1>1, <1>5 DEF OnAuth, OnShares, OnPerformance, OnRequest
<1>10. /\ \/ c.kind = "auth" /\ authorized' = [of |-> c.of, value |-> answer = "ok"]
          \/ c.kind # "auth" /\ authorized' = authorized
       /\ \/ c.kind = "shares" /\ shareBalance' = IF answer = "ok" THEN c.of ELSE shareBalance
          \/ c.kind # "shares" /\ shareBalance' = shareBalance
       /\ \/ c.kind = "performance" /\ report' = IF answer = "ok" THEN c.of ELSE Null
          \/ c.kind = "shares" /\ report' \in {Null, report}
          \/ c.kind \in {"auth", "request"} /\ report' = report
  BY <1>5 DEF OnAuth, OnShares, OnPerformance, OnRequest
<1> QED
  BY <1>2, <1>5, <1>6, <1>8, <1>9, <1>10 DEF c, rest

LEMMA LandTypes ==
  ASSUME PageTypes, NEW i \in DOMAIN calls, NEW answer, Land(i, answer),
         requests' \subseteq Accounts, events' \in 0 .. MaxEvents
  PROVE  PageTypes'
<1> DEFINE c == calls[i]
           rest == RemoveAt(calls, i)
<1>0. TypeOK
  BY DEF PageTypes
<1>1. c \in Calls /\ rest \in Seq(Calls)
  BY <1>0, LandLeaves
<1>2. c.of \in Accounts
  BY <1>1 DEF Calls
<1>3. calls' \in Seq(Calls)
  <2>1. \/ calls' = rest
        \/ \E kind \in {"shares", "performance"}, for \in Waits :
             calls' = Append(rest, Call(kind, c.of, for))
    BY <1>0, LandLeaves
  <2>2. ASSUME NEW kind \in {"shares", "performance"}, NEW for \in Waits
        PROVE  Append(rest, Call(kind, c.of, for)) \in Seq(Calls)
    <3>1. Call(kind, c.of, for) \in Calls
      BY <1>2, CallMade DEF Kinds
    <3> QED
      BY <1>1, <3>1, AppendIs
  <2> QED
    BY <1>1, <2>1, <2>2
<1>4. authorized' \in Readings \cup {Null}
  <2>1. [of |-> c.of, value |-> answer = "ok"] \in Readings
    <3>1. (answer = "ok") \in BOOLEAN
      OBVIOUS
    <3> QED
      BY <1>2, <3>1 DEF Readings
  <2>2. authorized' = [of |-> c.of, value |-> answer = "ok"] \/ authorized' = authorized
    BY <1>0, LandLeaves
  <2> QED
    BY <1>0, <2>1, <2>2 DEF TypeOK
<1>5. shareBalance' \in Known /\ report' \in Known
  <2>1. shareBalance' \in {c.of, shareBalance} /\ report' \in {c.of, Null, report}
    BY <1>0, LandLeaves
  <2> QED
    BY <1>0, <1>2, <2>1 DEF TypeOK, Known
<1>6. /\ tx' \in [pc : {"idle", "sent", "refresh"}, of : Known, authorized : BOOLEAN]
      /\ tx'.pc = "sent" => tx'.of # Null
  <2>1. tx' = tx \/ tx' = Idle
    BY <1>0, LandLeaves
  <2>2. CASE tx' = tx
    BY <1>0, <2>2 DEF TypeOK, PageTypes
  <2>3. CASE tx' = Idle
    <3>1. Idle.pc = "idle" /\ Idle \in [pc : {"idle", "sent", "refresh"}, of : Known, authorized : BOOLEAN]
      BY DEF Idle, Known
    <3> QED
      BY <2>3, <3>1
  <2> QED
    BY <2>1, <2>2, <2>3
<1>7. /\ loading' \in BOOLEAN /\ accessRequested' \in BOOLEAN
      /\ glitches' \subseteq glitches \cup {"late", "overtaken", "failed", "refused"}
      /\ UNCHANGED <<walletVars, asked, stream, address, chainVars, seen, granted>>
  BY <1>0, LandLeaves
<1>8. TypeOK'
  BY <1>0, <1>3, <1>4, <1>5, <1>6, <1>7 DEF TypeOK, walletVars, chainVars
<1> QED
  BY <1>6, <1>8 DEF PageTypes

LEMMA AnswerTypes ==
  ASSUME PageTypes, NEW i \in DOMAIN calls,
         Answered(i) \/ \E how \in {"refused", "lost"} : Fails(i, how)
  PROVE  PageTypes'
<1>1. calls[i].of \in Accounts /\ requests \subseteq Accounts
  <2>1. calls \in Seq(Calls) /\ requests \subseteq Accounts
    BY DEF PageTypes, TypeOK
  <2>2. calls[i] \in Calls
    BY <2>1
  <2> QED
    BY <2>1, <2>2 DEF Calls
<1>2. Store(calls[i]) \/ UNCHANGED requests => requests' \subseteq Accounts
  BY <1>1 DEF Store
<1>3. CASE Answered(i)
  BY <1>2, <1>3, LandTypes DEF Answered, PageTypes, TypeOK
<1>4. ASSUME NEW how \in {"refused", "lost"}, Fails(i, how) PROVE PageTypes'
  BY <1>2, <1>4, LandTypes, EventTypes DEF Fails, PageTypes
<1> QED
  BY <1>3, <1>4

LEMMA TypesStart == Init => PageTypes
<1> SUFFICES ASSUME Init PROVE PageTypes
  OBVIOUS
<1>1. Answer("restore") \in Messages
  BY PageAssumption, MessageMade DEF Init, Answer, Known
<1>2. stream \in Seq(Messages) /\ calls \in Seq(Calls)
  BY <1>1 DEF Init
<1>3. tx = Idle /\ Idle \in [pc : {"idle", "sent", "refresh"}, of : Known, authorized : BOOLEAN]
  BY DEF Init, Idle, Known
<1>4. seen \in [address : Known, authorized : BOOLEAN \cup {Null}, chainOk : BOOLEAN]
  BY DEF Init, Rendered, Authorized, Known
<1>5. /\ account \in Known /\ onTarget \in BOOLEAN /\ asked \subseteq Asks
      /\ address \in Known /\ walletChainId \in Chains /\ chainOk \in BOOLEAN
      /\ authorized \in Readings \cup {Null} /\ report \in Known /\ shareBalance \in Known
      /\ accessRequested \in BOOLEAN /\ loading \in BOOLEAN
  BY PageAssumption DEF Init, Known, Chains
<1>6. /\ requests \subseteq Accounts /\ granted \subseteq Accounts
      /\ glitches \subseteq {"missed", "overtaken", "failed", "late", "refused"}
      /\ events \in 0 .. MaxEvents
  BY PageAssumption DEF Init
<1>7. tx.pc # "sent"
  BY <1>3 DEF Idle
<1> QED
  BY <1>2, <1>3, <1>4, <1>5, <1>6, <1>7 DEF PageTypes, TypeOK

LEMMA TypesStep == PageTypes /\ [Next]_vars => PageTypes'
<1> SUFFICES ASSUME PageTypes, [Next]_vars PROVE PageTypes'
  OBVIOUS
<1>0. TypeOK
  BY DEF PageTypes
<1>1. CASE \/ \E a \in Known : SwitchAccount(a)
           \/ SwitchChain \/ WalletConnects \/ \E ask \in Switches : WalletSwitches(ask)
           \/ \E ask \in asked : WalletDeclines(ask)
  <2>1. TypeOK'
    BY <1>0, <1>1, WalletTypes
  <2>2. tx' = tx
    BY <1>1 DEF SwitchAccount, SwitchChain, WalletConnects, WalletSwitches, WalletDeclines
  <2> QED
    BY <2>1, <2>2 DEF PageTypes
<1>2. CASE Hear \/ ReadFails
  BY <1>0, <1>2, HearTypes DEF PageTypes, Hear, ReadFails
<1>3. CASE Commit
  BY <1>0, <1>3, CommitTypes DEF PageTypes, Commit
<1>4. CASE \/ HandleConnect \/ HandleSwitchNetwork \/ HandleRequestAccess
           \/ CheckAuthorization \/ RefreshPerformance
  <2>1. TypeOK'
    BY <1>0, <1>4, ClickTypes
  <2>2. tx' = tx
    BY <1>4 DEF HandleConnect, HandleSwitchNetwork, HandleRequestAccess, CheckAuthorization,
                RefreshPerformance, Request, Send
  <2> QED
    BY <2>1, <2>2 DEF PageTypes
<1>5. CASE HandleTransaction \/ Mined \/ TransactionFails
  BY <1>5, TransactionTypes
<1>6. ASSUME NEW i \in DOMAIN calls,
             Answered(i) \/ \E how \in {"refused", "lost"} : Fails(i, how)
      PROVE  PageTypes'
  BY <1>6, AnswerTypes
<1>7. ASSUME NEW a \in Accounts, Authorize(a) \/ Revoke(a) PROVE PageTypes'
  <2>1. TypeOK'
    BY <1>0, <1>7, GrantTypes
  <2>2. tx' = tx
    BY <1>7 DEF Authorize, Revoke
  <2> QED
    BY <2>1, <2>2 DEF PageTypes
<1>8. CASE UNCHANGED vars
  BY <1>8 DEF PageTypes, TypeOK, vars, walletVars, chainVars, pageVars, serverVars
<1> QED
  BY <1>1, <1>2, <1>3, <1>4, <1>5, <1>6, <1>7, <1>8 DEF Next

(* Every state of the page is of its types, and a transaction that is       *)
(* waited for is some account's.                                            *)
THEOREM PageTypeOK == Spec => []TypeOK
<1>1. PageTypes => TypeOK
  BY DEF PageTypes
<1> QED
  BY TypesStart, TypesStep, <1>1, PTL DEF Spec

-----------------------------------------------------------------------------
(* The wallet.                                                              *)

OfAccount == {m \in Messages : m.what \in {"accounts", "restore", "connect"}}
OfChain == {m \in Messages : m.what \in {"chainChanged", "chain"}}
OfConnect == {m \in Messages : m.what \in {"connectChain", "connectAfter"}}
Says(value) == {m \in Messages : m.value = value}

(* The session is restored before anything else.                            *)
RestoredFirst ==
  \A k \in DOMAIN stream : stream[k].what = "restore" => k = 1 /\ address = Null

(* The last message about the account names it, and when all of them are    *)
(* heard the page has it.                                                   *)
AccountTold ==
  /\ Newest(stream, OfAccount, Says(account))
  /\ Absent(stream, OfAccount) => address \in {Null, account} \/ "missed" \in glitches

(* The page knows the chain, or knows that it has read none.                *)
KnowsChain == walletChainId \in {onTarget, Null} /\ chainOk = (walletChainId = TRUE)

(* The same of the chain, while the page listens; and what handleConnect    *)
(* reads is right, or the page is still to be told otherwise.               *)
ChainTold ==
  /\ Newest(stream, OfChain, Says(onTarget))
  /\ Standing(stream, OfConnect, OfChain, Says(onTarget))
  /\ Connected /\ Absent(stream, OfChain) => KnowsChain

WalletInv == RestoredFirst /\ AccountTold /\ ChainTold

LEMMA KindsOf ==
  ASSUME NEW m \in Messages
  PROVE  /\ m \in OfAccount <=> m.what \in {"accounts", "restore", "connect"}
         /\ m \in OfChain <=> m.what \in {"chainChanged", "chain"}
         /\ m \in OfConnect <=> m.what \in {"connectChain", "connectAfter"}
         /\ \A value : m \in Says(value) <=> m.value = value
BY DEF OfAccount, OfChain, OfConnect, Says

LEMMA ChainMessage ==
  ASSUME NEW ok \in BOOLEAN
  PROVE  LET told == [what |-> "chainChanged", value |-> ok]
         IN  told \in Messages /\ told \in OfChain /\ told \notin OfAccount
<1> DEFINE told == [what |-> "chainChanged", value |-> ok]
<1>1. told \in Messages
  BY MessageMade
<1>2. told.what = "chainChanged"
  OBVIOUS
<1> HIDE DEF told
<1>3. told \in OfChain /\ told \notin OfAccount
  BY <1>1, <1>2, KindsOf
<1> QED
  BY <1>1, <1>3 DEF told

(* Nothing is restored again, nor is an account taken before that is done.  *)
LEMMA RestoredGrown ==
  ASSUME RestoredFirst, stream \in Seq(Messages), NEW e \in Messages, e.what # "restore",
         stream' = Append(stream, e), address' = address
  PROVE  RestoredFirst'
<1>1. /\ Len(stream) \in Nat /\ DOMAIN stream = 1 .. Len(stream)
      /\ DOMAIN stream' = 1 .. Len(stream) + 1 /\ stream'[Len(stream) + 1] = e
      /\ \A k \in 1 .. Len(stream) : stream'[k] = stream[k]
  BY AppendIs
<1>2. \A k \in 1 .. Len(stream) + 1 : k \in 1 .. Len(stream) \/ k = Len(stream) + 1
  BY <1>1
<1> QED
  BY <1>1, <1>2 DEF RestoredFirst

LEMMA RestoredTaken ==
  ASSUME TypeOK, RestoredFirst, Hear \/ ReadFails
  PROVE  /\ RestoredFirst'
         /\ Head(stream).what = "restore" => address = Null
<1> DEFINE rest == Tail(stream)
<1>1. rest \in Seq(Messages) /\ stream # <<>> /\ stream \in Seq(Messages) /\ Follows(rest)
  BY HearSays DEF TypeOK
<1>2. /\ Head(stream) = stream[1] /\ Len(stream) \in Nat \ {0} /\ DOMAIN stream = 1 .. Len(stream)
      /\ DOMAIN rest = 1 .. Len(stream) - 1
      /\ \A k \in 1 .. Len(stream) - 1 : rest[k] = stream[k + 1]
  BY <1>1, TailIs
<1>3. 1 \in 1 .. Len(stream) /\ \A k \in 1 .. Len(stream) - 1 : k + 1 \in 1 .. Len(stream) /\ k + 1 # 1
  BY <1>2
<1>4. \A k \in DOMAIN rest : rest[k].what # "restore"
  BY <1>2, <1>3 DEF RestoredFirst
<1>5. Head(stream).what = "restore" => address = Null
  BY <1>2, <1>3 DEF RestoredFirst
<1> HIDE DEF rest
<1>6. ASSUME NEW what \in ChainReads, stream' = Append(rest, Answer(what))
      PROVE  \A k \in DOMAIN stream' : stream'[k].what # "restore"
  <2>1. Answer(what) \in Messages /\ Answer(what).what # "restore"
    BY AnswerMade DEF Answer, ChainReads
  <2>2. /\ Len(rest) \in Nat /\ DOMAIN rest = 1 .. Len(rest)
        /\ DOMAIN stream' = 1 .. Len(rest) + 1 /\ stream'[Len(rest) + 1] = Answer(what)
        /\ \A k \in 1 .. Len(rest) : stream'[k] = rest[k]
    BY <1>1, <1>6, <2>1, AppendIs
  <2>3. \A k \in 1 .. Len(rest) + 1 : k \in 1 .. Len(rest) \/ k = Len(rest) + 1
    BY <2>2
  <2> QED
    BY <1>4, <2>1, <2>2, <2>3
<1>7. \A k \in DOMAIN stream' : stream'[k].what # "restore"
  BY <1>1, <1>4, <1>6 DEF Follows
<1> QED
  BY <1>5, <1>7 DEF RestoredFirst

(* The wallet sends a message that is not about the account.                *)
LEMMA AccountStillTold ==
  ASSUME NEW q \in Seq(Messages), NEW e \in Messages, e \notin OfAccount,
         NEW a, NEW known,
         Newest(q, OfAccount, Says(a)),
         Absent(q, OfAccount) => known
  PROVE  /\ Newest(Append(q, e), OfAccount, Says(a))
         /\ Absent(Append(q, e), OfAccount) => known
<1>1. Newest(Append(q, e), OfAccount, Says(a))
  BY StandingGrown DEF Newest
<1>2. Absent(Append(q, e), OfAccount) => Absent(q, OfAccount)
  BY AbsentGrown
<1> QED
  BY <1>1, <1>2

(* It sends one that is: the account it is on now.                          *)
LEMMA AccountNewlyTold ==
  ASSUME NEW q \in Seq(Messages), NEW e \in Messages, e \in OfAccount,
         NEW a, e.value = a, NEW known
  PROVE  /\ Newest(Append(q, e), OfAccount, Says(a))
         /\ Absent(Append(q, e), OfAccount) => known
<1>1. e \in Says(a)
  BY KindsOf
<1>2. Newest(Append(q, e), OfAccount, Says(a))
  BY <1>1, StandingGrown DEF Newest
<1>3. ~Absent(Append(q, e), OfAccount)
  BY AbsentGrown
<1> QED
  BY <1>2, <1>3

(* A message that is not about the chain, or says what it is.               *)
LEMMA ChainStillTold ==
  ASSUME NEW q \in Seq(Messages), NEW e \in Messages, NEW ok, NEW known,
         e \in OfChain \cup OfConnect => e.value = ok,
         \/ e \in OfChain
         \/ /\ Newest(q, OfChain, Says(ok))
            /\ Standing(q, OfConnect, OfChain, Says(ok))
            /\ Absent(q, OfChain) => known
  PROVE  /\ Newest(Append(q, e), OfChain, Says(ok))
         /\ Standing(Append(q, e), OfConnect, OfChain, Says(ok))
         /\ Absent(Append(q, e), OfChain) => known
<1>1. (e \in OfChain => e \in Says(ok)) /\ (e \in OfConnect => e \in Says(ok))
  BY KindsOf
<1>2. Newest(Append(q, e), OfChain, Says(ok))
  BY <1>1, StandingGrown DEF Newest
<1>3. Standing(Append(q, e), OfConnect, OfChain, Says(ok))
  BY <1>1, StandingGrown
<1>4. Absent(Append(q, e), OfChain) => Absent(q, OfChain) /\ e \notin OfChain
  BY AbsentGrown
<1> QED
  BY <1>2, <1>3, <1>4

LEMMA WalletStarts == Init => WalletInv
<1> SUFFICES ASSUME Init PROVE WalletInv
  OBVIOUS
<1> DEFINE e == Answer("restore")
<1>1. stream = <<e>> /\ e.what = "restore" /\ e.value = account /\ address = Null
  BY DEF Init, Answer
<1>2. e \in Messages
  BY PageAssumption, MessageMade DEF Init, Answer, Known
<1> HIDE DEF e
<1>3. DOMAIN stream = {1} /\ stream[1] = e
  BY <1>1
<1>4. RestoredFirst
  BY <1>1, <1>3 DEF RestoredFirst
<1>5. AccountTold
  <2>1. e \in OfAccount /\ e \in Says(account)
    BY <1>1, <1>2, KindsOf
  <2> QED
    BY <1>1, <1>3, <2>1 DEF AccountTold, Newest, Standing, Absent
<1>6. ChainTold
  <2>1. e \notin OfChain /\ e \notin OfConnect /\ ~Connected
    BY <1>1, <1>2, KindsOf DEF Init, Rendered, Connected
  <2> QED
    BY <1>3, <2>1 DEF ChainTold, Newest, Standing
<1> QED
  BY <1>4, <1>5, <1>6 DEF WalletInv

(* Nothing happens between the wallet and the page.                         *)
LEMMA WalletStays ==
  ASSUME WalletInv, UNCHANGED <<account, onTarget, stream, address, chainVars, seen>>,
         glitches \subseteq glitches'
  PROVE  WalletInv'
<1>1. RestoredFirst' /\ AccountTold'
  BY DEF WalletInv, RestoredFirst, AccountTold
<1>2. ChainTold'
  BY DEF WalletInv, ChainTold, KnowsChain, Connected, chainVars
<1> QED
  BY <1>1, <1>2 DEF WalletInv

(* The wallet sends a message e, and the page is as before.                 *)
LEMMA WalletSends ==
  ASSUME TypeOK, WalletInv, NEW e \in Messages, e.what # "restore",
         stream' = Append(stream, e),
         UNCHANGED <<address, chainVars, seen, glitches>>,
         \/ e \in OfAccount /\ e.value = account'
         \/ e \notin OfAccount /\ account' = account,
         \/ e \in OfChain /\ e.value = onTarget'
         \/ /\ e \notin OfChain /\ onTarget' = onTarget
            /\ e \in OfConnect => e.value = onTarget
  PROVE  WalletInv'
<1>1. stream \in Seq(Messages)
  BY DEF TypeOK
<1>2. RestoredFirst'
  BY <1>1, RestoredGrown DEF WalletInv
<1>3. AccountTold'
  BY <1>1, AccountNewlyTold, AccountStillTold DEF WalletInv, AccountTold
<1>4. ChainTold'
  <2>1. CASE e \in OfChain
    BY <1>1, <2>1, ChainStillTold, KindsOf DEF ChainTold
  <2>2. CASE e \notin OfChain
    <3> DEFINE known == Connected => KnowsChain
    <3>1. known => known'
      BY <2>2 DEF KnowsChain, Connected, chainVars
    <3>2. /\ Newest(stream', OfChain, Says(onTarget))
          /\ Standing(stream', OfConnect, OfChain, Says(onTarget))
          /\ Absent(stream', OfChain) => known
      <4>1. /\ Newest(stream, OfChain, Says(onTarget))
            /\ Standing(stream, OfConnect, OfChain, Says(onTarget))
            /\ Absent(stream, OfChain) => known
        BY DEF WalletInv, ChainTold
      <4>2. e \in OfChain \cup OfConnect => e.value = onTarget
        BY <2>2
      <4> HIDE DEF known
      <4> QED
        BY <1>1, <4>1, <4>2, ChainStillTold
    <3> QED
      BY <2>2, <3>1, <3>2 DEF ChainTold
  <2> QED
    BY <2>1, <2>2
<1> QED
  BY <1>2, <1>3, <1>4 DEF WalletInv

LEMMA WalletSwitchesAccount ==
  ASSUME TypeOK, WalletInv, NEW a \in Known, SwitchAccount(a)
  PROVE  WalletInv'
<1> DEFINE e == [what |-> "accounts", value |-> a]
<1>1. e \in Messages /\ e \in OfAccount /\ e.what = "accounts" /\ e.value = a
  BY MessageMade, KindsOf
<1>2. /\ stream' = Append(stream, e) /\ account' = a /\ onTarget' = onTarget
      /\ UNCHANGED <<address, chainVars, seen, glitches>>
  BY DEF SwitchAccount, Tell, pageVars
<1> HIDE DEF e
<1>3. e \notin OfChain /\ e \notin OfConnect
  BY <1>1, KindsOf
<1> QED
  BY <1>1, <1>2, <1>3, WalletSends

LEMMA WalletConnected ==
  ASSUME TypeOK, WalletInv, WalletConnects
  PROVE  WalletInv'
<1> DEFINE e == [what |-> "connect", value |-> account]
<1>1. e \in Messages /\ e \in OfAccount /\ e.what = "connect" /\ e.value = account
  BY MessageMade, KindsOf DEF TypeOK
<1>2. /\ stream' = Append(stream, e) /\ account' = account /\ onTarget' = onTarget
      /\ UNCHANGED <<address, chainVars, seen, glitches>>
  BY DEF WalletConnects, Tell, pageVars, walletVars
<1> HIDE DEF e
<1>3. e \notin OfChain /\ e \notin OfConnect
  BY <1>1, KindsOf
<1> QED
  BY <1>1, <1>2, <1>3, WalletSends

LEMMA WalletSwitchesChain ==
  ASSUME TypeOK, WalletInv, SwitchChain
  PROVE  WalletInv'
<1> DEFINE e == [what |-> "chainChanged", value |-> ~onTarget]
<1>0. (~onTarget) \in BOOLEAN
  OBVIOUS
<1>1. e \in Messages /\ e \in OfChain /\ e \notin OfAccount
  BY <1>0, ChainMessage
<1>2. /\ stream' = Append(stream, e) /\ account' = account /\ e.value = onTarget'
      /\ UNCHANGED <<address, chainVars, seen, glitches>> /\ e.what # "restore"
  BY DEF SwitchChain, Tell, pageVars
<1> HIDE DEF e
<1> QED
  BY <1>1, <1>2, WalletSends

(* Of the two messages of a switch the first says what the chain is then.   *)
LEMMA WalletSwitched ==
  ASSUME TypeOK, WalletInv, NEW ask \in Switches, WalletSwitches(ask)
  PROVE  WalletInv'
<1> DEFINE done == [what |-> ask, value |-> TRUE]
           told == [what |-> "chainChanged", value |-> TRUE]
           told1 == Append(stream, told)
<1>1. /\ done \in Messages /\ done.what \in Switches
      /\ told \in Messages /\ told.what = "chainChanged" /\ told.value = TRUE
      /\ told \in OfChain /\ told \notin OfAccount
      /\ stream \in Seq(Messages)
  <2>1. done \in Messages /\ done.what \in Switches
    BY MessageMade
  <2>2. told \in Messages /\ told \in OfChain /\ told \notin OfAccount
    BY ChainMessage
  <2>3. told.what = "chainChanged" /\ told.value = TRUE
    OBVIOUS
  <2>4. stream \in Seq(Messages)
    BY DEF TypeOK
  <2> HIDE DEF done, told
  <2> QED
    BY <2>1, <2>2, <2>3, <2>4
<1>2. UNCHANGED <<account, address, chainVars, seen, glitches>>
  BY DEF WalletSwitches, pageVars
<1>3. \/ onTarget' = onTarget /\ stream' = Append(stream, done)
      \/ onTarget' = TRUE /\ stream' = Append(told1, done)
  BY SwitchesSends
<1> HIDE DEF done, told
<1>4. /\ done.what # "restore" /\ done \notin OfAccount /\ done \notin OfChain
      /\ done \notin OfConnect
  BY <1>1, KindsOf DEF Switches
<1>5. CASE onTarget' = onTarget /\ stream' = Append(stream, done)
  BY <1>1, <1>2, <1>4, <1>5, WalletSends
<1>6. CASE onTarget' = TRUE /\ stream' = Append(told1, done)
  <2>1. told1 \in Seq(Messages)
    BY <1>1, AppendIs
  <2>2. RestoredFirst'
    <3>1. /\ Len(stream) \in Nat /\ DOMAIN stream = 1 .. Len(stream)
          /\ Len(told1) = Len(stream) + 1 /\ told1[Len(stream) + 1] = told
          /\ \A k \in 1 .. Len(stream) : told1[k] = stream[k]
      BY <1>1, AppendIs
    <3>2. /\ DOMAIN stream' = 1 .. Len(told1) + 1 /\ stream'[Len(told1) + 1] = done
          /\ \A k \in 1 .. Len(told1) : stream'[k] = told1[k]
      BY <1>1, <1>6, <2>1, AppendIs
    <3> HIDE DEF told1
    <3>3. ASSUME NEW k \in DOMAIN stream', stream'[k].what = "restore"
          PROVE  k = 1 /\ address' = Null
      <4>1. \/ k \in 1 .. Len(stream) /\ stream'[k] = stream[k]
            \/ stream'[k] = told \/ stream'[k] = done
        BY <3>1, <3>2
      <4>2. k \in 1 .. Len(stream) /\ stream[k].what = "restore"
        BY <1>1, <1>4, <3>3, <4>1
      <4> QED
        BY <1>2, <3>1, <4>2 DEF WalletInv, RestoredFirst
    <3> QED
      BY <3>3 DEF RestoredFirst
  <2>3. /\ Newest(told1, OfAccount, Says(account))
        /\ Absent(told1, OfAccount) => address \in {Null, account} \/ "missed" \in glitches
    BY <1>1, AccountStillTold DEF WalletInv, AccountTold
  <2>4. /\ Newest(told1, OfChain, Says(TRUE))
        /\ Standing(told1, OfConnect, OfChain, Says(TRUE))
        /\ Absent(told1, OfChain) => FALSE
    BY <1>1, ChainStillTold
  <2> HIDE DEF told1
  <2>5. AccountTold'
    BY <1>1, <1>2, <1>4, <1>6, <2>1, <2>3, AccountStillTold DEF AccountTold
  <2>6. ChainTold'
    BY <1>1, <1>4, <1>6, <2>1, <2>4, ChainStillTold DEF ChainTold
  <2> QED
    BY <2>2, <2>5, <2>6 DEF WalletInv
<1> QED
  BY <1>3, <1>5, <1>6

(* A message is taken: what follows it tells as much, and when nothing does *)
(* the page has heard it.                                                   *)
LEMMA WalletHeard ==
  ASSUME TypeOK, WalletInv, Hear \/ ReadFails
  PROVE  WalletInv'
<1> DEFINE m == Head(stream)
           rest == Tail(stream)
           Has == address' \in {Null, account} \/ "missed" \in glitches'
           Right == Connected => KnowsChain'
<1>1. /\ m \in Messages /\ rest \in Seq(Messages) /\ stream # <<>> /\ stream \in Seq(Messages)
      /\ onTarget \in BOOLEAN /\ chainOk \in BOOLEAN /\ Follows(rest)
      /\ Learnt(m) \/ Rejected(m)
  BY HearSays DEF TypeOK
<1>2. RestoredFirst' /\ (m.what = "restore" => address = Null)
  BY RestoredTaken DEF WalletInv
<1>3. /\ Newest(rest, OfAccount, Says(account))
      /\ Absent(rest, OfAccount) /\ m \in OfAccount => m \in Says(account)
      /\ Absent(rest, OfAccount) /\ m \notin OfAccount => Absent(stream, OfAccount)
  BY <1>1, StandingTaken DEF Newest, WalletInv, AccountTold
<1>4. /\ Newest(rest, OfChain, Says(onTarget))
      /\ Absent(rest, OfChain) /\ m \in OfChain => m \in Says(onTarget)
      /\ Absent(rest, OfChain) /\ m \notin OfChain => Absent(stream, OfChain)
  BY <1>1, StandingTaken DEF Newest, WalletInv, ChainTold
<1>5. /\ Standing(rest, OfConnect, OfChain, Says(onTarget))
      /\ Absent(rest, OfChain) /\ m \in OfConnect => m \in Says(onTarget)
  BY <1>1, StandingTaken DEF WalletInv, ChainTold
<1>6. glitches \subseteq glitches' /\ UNCHANGED <<account, onTarget, seen>>
  BY HearSays DEF walletVars
<1> HIDE DEF m, rest
<1>7. Absent(rest, OfAccount) => Has
  <2> SUFFICES ASSUME Absent(rest, OfAccount) PROVE Has
    OBVIOUS
  <2>1. CASE m \in OfAccount /\ Learnt(m)
    <3>1. m.value = account /\ m.what \in {"accounts", "restore", "connect"}
      BY <1>1, <1>3, <2>1, KindsOf
    <3> QED
      BY <1>2, <2>1, <3>1 DEF Learnt
  <2>2. CASE m \in OfAccount /\ Rejected(m)
    <3>1. m.what = "restore"
      BY <1>1, <2>2, KindsOf DEF Rejected, Reads
    <3> QED
      BY <1>2, <2>2, <3>1 DEF Rejected
  <2>3. CASE m \notin OfAccount
    <3>1. m.what \notin {"accounts", "restore", "connect"}
      BY <1>1, <2>3, KindsOf
    <3>2. address \in {Null, account} \/ "missed" \in glitches
      BY <1>3, <2>3 DEF WalletInv, AccountTold
    <3>3. address' = address
      BY <1>1, <3>1 DEF Learnt, Rejected
    <3> QED
      BY <1>6, <3>2, <3>3
  <2> QED
    BY <1>1, <2>1, <2>2, <2>3
<1>8. Absent(rest, OfChain) => Right
  <2> SUFFICES ASSUME Absent(rest, OfChain), Connected PROVE KnowsChain'
    OBVIOUS
  <2>1. m \in OfChain \cup OfConnect => m.value = onTarget
    BY <1>1, <1>4, <1>5, KindsOf
  <2>2. m \notin OfChain => KnowsChain
    BY <1>4 DEF WalletInv, ChainTold
  <2>3. CASE m \in OfChain
    <3>1. \/ walletChainId' = onTarget /\ chainOk' = onTarget
          \/ walletChainId' = Null /\ chainOk' = FALSE
      BY <1>1, <2>1, <2>3, KindsOf DEF Learnt, Rejected, Reads
    <3> QED
      BY <1>1, <1>6, <3>1, PageAssumption DEF KnowsChain
  <2>4. CASE m \notin OfChain
    <3>1. \/ UNCHANGED chainVars
          \/ walletChainId' = onTarget /\ chainOk' \in {onTarget, chainOk \/ onTarget}
      <4>1. /\ m.what \notin {"chain", "chainChanged"}
            /\ m.what \in {"connectChain", "connectAfter"} => m.value = onTarget
        BY <1>1, <2>1, <2>4, KindsOf
      <4> QED
        BY <1>1, <4>1 DEF Learnt, Rejected
    <3>2. CASE UNCHANGED chainVars
      BY <1>6, <2>2, <2>4, <3>2 DEF KnowsChain, chainVars
    <3>3. CASE walletChainId' = onTarget /\ chainOk' \in {onTarget, chainOk \/ onTarget}
      <4>1. chainOk => onTarget
        BY <1>1, <2>2, <2>4, PageAssumption DEF KnowsChain
      <4>2. chainOk' = onTarget
        BY <1>1, <3>3, <4>1
      <4> QED
        BY <1>1, <1>6, <3>3, <4>2 DEF KnowsChain
    <3> QED
      BY <3>1, <3>2, <3>3
  <2> QED
    BY <2>3, <2>4
<1>9. CASE stream' = rest
  <2>1. AccountTold'
    BY <1>3, <1>6, <1>7, <1>9 DEF AccountTold
  <2>2. Connected' => Connected
    BY <1>6 DEF Connected
  <2>3. ChainTold'
    BY <1>4, <1>5, <1>6, <1>8, <1>9, <2>2 DEF ChainTold
  <2> QED
    BY <1>2, <2>1, <2>3 DEF WalletInv
<1>10. ASSUME NEW what \in ChainReads, stream' = Append(rest, Answer(what))
       PROVE  WalletInv'
  <2> DEFINE e == Answer(what)
  <2>1. /\ e \in Messages /\ e \notin OfAccount /\ e.value = onTarget
    <3>1. e \in Messages
      BY AnswerMade
    <3>2. e.what = what /\ e.value = onTarget
      BY DEF Answer, ChainReads
    <3> HIDE DEF e
    <3> QED
      BY <3>1, <3>2, KindsOf DEF ChainReads
  <2>2. stream' = Append(rest, e)
    BY <1>10
  <2> HIDE DEF e
  <2>3. AccountTold'
    <3>1. /\ Newest(Append(rest, e), OfAccount, Says(account))
          /\ Absent(Append(rest, e), OfAccount) => Has
      <4> HIDE DEF Has
      <4> QED
        BY <1>1, <1>3, <1>7, <2>1, AccountStillTold
    <3> QED
      BY <1>6, <2>2, <3>1 DEF AccountTold
  <2>4. ChainTold'
    <3>1. /\ Newest(Append(rest, e), OfChain, Says(onTarget))
          /\ Standing(Append(rest, e), OfConnect, OfChain, Says(onTarget))
          /\ Absent(Append(rest, e), OfChain) => Right
      <4> HIDE DEF Right
      <4> QED
        BY <1>1, <1>4, <1>5, <1>8, <2>1, ChainStillTold
    <3>2. Connected' => Connected
      BY <1>6 DEF Connected
    <3> QED
      BY <1>6, <2>2, <3>1, <3>2 DEF ChainTold
  <2> QED
    BY <1>2, <2>3, <2>4 DEF WalletInv
<1> QED
  BY <1>1, <1>9, <1>10 DEF Follows

(* A render of another account asks for the chain, and listens from then on.*)
LEMMA WalletRendered ==
  ASSUME TypeOK, WalletInv, Commit
  PROVE  WalletInv'
<1> DEFINE e == Answer("chain")
<1>1. /\ e \in Messages /\ e \in OfChain /\ e \notin OfAccount /\ e.value = onTarget
      /\ e.what # "restore" /\ stream \in Seq(Messages)
  <2>1. e \in Messages
    BY AnswerMade DEF ChainReads
  <2>2. e.what = "chain" /\ e.value = onTarget
    BY DEF Answer
  <2> HIDE DEF e
  <2> QED
    BY <2>1, <2>2, KindsOf DEF TypeOK
<1>2. /\ UNCHANGED <<account, onTarget, address, chainVars, glitches>>
      /\ seen'.address = address
  BY DEF Commit, walletVars, Rendered
<1>3. stream' = IF LooksUp THEN Append(stream, e) ELSE stream
  BY CommitSends
<1> HIDE DEF e
<1>4. CASE LooksUp
  <2>1. RestoredFirst'
    BY <1>1, <1>2, <1>3, <1>4, RestoredGrown DEF WalletInv
  <2>2. AccountTold'
    BY <1>1, <1>2, <1>3, <1>4, AccountStillTold DEF WalletInv, AccountTold
  <2>3. ChainTold'
    BY <1>1, <1>2, <1>3, <1>4, ChainStillTold DEF ChainTold
  <2> QED
    BY <2>1, <2>2, <2>3 DEF WalletInv
<1>5. CASE ~LooksUp
  <2>1. Connected' => Connected
    BY <1>2, <1>5 DEF Connected, LooksUp
  <2>2. RestoredFirst' /\ AccountTold'
    BY <1>2, <1>3, <1>5 DEF WalletInv, RestoredFirst, AccountTold
  <2>3. ChainTold'
    BY <1>2, <1>3, <1>5, <2>1 DEF WalletInv, ChainTold, KnowsChain, chainVars
  <2> QED
    BY <2>2, <2>3 DEF WalletInv
<1> QED
  BY <1>4, <1>5

LEMMA WalletStep == PageTypes /\ WalletInv /\ [Next]_vars => WalletInv'
<1> SUFFICES ASSUME PageTypes, WalletInv, [Next]_vars PROVE WalletInv'
  OBVIOUS
<1>0. TypeOK
  BY DEF PageTypes
<1>1. CASE \/ \E a \in Known : SwitchAccount(a)
           \/ SwitchChain \/ WalletConnects \/ \E ask \in Switches : WalletSwitches(ask)
  BY <1>0, <1>1, WalletSwitchesAccount, WalletSwitchesChain, WalletConnected, WalletSwitched
<1>2. CASE Hear \/ ReadFails
  BY <1>0, <1>2, WalletHeard
<1>3. CASE Commit
  BY <1>0, <1>3, WalletRendered
<1>4. CASE \/ \E ask \in asked : WalletDeclines(ask)
           \/ HandleConnect \/ HandleSwitchNetwork \/ HandleRequestAccess
           \/ CheckAuthorization \/ RefreshPerformance
           \/ HandleTransaction \/ TransactionFails
           \/ \E a \in Accounts : Authorize(a) \/ Revoke(a)
           \/ UNCHANGED vars
  <2>1. UNCHANGED <<account, onTarget, stream, address, chainVars, seen, glitches>>
    BY <1>4 DEF WalletDeclines, HandleConnect, HandleSwitchNetwork, HandleRequestAccess,
                CheckAuthorization, RefreshPerformance, Request, Send, HandleTransaction,
                TransactionFails, Authorize, Revoke, vars, walletVars, pageVars
  <2> QED
    BY <2>1, WalletStays
<1>5. CASE Mined
  <2>1. UNCHANGED <<account, onTarget, stream, address, chainVars, seen>>
        /\ glitches \subseteq glitches'
    BY <1>5 DEF Mined, Late, walletVars, pageVars
  <2> QED
    BY <2>1, WalletStays
<1>6. ASSUME NEW i \in DOMAIN calls,
             Answered(i) \/ \E how \in {"refused", "lost"} : Fails(i, how)
      PROVE  WalletInv'
  <2>1. PICK answer : Land(i, answer)
    BY <1>6 DEF Answered, Fails
  <2>2. UNCHANGED <<account, onTarget, stream, address, chainVars, seen>>
        /\ glitches \subseteq glitches'
    BY <1>0, <2>1, LandLeaves DEF walletVars
  <2> QED
    BY <2>2, WalletStays
<1> QED
  BY <1>1, <1>2, <1>3, <1>4, <1>5, <1>6 DEF Next

(* However the wallet is switched while BetaApp.tsx connects, restores its  *)
(* session, reads the chain or asks for another, and whichever of its       *)
(* readings are rejected: once all messages are in, a page that shows an    *)
(* account shows the wallet's, but for an account event before the first    *)
(* render, and the chain it has read, if it has, is the one the wallet is   *)
(* on.                                                                      *)
THEOREM PageMirrorsWallet == Spec => []MirrorsWallet
<1>1. WalletInv => MirrorsWallet
  <2> SUFFICES ASSUME WalletInv, WalletQuiet, address # Null
               PROVE  KnowsChain /\ (address = account \/ "missed" \in glitches)
    BY DEF MirrorsWallet, KnowsChain
  <2>1. Absent(stream, OfAccount) /\ Absent(stream, OfChain)
    BY DEF WalletQuiet, Absent
  <2>2. Connected
    BY DEF WalletQuiet, Rendered, Connected
  <2> QED
    BY <2>1, <2>2 DEF WalletInv, AccountTold, ChainTold
<1> QED
  BY TypesStart, TypesStep, WalletStarts, WalletStep, <1>1, PTL DEF Spec

-----------------------------------------------------------------------------
(* What is shown of the account.                                            *)

OfKind(kind) == {c \in Calls : c.kind = kind}
About(a) == {c \in Calls : c.of = a}

(* No answer came late, was overtaken or was lost so far.                   *)
Smooth == glitches \subseteq {"missed", "refused"}

(* The last call of each kind is about the account rendered, and when all   *)
(* are answered what they set is about it.                                  *)
AuthOwn ==
  /\ Newest(calls, OfKind("auth"), About(seen.address))
  /\ Absent(calls, OfKind("auth")) => authorized # Null /\ authorized.of = seen.address

SharesOwn ==
  /\ Newest(calls, OfKind("shares"), About(seen.address))
  /\ Absent(calls, OfKind("shares")) => shareBalance = seen.address

ReportOwn ==
  /\ Newest(calls, OfKind("performance"), About(seen.address))
  /\ Absent(calls, OfKind("performance")) => report \in {Null, seen.address}

(* The report of the account before may still be there while its own is not *)
(* to be shown.                                                             *)
OwnInv ==
  Smooth /\ Connected =>
    /\ AuthOwn /\ SharesOwn
    /\ seen.authorized = TRUE /\ seen.chainOk => ReportOwn

LEMMA OwnGrown ==
  ASSUME NEW q \in Seq(Calls), NEW c \in Calls, NEW kind, NEW a, NEW known,
         c.kind = kind => c.of = a,
         \/ c.kind = kind
         \/ /\ Newest(q, OfKind(kind), About(a))
            /\ Absent(q, OfKind(kind)) => known
  PROVE  /\ Newest(Append(q, c), OfKind(kind), About(a))
         /\ Absent(Append(q, c), OfKind(kind)) => known
<1>1. (c \in OfKind(kind) <=> c.kind = kind) /\ (c \in About(a) <=> c.of = a)
  BY DEF OfKind, About
<1>2. Newest(Append(q, c), OfKind(kind), About(a))
  BY <1>1, StandingGrown DEF Newest
<1>3. Absent(Append(q, c), OfKind(kind)) => Absent(q, OfKind(kind)) /\ c.kind # kind
  BY <1>1, AbsentGrown
<1> QED
  BY <1>2, <1>3

LEMMA OwnLanded ==
  ASSUME NEW q \in Seq(Calls), NEW i \in 1 .. Len(q), NEW kind, NEW a, NEW known, NEW then,
         Newest(q, OfKind(kind), About(a)),
         Absent(q, OfKind(kind)) => known,
         \A j \in 1 .. i - 1 : q[j].kind = q[i].kind => q[j].of = q[i].of,
         q[i].kind = kind /\ q[i].of = a => then,
         q[i].kind # kind /\ known => then
  PROVE  /\ Newest(RemoveAt(q, i), OfKind(kind), About(a))
         /\ Absent(RemoveAt(q, i), OfKind(kind)) => then
<1>1. \A j \in 1 .. Len(q) : /\ q[j] \in OfKind(kind) <=> q[j].kind = kind
                             /\ q[j] \in About(a) <=> q[j].of = a
  <2>1. \A j \in 1 .. Len(q) : q[j] \in Calls
    OBVIOUS
  <2> QED
    BY <2>1 DEF OfKind, About
<1>2. \A j \in 1 .. i - 1 : j \in 1 .. Len(q)
  OBVIOUS
<1>3. q[i] \in OfKind(kind) /\ q[i] \in About(a) =>
        \A j \in 1 .. i - 1 : q[j] \in OfKind(kind) => q[j] \in About(a)
  BY <1>1, <1>2
<1>4. /\ Newest(RemoveAt(q, i), OfKind(kind), About(a))
      /\ Absent(RemoveAt(q, i), OfKind(kind)) /\ q[i] \in OfKind(kind) => q[i] \in About(a)
      /\ Absent(RemoveAt(q, i), OfKind(kind)) /\ q[i] \notin OfKind(kind)
           => Absent(q, OfKind(kind))
  BY <1>3, NewestRemoved
<1> QED
  BY <1>1, <1>4

LEMMA OwnStays ==
  ASSUME OwnInv, UNCHANGED <<seen, calls, authorized, report, shareBalance>>,
         glitches \subseteq glitches'
  PROVE  OwnInv'
<1>1. Smooth' => Smooth
  BY DEF Smooth
<1>2. (Connected' => Connected) /\ (AuthOwn => AuthOwn')
      /\ (SharesOwn => SharesOwn') /\ (ReportOwn => ReportOwn')
  BY DEF Connected, AuthOwn, SharesOwn, ReportOwn
<1>3. seen' = seen
  OBVIOUS
<1> QED
  BY <1>1, <1>2, <1>3 DEF OwnInv

(* A call about the account rendered.                                       *)
LEMMA OwnSent ==
  ASSUME TypeOK, OwnInv, NEW kind \in Kinds, NEW for \in Waits,
         UNCHANGED <<seen, authorized, report, shareBalance>>,
         glitches \subseteq glitches',
         Smooth' => calls' = Append(calls, Call(kind, seen.address, for))
  PROVE  OwnInv'
<1> SUFFICES ASSUME Smooth', Connected'
             PROVE  /\ AuthOwn' /\ SharesOwn'
                    /\ seen'.authorized = TRUE /\ seen'.chainOk => ReportOwn'
  BY DEF OwnInv
<1> DEFINE c == Call(kind, seen.address, for)
<1>1. Smooth /\ Connected
  BY DEF Smooth, Connected
<1>2. /\ seen.address \in Accounts /\ calls \in Seq(Calls)
      /\ c.kind = kind /\ c.of = seen.address
  BY <1>1 DEF TypeOK, Connected, Known, Call
<1>3. c \in Calls /\ calls' = Append(calls, c)
  BY <1>2, CallMade
<1> HIDE DEF c
<1>4. AuthOwn'
  BY <1>1, <1>2, <1>3, OwnGrown DEF OwnInv, AuthOwn
<1>5. SharesOwn'
  BY <1>1, <1>2, <1>3, OwnGrown DEF OwnInv, SharesOwn
<1>6. ASSUME seen'.authorized = TRUE, seen'.chainOk PROVE ReportOwn'
  BY <1>1, <1>2, <1>3, <1>6, OwnGrown DEF OwnInv, ReportOwn
<1> QED
  BY <1>4, <1>5, <1>6

LEMMA OwnRendered ==
  ASSUME TypeOK, OwnInv, Commit
  PROVE  OwnInv'
<1> SUFFICES ASSUME Smooth', Connected'
             PROVE  /\ AuthOwn' /\ SharesOwn'
                    /\ seen'.authorized = TRUE /\ seen'.chainOk => ReportOwn'
  BY DEF OwnInv
<1> DEFINE auth == Call("auth", address, "nobody")
           shares == Call("shares", address, "nobody")
           load == Call("performance", address, "load")
           known1 == authorized # Null /\ authorized.of = address
           known2 == shareBalance = address
<1>1. /\ UNCHANGED <<authorized, shareBalance, report, glitches, address>>
      /\ seen'.address = address /\ seen'.authorized = Authorized /\ seen'.chainOk = chainOk
  BY DEF Commit, Rendered
<1>2. Smooth /\ address \in Accounts /\ calls \in Seq(Calls)
  BY <1>1 DEF Smooth, Connected, TypeOK, Known
<1>3. /\ auth \in Calls /\ auth.kind = "auth" /\ auth.of = address
      /\ shares \in Calls /\ shares.kind = "shares" /\ shares.of = address
      /\ load \in Calls /\ load.kind = "performance" /\ load.of = address
  <2>1. auth \in Calls /\ shares \in Calls /\ load \in Calls
    BY <1>2, CallMade DEF Kinds, Waits
  <2> QED
    BY <2>1 DEF Call
<1>4. /\ LookedUp \in Seq(Calls)
      /\ LookedUp = IF LooksUp THEN Append(Append(calls, auth), shares) ELSE calls
      /\ calls' = IF LoadsNow THEN Append(LookedUp, load) ELSE LookedUp
  BY CommitSends DEF LookedUp
<1> HIDE DEF auth, shares, load
<1>5. /\ Newest(LookedUp, OfKind("auth"), About(address))
      /\ Absent(LookedUp, OfKind("auth")) => known1
      /\ Newest(LookedUp, OfKind("shares"), About(address))
      /\ Absent(LookedUp, OfKind("shares")) => known2
  <2>1. CASE LooksUp
    <3>1. Append(calls, auth) \in Seq(Calls)
      BY <1>2, <1>3, AppendIs
    <3>2. /\ Newest(Append(calls, auth), OfKind("auth"), About(address))
          /\ Absent(Append(calls, auth), OfKind("auth")) => known1
      <4> HIDE DEF known1
      <4> QED
        BY <1>2, <1>3, OwnGrown
    <3>3. /\ Newest(Append(Append(calls, auth), shares), OfKind("auth"), About(address))
          /\ Absent(Append(Append(calls, auth), shares), OfKind("auth")) => known1
      <4> HIDE DEF known1
      <4> QED
        BY <1>3, <3>1, <3>2, OwnGrown
    <3>4. /\ Newest(Append(Append(calls, auth), shares), OfKind("shares"), About(address))
          /\ Absent(Append(Append(calls, auth), shares), OfKind("shares")) => known2
      <4> HIDE DEF known2
      <4> QED
        BY <1>3, <3>1, OwnGrown
    <3> QED
      BY <1>4, <2>1, <3>3, <3>4
  <2>2. CASE ~LooksUp
    <3>1. address = seen.address /\ Connected
      BY <1>2, <2>2, PageAssumption DEF LooksUp, Connected
    <3> QED
      BY <1>2, <1>4, <2>2, <3>1 DEF OwnInv, AuthOwn, SharesOwn
  <2> QED
    BY <2>1, <2>2
<1>6. /\ Newest(calls', OfKind("auth"), About(address))
      /\ Absent(calls', OfKind("auth")) => known1
      /\ Newest(calls', OfKind("shares"), About(address))
      /\ Absent(calls', OfKind("shares")) => known2
  <2> HIDE DEF known1, known2
  <2>1. CASE LoadsNow
    <3>1. calls' = Append(LookedUp, load)
      BY <1>4, <2>1
    <3>2. /\ Newest(Append(LookedUp, load), OfKind("auth"), About(address))
          /\ Absent(Append(LookedUp, load), OfKind("auth")) => known1
      BY <1>3, <1>4, <1>5, OwnGrown
    <3>3. /\ Newest(Append(LookedUp, load), OfKind("shares"), About(address))
          /\ Absent(Append(LookedUp, load), OfKind("shares")) => known2
      BY <1>3, <1>4, <1>5, OwnGrown
    <3> QED
      BY <3>1, <3>2, <3>3
  <2>2. CASE ~LoadsNow
    BY <1>4, <1>5, <2>2
  <2> QED
    BY <2>1, <2>2
<1>7. AuthOwn' /\ SharesOwn'
  BY <1>1, <1>6 DEF AuthOwn, SharesOwn
<1>8. ASSUME seen'.authorized = TRUE, seen'.chainOk PROVE ReportOwn'
  <2>1. LoadsNow
    BY <1>1, <1>2, <1>8, PageAssumption DEF LoadsNow
  <2>2. /\ Newest(Append(LookedUp, load), OfKind("performance"), About(address))
        /\ Absent(Append(LookedUp, load), OfKind("performance")) => FALSE
    BY <1>3, <1>4, OwnGrown
  <2> QED
    BY <1>1, <1>4, <2>1, <2>2 DEF ReportOwn
<1> QED
  BY <1>7, <1>8

LEMMA OwnAnswered ==
  ASSUME TypeOK, OwnInv, NEW i \in DOMAIN calls, NEW answer, Land(i, answer)
  PROVE  OwnInv'
<1> SUFFICES ASSUME Smooth', Connected'
             PROVE  /\ AuthOwn' /\ SharesOwn'
                    /\ seen'.authorized = TRUE /\ seen'.chainOk => ReportOwn'
  BY DEF OwnInv
<1> DEFINE c == calls[i]
           rest == RemoveAt(calls, i)
           auth == authorized' # Null /\ authorized'.of = seen.address
           shares == shareBalance' = seen.address
           reported == report' \in {Null, seen.address}
<1>1. /\ c \in Calls /\ i \in 1 .. Len(calls) /\ rest \in Seq(Calls)
      /\ glitches \subseteq glitches' /\ seen' = seen
      /\ ~Overtakes(i) /\ answer = Served(c)
      /\ \/ calls' = rest
         \/ /\ c.of = seen.address
            /\ \E kind \in {"shares", "performance"}, for \in Waits :
                 calls' = Append(rest, Call(kind, c.of, for))
  BY LandLeaves DEF Smooth
<1>2. /\ \/ c.kind = "auth" /\ authorized' = [of |-> c.of, value |-> answer = "ok"]
         \/ c.kind # "auth" /\ authorized' = authorized
      /\ \/ c.kind = "shares" /\ shareBalance' = IF answer = "ok" THEN c.of ELSE shareBalance
         \/ c.kind # "shares" /\ shareBalance' = shareBalance
      /\ \/ c.kind = "performance" /\ report' = IF answer = "ok" THEN c.of ELSE Null
         \/ c.kind = "shares" /\ report' \in {Null, report}
         \/ c.kind \in {"auth", "request"} /\ report' = report
  BY LandLeaves
<1>3. Smooth /\ Connected /\ calls \in Seq(Calls) /\ seen.address \in Accounts
  BY <1>1 DEF Smooth, Connected, TypeOK, Known
<1>4. \A j \in 1 .. i - 1 : calls[j].kind = c.kind => calls[j].of = c.of
  BY <1>1 DEF Overtakes
<1>5. c.kind = "shares" => answer = "ok"
  BY <1>1 DEF Served, SharesOk
<1> HIDE DEF rest
<1>6. /\ Newest(rest, OfKind("auth"), About(seen.address))
      /\ Absent(rest, OfKind("auth")) => auth
  <2> DEFINE known == authorized # Null /\ authorized.of = seen.address
  <2>1. Newest(calls, OfKind("auth"), About(seen.address))
        /\ (Absent(calls, OfKind("auth")) => known)
    BY <1>3 DEF OwnInv, AuthOwn
  <2>2. c.kind # "auth" /\ known => auth
    BY <1>2
  <2>3. c.kind = "auth" /\ c.of = seen.address => auth
    <3> SUFFICES ASSUME c.kind = "auth", c.of = seen.address PROVE auth
      OBVIOUS
    <3>1. (answer = "ok") \in BOOLEAN
      OBVIOUS
    <3>2. authorized' = [of |-> c.of, value |-> answer = "ok"] /\ c.of \in Accounts
      BY <1>2, <1>3
    <3>3. [of |-> c.of, value |-> answer = "ok"] \in Readings
      BY <3>1, <3>2 DEF Readings
    <3> QED
      BY <3>2, <3>3, PageAssumption
  <2> HIDE DEF known, auth
  <2> QED
    BY <1>1, <1>3, <1>4, <2>1, <2>2, <2>3, OwnLanded DEF rest
<1>7. /\ Newest(rest, OfKind("shares"), About(seen.address))
      /\ Absent(rest, OfKind("shares")) => shares
  <2> DEFINE known == shareBalance = seen.address
  <2>1. Newest(calls, OfKind("shares"), About(seen.address))
        /\ (Absent(calls, OfKind("shares")) => known)
    BY <1>3 DEF OwnInv, SharesOwn
  <2>2. /\ c.kind # "shares" /\ known => shares
        /\ c.kind = "shares" /\ c.of = seen.address => shares
    BY <1>2, <1>5
  <2> HIDE DEF known, shares
  <2> QED
    BY <1>1, <1>3, <1>4, <2>1, <2>2, OwnLanded DEF rest
<1>8. ASSUME seen.authorized = TRUE, seen.chainOk
      PROVE  /\ Newest(rest, OfKind("performance"), About(seen.address))
             /\ Absent(rest, OfKind("performance")) => reported
  <2> DEFINE known == report \in {Null, seen.address}
  <2>1. Newest(calls, OfKind("performance"), About(seen.address))
        /\ (Absent(calls, OfKind("performance")) => known)
    BY <1>3, <1>8 DEF OwnInv, ReportOwn
  <2>2. /\ c.kind # "performance" /\ known => reported
        /\ c.kind = "performance" /\ c.of = seen.address => reported
    BY <1>2
  <2> HIDE DEF known, reported
  <2> QED
    BY <1>1, <1>3, <1>4, <2>1, <2>2, OwnLanded DEF rest
<1>9. CASE calls' = rest
  BY <1>1, <1>6, <1>7, <1>8, <1>9 DEF AuthOwn, SharesOwn, ReportOwn
<1>10. ASSUME c.of = seen.address, NEW kind \in {"shares", "performance"}, NEW for \in Waits,
              calls' = Append(rest, Call(kind, c.of, for))
       PROVE  /\ AuthOwn' /\ SharesOwn'
              /\ seen'.authorized = TRUE /\ seen'.chainOk => ReportOwn'
  <2> DEFINE new == Call(kind, c.of, for)
  <2>1. new \in Calls /\ new.kind = kind /\ new.of = seen.address
    <3>1. new \in Calls
      BY <1>3, <1>10, CallMade DEF Kinds
    <3> QED
      BY <1>10, <3>1 DEF Call
  <2>2. calls' = Append(rest, new)
    BY <1>10
  <2> HIDE DEF new, auth, shares, reported
  <2>3. /\ Newest(Append(rest, new), OfKind("auth"), About(seen.address))
        /\ Absent(Append(rest, new), OfKind("auth")) => auth
    BY <1>1, <1>6, <2>1, OwnGrown
  <2>4. /\ Newest(Append(rest, new), OfKind("shares"), About(seen.address))
        /\ Absent(Append(rest, new), OfKind("shares")) => shares
    BY <1>1, <1>7, <2>1, OwnGrown
  <2>5. ASSUME seen.authorized = TRUE, seen.chainOk
        PROVE  /\ Newest(Append(rest, new), OfKind("performance"), About(seen.address))
               /\ Absent(Append(rest, new), OfKind("performance")) => reported
    BY <1>1, <1>8, <2>1, <2>5, OwnGrown
  <2> QED
    BY <1>1, <2>2, <2>3, <2>4, <2>5 DEF AuthOwn, SharesOwn, ReportOwn, auth, shares, reported
<1> QED
  BY <1>1, <1>9, <1>10

LEMMA OwnStep == PageTypes /\ OwnInv /\ [Next]_vars => OwnInv'
<1> SUFFICES ASSUME PageTypes, OwnInv, [Next]_vars PROVE OwnInv'
  OBVIOUS
<1>0. TypeOK
  BY DEF PageTypes
<1>1. CASE \/ \E a \in Known : SwitchAccount(a)
           \/ SwitchChain \/ WalletConnects \/ \E ask \in Switches : WalletSwitches(ask)
           \/ \E ask \in asked : WalletDeclines(ask)
           \/ HandleConnect \/ HandleSwitchNetwork
           \/ HandleTransaction \/ TransactionFails
           \/ \E a \in Accounts : Authorize(a) \/ Revoke(a)
           \/ UNCHANGED vars
  <2>1. UNCHANGED <<seen, calls, authorized, report, shareBalance, glitches>>
    BY <1>1 DEF SwitchAccount, SwitchChain, WalletConnects, WalletSwitches, WalletDeclines,
                HandleConnect, HandleSwitchNetwork, Request, HandleTransaction,
                TransactionFails, Authorize, Revoke, vars, pageVars
  <2> QED
    BY <2>1, OwnStays
<1>2. CASE Hear \/ ReadFails
  <2>1. UNCHANGED <<seen, calls, authorized, report, shareBalance>> /\ glitches \subseteq glitches'
    BY <1>0, <1>2, HearSays
  <2> QED
    BY <2>1, OwnStays
<1>3. CASE Commit
  BY <1>0, <1>3, OwnRendered
<1>4. CASE HandleRequestAccess \/ CheckAuthorization \/ RefreshPerformance
  <2>1. PICK kind \in Kinds, for \in Waits : Send(kind, for)
    BY <1>4 DEF HandleRequestAccess, CheckAuthorization, RefreshPerformance, Kinds, Waits
  <2>2. /\ UNCHANGED <<seen, authorized, report, shareBalance, glitches>>
        /\ calls' = Append(calls, Call(kind, seen.address, for))
    BY <2>1 DEF Send
  <2> QED
    BY <1>0, <2>2, OwnSent
<1>5. CASE Mined
  <2>1. /\ UNCHANGED <<seen, authorized, report, shareBalance>>
        /\ glitches \subseteq glitches'
        /\ Smooth' => calls' = Append(calls, Call("shares", seen.address, "tx"))
    BY <1>5 DEF Mined, Late, Smooth, pageVars
  <2> QED
    BY <1>0, <2>1, OwnSent DEF Kinds, Waits
<1>6. ASSUME NEW i \in DOMAIN calls,
             Answered(i) \/ \E how \in {"refused", "lost"} : Fails(i, how)
      PROVE  OwnInv'
  <2>1. PICK answer : Land(i, answer)
    BY <1>6 DEF Answered, Fails
  <2> QED
    BY <1>0, <2>1, OwnAnswered
<1> QED
  BY <1>1, <1>2, <1>3, <1>4, <1>5, <1>6 DEF Next

(* When all calls are answered, none too late, after a newer one or not at  *)
(* all, what BetaApp.tsx shows is of the account it shows: whether it is    *)
(* authorized, its shares, and the report if one is shown, however the      *)
(* wallet was switched between the calls.                                   *)
THEOREM PageShownIsOwn == Spec => []ShownIsOwn
<1>1. Init => OwnInv
  <2>1. Init => ~Connected
    BY DEF Init, Rendered, Connected
  <2> QED
    BY <2>1 DEF OwnInv
<1>2. OwnInv => ShownIsOwn
  <2> SUFFICES ASSUME OwnInv, AtRest, address # Null, Smooth
               PROVE  /\ authorized # Null /\ authorized.of = address
                      /\ shareBalance = address
                      /\ chainOk /\ ShowsReport => report = address
    BY DEF ShownIsOwn, Smooth
  <2>1. /\ seen.address = address /\ seen.chainOk = chainOk /\ Connected
        /\ \A kind : Absent(calls, OfKind(kind))
    BY DEF AtRest, WalletQuiet, Rendered, Connected, Absent
  <2> QED
    BY <2>1 DEF OwnInv, AuthOwn, SharesOwn, ReportOwn, ShowsReport
<1> QED
  BY TypesStart, TypesStep, <1>1, OwnStep, <1>2, PTL DEF Spec

=============================================================================
