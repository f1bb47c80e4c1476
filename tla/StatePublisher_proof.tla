------------------------- MODULE StatePublisher_proof -------------------------
(***************************************************************************)
(* What publications leave in Redis and the database, for any number of     *)
(* them under way at a time and any number of changes of the store.  The    *)
(* argument is that one connection keeps publications in line: at every     *)
(* command an older one is before a newer one (InTurn), so what a           *)
(* publication has still to write is never older than what is there.        *)
(***************************************************************************)
EXTENDS StatePublisher, TLAPS

Items == Publications \X Stored

(* The order of a publication's commands.                                   *)
Rank == [k \in Stored |-> IF k = "latest" THEN 1 ELSE IF k = "version" THEN 2
                          ELSE IF k = "notify" THEN 3 ELSE 4]

OneLine == \A c \in Publications \ {1} : line[c] = <<>> /\ answers[c] = <<>>

(* Of two commands under way the first is of the older publication, or of a *)
(* newer one that is not as far: no publication overtakes an older one.     *)
InTurn(x, y) ==
  \/ x[1] < y[1] /\ Rank[x[2]] >= Rank[y[2]]
  \/ x[1] > y[1] /\ Rank[x[2]] < Rank[y[2]]

Ordered(s) == \A i, j \in DOMAIN s : i < j => InTurn(s[i], s[j])
Before(s, t) == \A x \in ToSet(s), y \in ToSet(t) : InTurn(x, y)

InTurns == Ordered(answers[1]) /\ Ordered(line[1]) /\ Before(answers[1], line[1])

(* Later publications have later snapshots.                                 *)
Snapshots ==
  /\ \A p \in 1 .. started : snapshot[p] <= version
  /\ \A p, q \in 1 .. started : p < q => snapshot[p] <= snapshot[q]

UnderWay(x) == x[1] <= started /\ pc[x[1]] = x[2]

(* A key that p has written holds its snapshot or a newer one, or expired.  *)
Reached(key, p) ==
  redis[key] >= snapshot[p] \/ (key \in {"latest", "encrypted"} /\ redis[key] = 0)

(* A command not yet executed: what p has still to write is not ahead of    *)
(* it, what p has written is not behind.                                    *)
Waits(x) ==
  \A key \in Stored :
    /\ Rank[key] >= Rank[x[2]] => redis[key] <= snapshot[x[1]]
    /\ Rank[key] < Rank[x[2]] => Reached(key, x[1])

(* A command executed and not yet answered.                                 *)
WasRun(x) ==
  \A key \in Stored :
    /\ Rank[key] > Rank[x[2]] => redis[key] <= snapshot[x[1]]
    /\ Rank[key] <= Rank[x[2]] => Reached(key, x[1])

Commanded ==
  /\ \A x \in ToSet(line[1]) : UnderWay(x) /\ Waits(x)
  /\ \A x \in ToSet(answers[1]) : UnderWay(x) /\ WasRun(x)

(* A publication past its commands has left none behind that is older.      *)
Past(p) ==
  pc[p] \in {"row", "metrics", "done"} =>
    /\ p <= started /\ \A key \in Stored : Reached(key, p)
    /\ \A x \in ToSet(line[1]) \cup ToSet(answers[1]) : x[1] > p

Newest ==
  \A key \in Stored : redis[key] # 0 => started > 0 /\ redis[key] <= snapshot[started]

LastPhase ==
  /\ phase \in {"final", "quit"} => final = started /\ started > 0
  /\ phase = "quit" => pc[final] = "done"

Values == Commanded /\ (\A p \in Publications : Past(p)) /\ Newest /\ InStep

PublisherInv == TypeOK /\ OneLine /\ InTurns /\ Snapshots /\ Values /\ LastPhase

-----------------------------------------------------------------------------
(* Constants and sequences.                                                 *)
LEMMA Numbers ==
  /\ 1 \in Publications /\ Publications \subseteq Nat /\ Versions \subseteq Nat
  /\ MaxPublications \in Nat /\ 0 \in Versions
BY PublisherAssumption DEF Publications, Versions

LEMMA Ranks ==
  /\ Rank["latest"] = 1 /\ Rank["version"] = 2 /\ Rank["notify"] = 3 /\ Rank["encrypted"] = 4
  /\ \A k \in Stored : Rank[k] \in 1 .. 4
BY DEF Rank, Stored

(* Which command comes next.                                                *)
LEMMA NextCommand ==
  ASSUME NEW k \in Stored
  PROVE  /\ Len(Commands) = 4 /\ Commands[1] = "latest"
         /\ (CHOOSE i \in 1 .. Len(Commands) : Commands[i] = k) = Rank[k]
         /\ Rank[k] < 4 => Commands[Rank[k] + 1] \in Stored /\ Rank[Commands[Rank[k] + 1]] = Rank[k] + 1
<1>1. /\ Len(Commands) = 4 /\ Commands[1] = "latest" /\ Commands[2] = "version"
      /\ Commands[3] = "notify" /\ Commands[4] = "encrypted"
  BY DEF Commands
<1>2. Rank[k] \in 1 .. 4 /\ Commands[Rank[k]] = k
  BY <1>1 DEF Rank, Stored
<1>3. \A i \in 1 .. 4 : Commands[i] = k => i = Rank[k]
  BY <1>1 DEF Rank, Stored
<1>4. Rank[k] < 4 => Commands[Rank[k] + 1] \in Stored /\ Rank[Commands[Rank[k] + 1]] = Rank[k] + 1
  BY <1>1 DEF Rank, Stored
<1> QED
  BY <1>1, <1>2, <1>3, <1>4

LEMMA Entries ==
  ASSUME NEW S, NEW s \in Seq(S)
  PROVE  /\ Len(s) \in Nat /\ DOMAIN s = 1 .. Len(s)
         /\ ToSet(s) \subseteq S
         /\ \A i \in DOMAIN s : s[i] \in ToSet(s)
         /\ s = <<>> => ToSet(s) = {}
BY DEF ToSet

LEMMA Appended ==
  ASSUME NEW S, NEW s \in Seq(S), NEW e \in S
  PROVE  /\ Append(s, e) \in Seq(S)
         /\ DOMAIN Append(s, e) = 1 .. Len(s) + 1
         /\ \A i \in DOMAIN s : Append(s, e)[i] = s[i]
         /\ Append(s, e)[Len(s) + 1] = e
         /\ ToSet(Append(s, e)) = ToSet(s) \cup {e}
<1>1. /\ Append(s, e) \in Seq(S) /\ DOMAIN Append(s, e) = 1 .. Len(s) + 1
      /\ Len(s) \in Nat /\ DOMAIN s = 1 .. Len(s)
      /\ \A i \in DOMAIN s : Append(s, e)[i] = s[i]
      /\ Append(s, e)[Len(s) + 1] = e
  OBVIOUS
<1>2. \A i \in 1 .. Len(s) + 1 : i \in 1 .. Len(s) \/ i = Len(s) + 1
  BY <1>1
<1>3. Len(s) + 1 \in 1 .. Len(s) + 1 /\ \A i \in 1 .. Len(s) : i \in 1 .. Len(s) + 1
  BY <1>1
<1>4. ToSet(Append(s, e)) = ToSet(s) \cup {e}
  BY <1>1, <1>2, <1>3 DEF ToSet
<1> QED
  BY <1>1, <1>4

LEMMA Tailed ==
  ASSUME NEW S, NEW s \in Seq(S), s # <<>>
  PROVE  /\ Tail(s) \in Seq(S) /\ Head(s) \in S /\ Head(s) = s[1]
         /\ 1 \in DOMAIN s
         /\ DOMAIN Tail(s) = 1 .. Len(s) - 1
         /\ \A i \in DOMAIN Tail(s) : i + 1 \in DOMAIN s /\ Tail(s)[i] = s[i + 1]
         /\ ToSet(s) = ToSet(Tail(s)) \cup {Head(s)}
<1>1. /\ Tail(s) \in Seq(S) /\ Head(s) \in S /\ Head(s) = s[1]
      /\ Len(s) \in Nat \ {0} /\ DOMAIN s = 1 .. Len(s)
      /\ DOMAIN Tail(s) = 1 .. Len(s) - 1
      /\ \A i \in DOMAIN Tail(s) : Tail(s)[i] = s[i + 1]
  OBVIOUS
<1>2. /\ 1 \in DOMAIN s /\ \A i \in DOMAIN Tail(s) : i + 1 \in DOMAIN s
      /\ \A i \in DOMAIN s : i # 1 => i - 1 \in DOMAIN Tail(s) /\ Tail(s)[i - 1] = s[i]
  BY <1>1
<1>3. ToSet(s) \subseteq ToSet(Tail(s)) \cup {Head(s)}
  BY <1>1, <1>2 DEF ToSet
<1>4. ToSet(Tail(s)) \cup {Head(s)} \subseteq ToSet(s)
  BY <1>1, <1>2 DEF ToSet
<1> QED
  BY <1>1, <1>2, <1>3, <1>4

LEMMA Joined ==
  ASSUME NEW S, NEW s \in Seq(S), NEW t \in Seq(S)
  PROVE  ToSet(s \o t) = ToSet(s) \cup ToSet(t)
<1>1. /\ Len(s) \in Nat /\ Len(t) \in Nat /\ DOMAIN s = 1 .. Len(s) /\ DOMAIN t = 1 .. Len(t)
      /\ DOMAIN (s \o t) = 1 .. Len(s) + Len(t)
      /\ \A i \in 1 .. Len(s) + Len(t) : (s \o t)[i] = IF i <= Len(s) THEN s[i] ELSE t[i - Len(s)]
  OBVIOUS
<1>2. \A i \in 1 .. Len(s) + Len(t) :
        \/ i \in 1 .. Len(s) /\ (s \o t)[i] = s[i]
        \/ i - Len(s) \in 1 .. Len(t) /\ (s \o t)[i] = t[i - Len(s)]
  BY <1>1
<1>3. /\ \A i \in 1 .. Len(s) : i \in 1 .. Len(s) + Len(t) /\ (s \o t)[i] = s[i]
      /\ \A i \in 1 .. Len(t) : Len(s) + i \in 1 .. Len(s) + Len(t) /\ (s \o t)[Len(s) + i] = t[i]
  BY <1>1
<1>4. ToSet(s \o t) \subseteq ToSet(s) \cup ToSet(t)
  BY <1>1, <1>2 DEF ToSet
<1>5. ASSUME NEW i \in 1 .. Len(s) PROVE s[i] \in ToSet(s \o t)
  <2>1. i \in DOMAIN (s \o t) /\ (s \o t)[i] = s[i]
    BY <1>1, <1>3
  <2> QED
    BY <2>1 DEF ToSet
<1>6. ASSUME NEW i \in 1 .. Len(t) PROVE t[i] \in ToSet(s \o t)
  <2>1. Len(s) + i \in DOMAIN (s \o t) /\ (s \o t)[Len(s) + i] = t[i]
    BY <1>1, <1>3
  <2> QED
    BY <2>1 DEF ToSet
<1>7. ASSUME NEW x \in ToSet(s) \cup ToSet(t) PROVE x \in ToSet(s \o t)
  <2>1. \/ \E i \in 1 .. Len(s) : x = s[i]
        \/ \E i \in 1 .. Len(t) : x = t[i]
    BY <1>1 DEF ToSet
  <2> QED
    BY <2>1, <1>5, <1>6
<1> QED
  BY <1>4, <1>7

LEMMA OrderedTail ==
  ASSUME NEW S, NEW s \in Seq(S), s # <<>>, Ordered(s)
  PROVE  Ordered(Tail(s)) /\ \A y \in ToSet(Tail(s)) : InTurn(Head(s), y)
<1>1. Ordered(Tail(s))
  <2> SUFFICES ASSUME NEW i \in DOMAIN Tail(s), NEW j \in DOMAIN Tail(s), i < j
               PROVE  InTurn(Tail(s)[i], Tail(s)[j])
    BY DEF Ordered
  <2>1. i \in Nat /\ j \in Nat /\ i + 1 < j + 1
    BY Tailed, Entries
  <2> QED
    BY <2>1, Tailed DEF Ordered
<1>2. ASSUME NEW j \in DOMAIN Tail(s) PROVE InTurn(Head(s), Tail(s)[j])
  <2>1. j \in Nat /\ 1 < j + 1
    BY Tailed, Entries
  <2> QED
    BY <2>1, Tailed DEF Ordered
<1> QED
  BY <1>1, <1>2 DEF ToSet

LEMMA OrderedAppend ==
  ASSUME NEW S, NEW s \in Seq(S), NEW e \in S, Ordered(s), \A x \in ToSet(s) : InTurn(x, e)
  PROVE  Ordered(Append(s, e))
<1> SUFFICES ASSUME NEW i \in DOMAIN Append(s, e), NEW j \in DOMAIN Append(s, e), i < j
             PROVE  InTurn(Append(s, e)[i], Append(s, e)[j])
  BY DEF Ordered
<1>1. Len(s) \in Nat /\ DOMAIN s = 1 .. Len(s) /\ DOMAIN Append(s, e) = 1 .. Len(s) + 1
  BY Entries, Appended
<1>2. i \in DOMAIN s /\ (j \in DOMAIN s \/ j = Len(s) + 1)
  BY <1>1
<1>3. CASE j \in DOMAIN s
  BY <1>2, <1>3, Appended DEF Ordered
<1>4. CASE j = Len(s) + 1
  BY <1>2, <1>4, Appended, Entries
<1> QED
  BY <1>2, <1>3, <1>4

(* What is under way is on the one connection.                              *)
LEMMA Queues ==
  ASSUME PublisherInv
  PROVE  /\ line[1] \in Seq(Items) /\ answers[1] \in Seq(Items)
         /\ ToSet(line[1]) \subseteq Items /\ ToSet(answers[1]) \subseteq Items
         /\ \A c \in Publications : line[c] # <<>> \/ answers[c] # <<>> => c = 1
         /\ started \in Nat /\ started <= MaxPublications
         /\ \A p \in 1 .. started : p \in Publications
         /\ \A p \in Publications : p <= started => p \in 1 .. started
<1>1. line[1] \in Seq(Items) /\ answers[1] \in Seq(Items)
  BY Numbers DEF PublisherInv, TypeOK, Items
<1>2. started \in Nat /\ started <= MaxPublications
  BY Numbers DEF PublisherInv, TypeOK
<1>3. /\ \A p \in 1 .. started : p \in Publications
      /\ \A p \in Publications : p <= started => p \in 1 .. started
  BY <1>2, Numbers DEF Publications
<1>4. \A c \in Publications : line[c] # <<>> \/ answers[c] # <<>> => c = 1
  BY DEF PublisherInv, OneLine
<1> QED
  BY <1>1, <1>2, <1>3, <1>4, Entries

LEMMA ItemParts ==
  ASSUME NEW x \in Items
  PROVE  x[1] \in Publications /\ x[2] \in Stored /\ x = <<x[1], x[2]>>
BY DEF Items

LEMMA PublisherStarts == Init => PublisherInv
<1> SUFFICES ASSUME Init PROVE PublisherInv
  OBVIOUS
<1>1. TypeOK
  BY PublisherAssumption DEF Init, TypeOK, Versions
<1>2. \A c \in Publications : line[c] = <<>> /\ answers[c] = <<>>
  BY DEF Init
<1>3. line[1] = <<>> /\ answers[1] = <<>>
  BY <1>2, Numbers
<1>4. ToSet(line[1]) = {} /\ ToSet(answers[1]) = {} /\ DOMAIN line[1] = {} /\ DOMAIN answers[1] = {}
  BY <1>3 DEF ToSet
<1>5. InTurns
  BY <1>4 DEF InTurns, Ordered, Before
<1>6. Commanded
  BY <1>4 DEF Commanded
<1>7. /\ \A p \in Publications : pc[p] = "idle"
      /\ \A k \in Stored : redis[k] = 0 /\ started = 0 /\ rows = {} /\ phase = "first"
  BY DEF Init
<1>8. Past(1) /\ \A p \in Publications : Past(p)
  BY <1>7, Numbers DEF Past
<1>9. Newest /\ InStep
  BY <1>7 DEF Newest, InStep, Stored, Init
<1>10. Snapshots /\ LastPhase
  BY DEF Init, Snapshots, LastPhase
<1> QED
  BY <1>1, <1>2, <1>5, <1>6, <1>8, <1>9, <1>10 DEF PublisherInv, OneLine, Values

-----------------------------------------------------------------------------
(* One lemma per action.                                                    *)

(* The store, main and its timer write nothing.                             *)
LEMMA MainKeeps == PublisherInv /\ (Update \/ Continue \/ Stop) => PublisherInv'
<1> SUFFICES ASSUME PublisherInv, Update \/ Continue \/ Stop PROVE PublisherInv'
  OBVIOUS
<1>1. UNCHANGED <<started, final, snapshot, pc, line, answers, redis, rows>>
  BY DEF Update, Continue, Stop
<1>2. OneLine' /\ InTurns' /\ Values'
  BY <1>1 DEF PublisherInv, OneLine, InTurns, Ordered, Before, InTurn, Values, Commanded, UnderWay, Waits,
    WasRun, Reached, Past, Newest, InStep
<1>3. version' \in Versions /\ version <= version'
  BY Numbers, PublisherAssumption DEF Update, Continue, Stop, PublisherInv, TypeOK, Versions
<1>4. TypeOK'
  BY <1>1, <1>3 DEF PublisherInv, TypeOK, Update, Continue, Awaited, Stop
<1>5. Snapshots'
  <2>1. \A p \in 1 .. started : snapshot[p] \in Nat
    BY Queues, Numbers DEF PublisherInv, TypeOK
  <2> QED
    BY <2>1, <1>1, <1>3, Numbers DEF PublisherInv, Snapshots, TypeOK
<1>6. LastPhase'
  BY <1>1 DEF PublisherInv, LastPhase, Update, Continue, Awaited, Stop
<1> QED
  BY <1>2, <1>4, <1>5, <1>6 DEF PublisherInv

(* A new publication is last in line and its snapshot the newest.           *)
LEMMA StartKeeps == PublisherInv /\ Start(started + 1) => PublisherInv'
<1> SUFFICES ASSUME PublisherInv, Start(started + 1) PROVE PublisherInv'
  OBVIOUS
<1>0. PICK n : n = started + 1
  OBVIOUS
<1> DEFINE e == <<n, "latest">>
<1>1. /\ n = started + 1 /\ n \in Publications /\ started \in Nat /\ started' = n
      /\ snapshot' = [snapshot EXCEPT ![n] = version]
      /\ pc' = [pc EXCEPT ![n] = "latest"]
      /\ line' = [line EXCEPT ![1] = Append(@, e)]
      /\ UNCHANGED <<version, answers, redis, rows>>
  BY <1>0, Queues, NextCommand DEF Start, CanStart, Send, Conn, Stored
<1>2. e \in Items
  BY <1>1 DEF Items, Stored
<1>3. /\ line[1] \in Seq(Items) /\ answers[1] \in Seq(Items)
      /\ line'[1] = Append(line[1], e) /\ line'[1] \in Seq(Items)
      /\ ToSet(line'[1]) = ToSet(line[1]) \cup {e} /\ answers'[1] = answers[1]
  <2>1. line[1] \in Seq(Items) /\ answers[1] \in Seq(Items)
    BY Queues
  <2>2. line'[1] = Append(line[1], e) /\ answers'[1] = answers[1]
    BY <1>1, Numbers DEF PublisherInv, TypeOK
  <2> HIDE DEF e
  <2> QED
    BY <2>1, <2>2, <1>2, Appended
<1>4. TypeOK'
  <2>1. /\ phase' \in {"first", "running", "stopping", "final", "quit", "exited"}
        /\ final' \in 0 .. MaxPublications /\ started' \in 0 .. MaxPublications
    BY SMTT(20), <1>1, PublisherAssumption DEF Start, CanStart, PublisherInv, TypeOK, Publications
  <2> QED
    BY <1>1, <1>3, <2>1 DEF PublisherInv, TypeOK, Items, Stored
<1>5. OneLine'
  BY <1>1, Numbers DEF PublisherInv, OneLine, TypeOK
<1>6. \A x \in ToSet(line[1]) \cup ToSet(answers[1]) : x \in Items /\ x[1] <= started /\ x[1] \in Publications
  BY Queues, ItemParts DEF PublisherInv, Values, Commanded, UnderWay
<1>7. \A x \in ToSet(line[1]) \cup ToSet(answers[1]) : InTurn(x, e)
  <2>1. e[1] = n /\ e[2] = "latest"
    OBVIOUS
  <2> HIDE DEF e
  <2>2. \A x \in ToSet(line[1]) \cup ToSet(answers[1]) :
          x[1] \in Nat /\ x[1] < n /\ Rank[x[2]] \in 1 .. 4
    BY <1>1, <1>6, Ranks, ItemParts, Numbers
  <2> QED
    BY <2>1, <2>2, Ranks DEF InTurn
<1>8. InTurns'
  <2>1. Ordered(line'[1])
    BY <1>2, <1>3, <1>7, OrderedAppend DEF PublisherInv, InTurns
  <2>2. Before(answers'[1], line'[1])
    BY <1>3, <1>7 DEF PublisherInv, InTurns, Before
  <2> QED
    BY <2>1, <2>2, <1>3 DEF PublisherInv, InTurns
<1>9. /\ snapshot'[n] = version /\ pc'[n] = "latest"
      /\ \A p \in Publications : p # n => snapshot'[p] = snapshot[p] /\ pc'[p] = pc[p]
      /\ \A p \in 1 .. started : p # n /\ snapshot[p] \in Nat /\ snapshot[p] <= version /\ p \in Publications
      /\ version \in Nat /\ \A key \in Stored : redis[key] \in Nat
  <2>1. version \in Nat /\ \A p \in Publications : snapshot[p] \in Nat
    BY Numbers DEF PublisherInv, TypeOK
  <2>2. \A key \in Stored : redis[key] \in Nat
    BY Numbers DEF PublisherInv, TypeOK
  <2>3. snapshot'[n] = version /\ \A p \in Publications : p # n => snapshot'[p] = snapshot[p]
    BY <1>1 DEF PublisherInv, TypeOK
  <2>4. pc'[n] = "latest" /\ \A p \in Publications : p # n => pc'[p] = pc[p]
    BY <1>1 DEF PublisherInv, TypeOK
  <2>5. \A p \in 1 .. started : p # n /\ p \in Publications /\ snapshot[p] <= version
    BY <1>1, Queues DEF PublisherInv, Snapshots
  <2> QED
    BY <2>1, <2>2, <2>3, <2>4, <2>5
<1>10. Snapshots'
  <2>1. \A p \in 1 .. n : p \in 1 .. started \/ p = n
    BY <1>1
  <2>2. \A p \in 1 .. n : snapshot'[p] <= version
    BY <2>1, <1>9
  <2>3. \A p, q \in 1 .. n : p < q => p \in 1 .. started
    BY <1>1
  <2>4. \A p, q \in 1 .. n : p < q => snapshot'[p] <= snapshot'[q]
    BY <2>1, <2>3, <1>9 DEF PublisherInv, Snapshots
  <2> QED
    BY <2>2, <2>4, <1>1 DEF Snapshots
<1>11. Newest' /\ \A key \in Stored : redis[key] <= version
  <2>1. \A key \in Stored : redis[key] <= version
    <3> TAKE key \in Stored
    <3>1. CASE redis[key] = 0
      BY <3>1, <1>9
    <3>2. CASE redis[key] # 0
      <4>1. started \in 1 .. started /\ redis[key] <= snapshot[started]
        BY <3>2, <1>1 DEF PublisherInv, Values, Newest
      <4>2. snapshot[started] <= version /\ snapshot[started] \in Nat
        BY <4>1, <1>9
      <4> QED
        BY <4>1, <4>2, <1>9
    <3> QED
      BY <3>1, <3>2
  <2> QED
    BY <2>1, <1>1, <1>9 DEF Newest
<1>12. \A x \in ToSet(line[1]) \cup ToSet(answers[1]) :
         x[1] # n /\ snapshot'[x[1]] = snapshot[x[1]] /\ pc'[x[1]] = pc[x[1]] /\ x[1] <= started'
  <2> SUFFICES ASSUME NEW x \in ToSet(line[1]) \cup ToSet(answers[1])
               PROVE  x[1] # n /\ x[1] <= n /\ x[1] \in Publications
    BY <1>1, <1>9
  <2>1. x[1] \in Publications /\ x[1] <= started
    BY <1>6
  <2>2. x[1] \in Nat
    BY <2>1, Numbers
  <2> HIDE DEF e
  <2> QED
    BY <2>1, <2>2, <1>1
<1>13. Commanded'
  <2>1. UnderWay(e)' /\ Waits(e)'
    <3>1. e[1] = n /\ e[2] = "latest" /\ n <= started'
      BY <1>1
    <3>2. UnderWay(e)'
      BY <3>1, <1>9 DEF UnderWay
    <3>3. \A key \in Stored : redis'[key] <= snapshot'[n] /\ ~(Rank[key] < Rank["latest"])
      BY <1>1, <1>9, <1>11, Ranks
    <3> QED
      BY <3>1, <3>2, <3>3 DEF Waits
  <2>2. \A x \in ToSet(line[1]) : UnderWay(x)' /\ Waits(x)'
    BY <1>1, <1>12 DEF PublisherInv, Values, Commanded, UnderWay, Waits, Reached
  <2>3. \A x \in ToSet(answers[1]) : UnderWay(x)' /\ WasRun(x)'
    BY <1>1, <1>12 DEF PublisherInv, Values, Commanded, UnderWay, WasRun, Reached
  <2> QED
    <3> HIDE DEF e
    <3>1. \A x \in ToSet(line'[1]) : UnderWay(x)' /\ Waits(x)'
      BY <1>3, <2>1, <2>2
    <3> QED
      BY <1>3, <2>3, <3>1 DEF Commanded
<1>14. \A p \in Publications : Past(p)'
  <2> SUFFICES ASSUME NEW p \in Publications, pc'[p] \in {"row", "metrics", "done"} PROVE Past(p)'
    BY DEF Past
  <2>1. p # n /\ pc[p] = pc'[p] /\ snapshot'[p] = snapshot[p]
    BY <1>9
  <2>2. Past(p) /\ p \in Nat
    BY Numbers DEF PublisherInv, Values
  <2>3. p <= started' /\ e[1] > p
    BY <2>1, <2>2, <1>1 DEF Past
  <2>4. \A key \in Stored : Reached(key, p)'
    BY <2>1, <2>2, <1>1 DEF Past, Reached
  <2> QED
    BY <2>1, <2>2, <2>3, <2>4, <1>3 DEF Past
<1>15. InStep' /\ LastPhase'
  BY <1>1, Numbers DEF PublisherInv, Values, InStep, LastPhase, Start, CanStart
<1> QED
  BY <1>4, <1>5, <1>8, <1>10, <1>11, <1>13, <1>14, <1>15 DEF PublisherInv, Values

(* A key gone is not ahead of anything, and may be gone for anyone.         *)
LEMMA ExpireKeeps ==
  ASSUME PublisherInv, NEW key \in Stored, Expire(key)
  PROVE  PublisherInv' /\ \A k \in Stored : redis'[k] # 0 => redis'[k] >= redis[k]
<1>1. /\ key \in {"latest", "encrypted"} /\ redis' = [redis EXCEPT ![key] = 0]
      /\ UNCHANGED <<version, phase, started, final, snapshot, pc, line, answers, rows>>
  BY DEF Expire
<1>2. /\ redis'[key] = 0 /\ redis'["version"] = redis["version"] /\ redis'["notify"] = redis["notify"]
      /\ \A k \in Stored : redis[k] \in Nat /\ (k # key => redis'[k] = redis[k])
      /\ \A p \in Publications : snapshot[p] \in Nat
  BY <1>1, Numbers DEF PublisherInv, TypeOK, Stored
<1>3. TypeOK'
  BY <1>1, Numbers DEF PublisherInv, TypeOK
<1>4. OneLine' /\ InTurns' /\ Snapshots' /\ LastPhase'
  BY <1>1 DEF PublisherInv, OneLine, InTurns, Ordered, Before, InTurn, Snapshots, LastPhase
<1>5. \A k \in Stored, p \in Publications : Reached(k, p) => Reached(k, p)'
  BY <1>1, <1>2 DEF Reached
<1>6. \A k \in Stored, p \in Publications : redis[k] <= snapshot[p] => redis'[k] <= snapshot'[p]
  BY <1>1, <1>2
<1>7. Commanded'
  <2>1. \A x \in ToSet(line[1]) \cup ToSet(answers[1]) : x[1] \in Publications
    BY Queues, ItemParts
  <2>2. \A x \in ToSet(line[1]) : Waits(x)'
    BY <2>1, <1>5, <1>6 DEF PublisherInv, Values, Commanded, Waits
  <2>3. \A x \in ToSet(answers[1]) : WasRun(x)'
    BY <2>1, <1>5, <1>6 DEF PublisherInv, Values, Commanded, WasRun
  <2> QED
    BY <2>2, <2>3, <1>1 DEF PublisherInv, Values, Commanded, UnderWay
<1>8. \A p \in Publications : Past(p)'
  BY <1>1, <1>5 DEF PublisherInv, Values, Past
<1>9. Newest' /\ InStep'
  BY <1>1, <1>2 DEF PublisherInv, Values, Newest, InStep, Stored
<1> QED
  BY <1>2, <1>3, <1>4, <1>7, <1>8, <1>9 DEF PublisherInv, Values

(* Commands under way are items of publications that have started.          *)
LEMMA OnTheWay ==
  ASSUME PublisherInv
  PROVE  /\ \A x \in ToSet(line[1]) \cup ToSet(answers[1]) :
              /\ x[1] \in Publications /\ x[1] \in Nat /\ x[2] \in Stored /\ Rank[x[2]] \in 1 .. 4
              /\ x[1] <= started /\ pc[x[1]] = x[2] /\ snapshot[x[1]] \in Nat
         /\ \A x, y \in ToSet(line[1]) \cup ToSet(answers[1]) :
              x[1] < y[1] => snapshot[x[1]] <= snapshot[y[1]]
         /\ \A key \in Stored : redis[key] \in Nat
         /\ \A p \in Publications : snapshot[p] \in Nat
<1>1. /\ \A key \in Stored : redis[key] \in Nat
      /\ \A p \in Publications : snapshot[p] \in Nat
  BY Numbers DEF PublisherInv, TypeOK
<1>2. \A x \in ToSet(line[1]) \cup ToSet(answers[1]) :
        x[1] \in Publications /\ x[1] \in Nat /\ x[2] \in Stored /\ Rank[x[2]] \in 1 .. 4
  BY Queues, ItemParts, Numbers, Ranks
<1>3. \A x \in ToSet(line[1]) \cup ToSet(answers[1]) : x[1] <= started /\ pc[x[1]] = x[2]
  BY DEF PublisherInv, Values, Commanded, UnderWay
<1>4. \A x \in ToSet(line[1]) \cup ToSet(answers[1]) : x[1] \in 1 .. started
  BY <1>2, <1>3, Queues
<1>5. \A x, y \in ToSet(line[1]) \cup ToSet(answers[1]) :
        x[1] < y[1] => snapshot[x[1]] <= snapshot[y[1]]
  BY <1>4 DEF PublisherInv, Snapshots
<1> QED
  BY <1>1, <1>2, <1>3, <1>5

(* The oldest command of the line writes its publication's snapshot: those  *)
(* before it are at least as far, or newer, and those behind it not ahead.  *)
LEMMA ExecuteKeeps ==
  ASSUME PublisherInv, NEW c \in Publications, Execute(c)
  PROVE  PublisherInv' /\ \A k \in Stored : redis'[k] >= redis[k]
<1>1. c = 1 /\ line[1] # <<>>
  BY Queues DEF Execute
<1>2. PICK h : h = Head(line[1])
  OBVIOUS
<1>3. PICK p, key : p = h[1] /\ key = h[2]
  OBVIOUS
<1>4. /\ line[1] \in Seq(Items) /\ answers[1] \in Seq(Items) /\ h \in Items /\ h \in ToSet(line[1])
      /\ ToSet(line[1]) = ToSet(Tail(line[1])) \cup {h} /\ Tail(line[1]) \in Seq(Items)
  BY <1>1, <1>2, Queues, Tailed
<1>5. /\ redis' = [redis EXCEPT ![key] = snapshot[p]]
      /\ line' = [line EXCEPT ![1] = Tail(@)]
      /\ answers' = [answers EXCEPT ![1] = Append(@, h)]
      /\ UNCHANGED <<version, phase, started, final, snapshot, pc, rows>>
  BY <1>1, <1>2, <1>3 DEF Execute
<1>6. line'[1] = Tail(line[1]) /\ answers'[1] = Append(answers[1], h)
  BY <1>5, Numbers DEF PublisherInv, TypeOK
<1>7. ToSet(answers'[1]) = ToSet(answers[1]) \cup {h} /\ answers'[1] \in Seq(Items)
  BY <1>4, <1>6, Appended
<1>8. /\ p \in Publications /\ p \in Nat /\ key \in Stored /\ Rank[key] \in 1 .. 4 /\ p <= started
      /\ snapshot[p] \in Nat /\ Waits(h) /\ started \in Nat
  BY <1>3, <1>4, OnTheWay, Queues DEF PublisherInv, Values, Commanded
<1>9. redis'[key] = snapshot[p] /\ \A k \in Stored : k # key => redis'[k] = redis[k]
  BY <1>5, <1>8 DEF PublisherInv, TypeOK
<1>10. \A k \in Stored : redis'[k] \in Nat /\ redis[k] \in Nat /\ redis'[k] >= redis[k]
  <2>1. redis[key] <= snapshot[p]
    BY <1>3, <1>8 DEF Waits
  <2> QED
    BY <2>1, <1>8, <1>9, OnTheWay
<1>11. TypeOK'
  <2>1. line' \in [Publications -> Seq(Items)] /\ answers' \in [Publications -> Seq(Items)]
    BY <1>4, <1>5, <1>6, <1>7 DEF PublisherInv, TypeOK, Items
  <2>2. redis' \in [Stored -> Versions]
    BY <1>5, <1>8 DEF PublisherInv, TypeOK
  <2> QED
    BY <2>1, <2>2, <1>5 DEF PublisherInv, TypeOK, Items
<1>12. OneLine'
  BY <1>5, Numbers DEF PublisherInv, OneLine, TypeOK
<1>13. /\ Ordered(Tail(line[1])) /\ \A y \in ToSet(Tail(line[1])) : InTurn(h, y)
       /\ \A x \in ToSet(answers[1]) : InTurn(x, h)
  BY <1>1, <1>2, <1>4, OrderedTail DEF PublisherInv, InTurns, Before
<1>14. InTurns'
  <2>1. Ordered(answers'[1])
    BY <1>4, <1>6, <1>13, OrderedAppend DEF PublisherInv, InTurns
  <2>2. Before(answers'[1], line'[1])
    BY <1>4, <1>6, <1>7, <1>13 DEF PublisherInv, InTurns, Before
  <2> QED
    BY <2>1, <2>2, <1>6, <1>13 DEF InTurns
<1>15. Snapshots' /\ LastPhase'
  BY <1>5 DEF PublisherInv, Snapshots, LastPhase
<1>16. \A x \in ToSet(Tail(line[1])) \cup ToSet(answers[1]) :
         /\ x[1] \in Publications /\ x[1] \in Nat /\ x[2] \in Stored /\ Rank[x[2]] \in 1 .. 4
         /\ snapshot[x[1]] \in Nat
         /\ x[1] < p => snapshot[x[1]] <= snapshot[p]
         /\ p < x[1] => snapshot[p] <= snapshot[x[1]]
  BY <1>3, <1>4, OnTheWay
<1>17. \A k \in Stored, q \in Publications :
         Reached(k, q) /\ (k # key \/ snapshot[q] <= snapshot[p]) => Reached(k, q)'
  BY <1>5, <1>9 DEF Reached
<1>18. ASSUME NEW x \in ToSet(Tail(line[1])) PROVE Waits(x)'
  <2>1. Waits(x) /\ InTurn(h, x)
    BY <1>4, <1>13 DEF PublisherInv, Values, Commanded
  <2>2. \A k \in Stored : Rank[k] >= Rank[x[2]] => redis'[k] <= snapshot[x[1]]
    <3> TAKE k \in Stored
    <3>1. CASE k # key
      BY <2>1, <3>1, <1>9 DEF Waits
    <3>2. ASSUME k = key, Rank[key] >= Rank[x[2]] PROVE redis'[k] <= snapshot[x[1]]
      BY <2>1, <3>2, <1>3, <1>8, <1>9, <1>16 DEF InTurn
    <3> QED
      BY <3>1, <3>2
  <2>3. \A k \in Stored : Rank[k] < Rank[x[2]] => Reached(k, x[1])'
    <3> SUFFICES ASSUME NEW k \in Stored, Rank[k] < Rank[x[2]] PROVE Reached(k, x[1])'
      OBVIOUS
    <3>1. Reached(k, x[1]) /\ x[1] \in Publications
      BY <2>1, <1>16 DEF Waits
    <3>2. k = key => snapshot[x[1]] <= snapshot[p]
      BY <2>1, <1>3, <1>8, <1>16 DEF InTurn
    <3> QED
      BY <3>1, <3>2, <1>17
  <2> QED
    BY <2>2, <2>3, <1>5 DEF Waits
<1>19. ASSUME NEW x \in ToSet(answers[1]) PROVE WasRun(x)'
  <2>1. WasRun(x) /\ InTurn(x, h)
    BY <1>13 DEF PublisherInv, Values, Commanded
  <2>2. \A k \in Stored : Rank[k] > Rank[x[2]] => redis'[k] <= snapshot[x[1]]
    <3> TAKE k \in Stored
    <3>1. CASE k # key
      BY <2>1, <3>1, <1>9 DEF WasRun
    <3>2. ASSUME k = key, Rank[key] > Rank[x[2]] PROVE redis'[k] <= snapshot[x[1]]
      BY <2>1, <3>2, <1>3, <1>8, <1>9, <1>16 DEF InTurn
    <3> QED
      BY <3>1, <3>2
  <2>3. \A k \in Stored : Rank[k] <= Rank[x[2]] => Reached(k, x[1])'
    <3> SUFFICES ASSUME NEW k \in Stored, Rank[k] <= Rank[x[2]] PROVE Reached(k, x[1])'
      OBVIOUS
    <3>1. Reached(k, x[1]) /\ x[1] \in Publications
      BY <2>1, <1>16 DEF WasRun
    <3>2. k = key => snapshot[x[1]] <= snapshot[p]
      BY <2>1, <1>3, <1>8, <1>16 DEF InTurn
    <3> QED
      BY <3>1, <3>2, <1>17
  <2> QED
    BY <2>2, <2>3, <1>5 DEF WasRun
<1>20. WasRun(h)'
  <2>1. \A k \in Stored : Rank[k] > Rank[key] => redis'[k] <= snapshot[p]
    <3> SUFFICES ASSUME NEW k \in Stored, Rank[k] > Rank[key] PROVE redis'[k] <= snapshot[p]
      OBVIOUS
    <3>1. k # key /\ Rank[k] >= Rank[key]
      BY <1>8, Ranks
    <3> QED
      BY <3>1, <1>3, <1>8, <1>9 DEF Waits
  <2>2. \A k \in Stored : Rank[k] <= Rank[key] => Reached(k, p)'
    <3> SUFFICES ASSUME NEW k \in Stored, Rank[k] <= Rank[key], k # key PROVE Reached(k, p)'
      BY <1>5, <1>8, <1>9 DEF Reached
    <3>1. Rank[k] # Rank[key]
      BY <1>8 DEF Rank, Stored
    <3>2. Rank[k] < Rank[key]
      BY <3>1, Ranks, <1>8
    <3> QED
      BY <3>2, <1>3, <1>8, <1>17 DEF Waits
  <2> QED
    BY <2>1, <2>2, <1>3, <1>5 DEF WasRun
<1>21. Commanded'
  <2>1. \A x \in ToSet(Tail(line[1])) \cup ToSet(answers[1]) \cup {h} : UnderWay(x)'
    BY <1>4, <1>5 DEF PublisherInv, Values, Commanded, UnderWay
  <2> QED
    BY <2>1, <1>6, <1>7, <1>18, <1>19, <1>20 DEF Commanded
<1>22. \A q \in Publications : Past(q)'
  <2> SUFFICES ASSUME NEW q \in Publications, pc[q] \in {"row", "metrics", "done"} PROVE Past(q)'
    BY <1>5 DEF Past
  <2>1. /\ q <= started /\ \A k \in Stored : Reached(k, q)
        /\ \A x \in ToSet(line[1]) \cup ToSet(answers[1]) : x[1] > q
    BY DEF PublisherInv, Values, Past
  <2>2. q \in 1 .. started /\ p \in 1 .. started /\ q < p
    BY <2>1, <1>3, <1>4, <1>8, Queues
  <2>3. \A k \in Stored : Reached(k, q)'
    BY <2>1, <2>2, <1>17 DEF PublisherInv, Snapshots
  <2> QED
    BY <2>1, <2>3, <1>4, <1>5, <1>6, <1>7 DEF Past
<1>23. Newest'
  <2>1. started \in 1 .. started /\ started > 0 /\ snapshot[p] <= snapshot[started]
    <3>1. p \in 1 .. started /\ started \in 1 .. started
      BY <1>8, Queues, Numbers DEF Publications
    <3> QED
      BY <3>1, <1>8 DEF PublisherInv, Snapshots
  <2> QED
    BY <2>1, <1>5, <1>9 DEF PublisherInv, Values, Newest
<1>24. InStep'
  <2>1. /\ \A k \in Stored : Rank[k] >= Rank[key] => redis[k] <= snapshot[p]
        /\ \A k \in Stored : Rank[k] < Rank[key] => Reached(k, p)
    BY <1>3, <1>8 DEF Waits
  <2>2. InStep /\ rows' = rows /\ \A v \in rows : v \in Nat
    BY <1>5, Numbers DEF PublisherInv, Values, TypeOK
  <2>3. CASE key = "latest"
    BY <2>1, <2>2, <2>3, <1>8, <1>9, <1>10, Ranks DEF InStep, Stored
  <2>4. CASE key = "version"
    <3>1. redis["latest"] = 0 \/ snapshot[p] <= redis["latest"]
      BY <2>1, <2>4, <1>8, <1>10, Ranks DEF Reached, Stored
    <3>2. \A v \in rows : v <= snapshot[p]
      BY <2>2, <2>4, <1>8, <1>9, <1>10 DEF InStep, Stored
    <3> QED
      BY <2>2, <2>4, <3>1, <3>2, <1>8, <1>9, <1>10, <2>1, Ranks DEF InStep, Stored
  <2>5. CASE key = "notify" \/ key = "encrypted"
    <3>1. snapshot[p] <= redis["version"]
      BY <2>1, <2>5, <1>8, <1>10, Ranks DEF Reached, Stored
    <3> QED
      BY <2>2, <2>5, <3>1, <1>9, <1>10 DEF InStep, Stored
  <2> QED
    BY <2>3, <2>4, <2>5, <1>8 DEF Stored
<1> QED
  BY <1>10, <1>11, <1>12, <1>14, <1>15, <1>21, <1>22, <1>23, <1>24 DEF PublisherInv, Values

(* A publication that leaves the line takes nothing of the others with it.  *)
LEMMA OthersStay ==
  ASSUME PublisherInv, NEW p \in Publications, NEW next \in {"idle"} \cup Stored \cup AfterCommands,
         \A x \in ToSet(line'[1]) \cup ToSet(answers'[1]) :
           x \in ToSet(line[1]) \cup ToSet(answers[1]) /\ x[1] # p,
         ToSet(line'[1]) \subseteq ToSet(line[1]), ToSet(answers'[1]) \subseteq ToSet(answers[1]),
         pc' = [pc EXCEPT ![p] = next],
         UNCHANGED <<started, snapshot, redis>>
  PROVE  /\ Commanded'
         /\ \A q \in Publications : q # p => Past(q)'
         /\ pc' \in [Publications -> {"idle"} \cup Stored \cup AfterCommands]
<1>1. /\ pc' \in [Publications -> {"idle"} \cup Stored \cup AfterCommands]
      /\ \A q \in Publications : q # p => pc'[q] = pc[q]
  BY DEF PublisherInv, TypeOK
<1>2. \A x \in ToSet(line[1]) \cup ToSet(answers[1]) : x[1] \in Publications
  BY OnTheWay
<1>3. Commanded'
  BY <1>1, <1>2 DEF PublisherInv, Values, Commanded, UnderWay, Waits, WasRun, Reached
<1>4. ASSUME NEW q \in Publications, q # p PROVE Past(q)'
  BY <1>1, <1>4 DEF PublisherInv, Values, Past, Reached
<1> QED
  BY <1>1, <1>3, <1>4

(* The answer at the head sends its publication's next command: the others  *)
(* under way, which it was before, it is now behind.                        *)
LEMMA AnswerKeeps ==
  ASSUME PublisherInv, NEW c \in Publications, Answer(c)
  PROVE  PublisherInv'
<1>1. c = 1 /\ answers[1] # <<>>
  BY Queues DEF Answer
<1>2. PICK h : h = Head(answers[1])
  OBVIOUS
<1>3. PICK p, key : p = h[1] /\ key = h[2]
  OBVIOUS
<1>4. /\ line[1] \in Seq(Items) /\ answers[1] \in Seq(Items) /\ h \in Items /\ h \in ToSet(answers[1])
      /\ ToSet(answers[1]) = ToSet(Tail(answers[1])) \cup {h} /\ Tail(answers[1]) \in Seq(Items)
  BY <1>1, <1>2, Queues, Tailed
<1>5. /\ p \in Publications /\ p \in Nat /\ key \in Stored /\ Rank[key] \in 1 .. 4 /\ p <= started
      /\ snapshot[p] \in Nat /\ WasRun(h) /\ started \in Nat /\ pc[p] = key
  BY <1>3, <1>4, OnTheWay, Queues DEF PublisherInv, Values, Commanded
<1>6. PICK next :
        /\ next = IF 1 + Rank[key] > 4 THEN "row"
                  ELSE IF phase = "quit" THEN "failed" ELSE Commands[1 + Rank[key]]
        /\ pc' = [pc EXCEPT ![p] = next]
        /\ line' = IF next \in Stored THEN [line EXCEPT ![1] = Append(@, <<p, next>>)] ELSE line
        /\ answers' = [answers EXCEPT ![1] = Tail(@)]
        /\ UNCHANGED <<version, phase, started, final, snapshot, redis, rows>>
  <2>1. Len(Commands) = 4
    BY <1>5, NextCommand
  <2> DEFINE n == 1 + CHOOSE i \in 1 .. Len(Commands) : Commands[i] = key
             next == IF n > Len(Commands) THEN "row"
                     ELSE IF phase = "quit" THEN "failed" ELSE Commands[n]
  <2>2. /\ pc' = [pc EXCEPT ![p] = next]
        /\ line' = IF next \in Stored THEN [line EXCEPT ![1] = Append(@, <<p, next>>)] ELSE line
        /\ answers' = [answers EXCEPT ![1] = Tail(@)]
        /\ UNCHANGED <<version, phase, started, final, snapshot, redis, rows>>
    BY <1>1, <1>2, <1>3 DEF Answer
  <2>3. n = 1 + Rank[key]
    BY <1>5, NextCommand
  <2> HIDE DEF n
  <2>4. next = IF 1 + Rank[key] > 4 THEN "row"
               ELSE IF phase = "quit" THEN "failed" ELSE Commands[1 + Rank[key]]
    BY <2>1, <2>3
  <2> HIDE DEF next
  <2> QED
    BY <2>2, <2>4
<1>7. /\ next \in {"row", "failed"} \cup Stored
      /\ next = "row" => Rank[key] = 4
      /\ next \in Stored => Rank[next] = Rank[key] + 1
  BY <1>5, <1>6, NextCommand DEF Stored
<1>8. answers'[1] = Tail(answers[1]) /\ answers'[1] \in Seq(Items)
  BY <1>4, <1>6, Numbers DEF PublisherInv, TypeOK
<1>9. /\ Ordered(Tail(answers[1])) /\ \A y \in ToSet(Tail(answers[1])) : InTurn(h, y)
      /\ \A x \in ToSet(line[1]) : InTurn(h, x)
      /\ Ordered(line[1]) /\ Before(Tail(answers[1]), line[1])
  BY <1>1, <1>2, <1>4, OrderedTail DEF PublisherInv, InTurns, Before
<1>10. \A x \in ToSet(line[1]) \cup ToSet(answers'[1]) :
         /\ InTurn(h, x) /\ x \in ToSet(line[1]) \cup ToSet(answers[1])
         /\ x[1] \in Nat /\ Rank[x[2]] \in 1 .. 4
  BY <1>4, <1>8, <1>9, OnTheWay
<1>11. \A x \in ToSet(line[1]) \cup ToSet(answers'[1]) :
         /\ x[1] # p /\ (Rank[key] = 4 => x[1] > p)
         /\ next \in Stored => InTurn(x, <<p, next>>)
  <2> SUFFICES ASSUME NEW x \in ToSet(line[1]) \cup ToSet(answers'[1])
               PROVE  /\ x[1] # p /\ (Rank[key] = 4 => x[1] > p)
                      /\ next \in Stored => InTurn(x, <<p, next>>)
    OBVIOUS
  <2>1. \/ p < x[1] /\ Rank[key] >= Rank[x[2]]
        \/ p > x[1] /\ Rank[key] < Rank[x[2]]
    BY <1>3, <1>10 DEF InTurn
  <2>2. next \in Stored => \/ x[1] < p /\ Rank[x[2]] >= Rank[next]
                           \/ x[1] > p /\ Rank[x[2]] < Rank[next]
    BY <2>1, <1>5, <1>7, <1>10
  <2>3. x[1] # p /\ (Rank[key] = 4 => x[1] > p)
    BY <2>1, <1>5, <1>10
  <2> QED
    BY <2>2, <2>3 DEF InTurn
<1>12. pc' \in [Publications -> {"idle"} \cup Stored \cup AfterCommands] /\ pc'[p] = next
       /\ \A q \in Publications : q # p => pc'[q] = pc[q]
  BY <1>5, <1>6, <1>7 DEF PublisherInv, TypeOK, AfterCommands
<1>13. Snapshots' /\ Newest' /\ InStep'
  BY <1>6 DEF PublisherInv, Values, Snapshots, Newest, InStep
<1>14. LastPhase'
  <2>1. phase = "quit" => final = started /\ pc[final] = "done" /\ final \in Publications
    BY Numbers DEF PublisherInv, LastPhase, TypeOK, Publications
  <2>2. phase = "quit" => final # p
    BY <2>1, <1>5 DEF Stored
  <2> QED
    BY <2>1, <2>2, <1>6, <1>12 DEF PublisherInv, LastPhase
<1>15. answers' \in [Publications -> Seq(Items)]
       /\ \A d \in Publications \ {1} : answers'[d] = <<>>
  BY <1>4, <1>6, <1>8 DEF PublisherInv, TypeOK, Items, OneLine
<1>16. CASE next \in Stored
  <2>1. PICK e : e = <<p, next>>
    OBVIOUS
  <2>2. e \in Items /\ e[1] = p /\ e[2] = next
    BY <2>1, <1>5, <1>16 DEF Items
  <2>3. line' = [line EXCEPT ![1] = Append(@, e)] /\ line'[1] = Append(line[1], e)
    BY <2>1, <1>6, <1>16, Numbers DEF PublisherInv, TypeOK
  <2>4. ToSet(line'[1]) = ToSet(line[1]) \cup {e} /\ line'[1] \in Seq(Items)
    BY <2>2, <2>3, <1>4, Appended
  <2>5. TypeOK'
    BY <2>3, <2>4, <1>6, <1>12, <1>15 DEF PublisherInv, TypeOK, Items
  <2>6. OneLine'
    BY <2>3, <1>15, Numbers DEF PublisherInv, OneLine, TypeOK
  <2>7. InTurns'
    <3>0. \A x \in ToSet(line[1]) : InTurn(x, e)
      BY <2>1, <1>11, <1>16
    <3>1. Ordered(line'[1])
      BY <2>2, <2>3, <3>0, <1>4, <1>9, OrderedAppend
    <3>2. Before(answers'[1], line'[1])
      BY <2>1, <2>4, <1>8, <1>9, <1>11, <1>16 DEF Before
    <3> QED
      BY <3>1, <3>2, <1>8, <1>9 DEF InTurns
  <2>8. UnderWay(e)' /\ Waits(e)'
    <3>1. UnderWay(e)'
      BY <2>2, <1>5, <1>6, <1>12 DEF UnderWay
    <3>2. \A k \in Stored : /\ Rank[k] >= Rank[next] => Rank[k] > Rank[key]
                            /\ Rank[k] < Rank[next] => Rank[k] <= Rank[key]
      BY <1>5, <1>7, <1>16, Ranks
    <3>3. Waits(e)'
      BY <2>2, <3>2, <1>3, <1>5, <1>6 DEF Waits, WasRun, Reached
    <3> QED
      BY <3>1, <3>3
  <2>9. Commanded'
    <3>1. \A x \in ToSet(line[1]) \cup ToSet(answers'[1]) : UnderWay(x)'
      BY <1>6, <1>10, <1>11, <1>12, OnTheWay DEF UnderWay
    <3>2. \A x \in ToSet(line[1]) : Waits(x)'
      BY <1>6 DEF PublisherInv, Values, Commanded, Waits, Reached
    <3>3. \A x \in ToSet(answers'[1]) : WasRun(x)'
      BY <1>4, <1>6, <1>8 DEF PublisherInv, Values, Commanded, WasRun, Reached
    <3> QED
      BY <2>4, <2>8, <3>1, <3>2, <3>3 DEF Commanded
  <2>10. \A q \in Publications : Past(q)'
    <3> SUFFICES ASSUME NEW q \in Publications, pc'[q] \in {"row", "metrics", "done"} PROVE Past(q)'
      BY DEF Past
    <3>1. q # p /\ pc[q] = pc'[q]
      BY <1>12, <1>16 DEF Stored
    <3>2. Past(q) /\ p > q
      BY <3>1, <1>3, <1>4 DEF PublisherInv, Values, Past
    <3> QED
      BY <3>1, <3>2, <2>2, <2>4, <1>4, <1>6, <1>8 DEF Past, Reached
  <2> QED
    BY <2>5, <2>6, <2>7, <2>9, <2>10, <1>13, <1>14 DEF PublisherInv, Values
<1>17. CASE next \in {"row", "failed"}
  <2>1. line' = line /\ next \in AfterCommands
    BY <1>6, <1>17 DEF Stored, AfterCommands
  <2>2. TypeOK' /\ OneLine'
    BY <2>1, <1>6, <1>12, <1>15 DEF PublisherInv, TypeOK, Items, OneLine
  <2>3. InTurns'
    BY <2>1, <1>8, <1>9 DEF InTurns
  <2>4. Commanded' /\ \A q \in Publications : q # p => Past(q)'
    BY <2>1, <1>4, <1>5, <1>6, <1>8, <1>10, <1>11, OthersStay
  <2>5. Past(p)'
    <3> SUFFICES ASSUME pc'[p] \in {"row", "metrics", "done"} PROVE Past(p)'
      BY DEF Past
    <3>1. Rank[key] = 4
      BY <1>7, <1>12, <1>17
    <3>2. \A k \in Stored : Rank[k] <= Rank[key]
      BY <3>1, Ranks
    <3>3. \A k \in Stored : Reached(k, p)'
      BY <3>2, <1>3, <1>5, <1>6 DEF WasRun, Reached
    <3> QED
      BY <2>1, <3>1, <3>3, <1>5, <1>6, <1>11 DEF Past
  <2> QED
    BY <2>2, <2>3, <2>4, <2>5, <1>13, <1>14 DEF PublisherInv, Values
<1> QED
  BY <1>7, <1>16, <1>17

(* A command refused or lost takes its publication off the line.            *)
LEMMA RefuseKeeps ==
  ASSUME PublisherInv, NEW c \in Publications, Refuse(c)
  PROVE  PublisherInv'
<1>1. c = 1 /\ line[1] # <<>>
  BY Queues DEF Refuse
<1>2. PICK h : h = Head(line[1])
  OBVIOUS
<1>3. PICK p : p = h[1]
  OBVIOUS
<1>4. /\ line[1] \in Seq(Items) /\ h \in ToSet(line[1])
      /\ ToSet(line[1]) = ToSet(Tail(line[1])) \cup {h} /\ Tail(line[1]) \in Seq(Items)
      /\ Ordered(Tail(line[1])) /\ \A y \in ToSet(Tail(line[1])) : InTurn(h, y)
  BY <1>1, <1>2, Queues, Tailed, OrderedTail DEF PublisherInv, InTurns
<1>5. /\ p \in Publications /\ p \in Nat /\ pc[p] \in Stored
  BY <1>3, <1>4, OnTheWay
<1>6. /\ line' = [line EXCEPT ![1] = Tail(@)]
      /\ pc' = [pc EXCEPT ![p] = "failed"]
      /\ UNCHANGED <<version, phase, started, final, snapshot, answers, redis, rows>>
  BY <1>1, <1>2, <1>3, <1>5 DEF Refuse, Fail, PublisherInv, TypeOK
<1>7. line'[1] = Tail(line[1])
  BY <1>6, Numbers DEF PublisherInv, TypeOK
<1>8. \A x \in ToSet(line'[1]) \cup ToSet(answers'[1]) :
        x \in ToSet(line[1]) \cup ToSet(answers[1]) /\ x[1] # p
  <2>1. \A x \in ToSet(line'[1]) : x \in ToSet(line[1]) /\ InTurn(h, x) /\ x[1] \in Nat
    BY <1>4, <1>7, OnTheWay
  <2>2. \A x \in ToSet(answers[1]) : InTurn(x, h) /\ x[1] \in Nat
    BY <1>4, OnTheWay DEF PublisherInv, InTurns, Before
  <2> QED
    BY <2>1, <2>2, <1>3, <1>5, <1>6 DEF InTurn
<1>9. /\ Commanded' /\ \A q \in Publications : q # p => Past(q)'
      /\ pc' \in [Publications -> {"idle"} \cup Stored \cup AfterCommands] /\ pc'[p] = "failed"
  <2>1. pc'[p] = "failed" /\ "failed" \in AfterCommands
    BY <1>5, <1>6 DEF PublisherInv, TypeOK, AfterCommands
  <2>2. ToSet(line'[1]) \subseteq ToSet(line[1]) /\ ToSet(answers'[1]) \subseteq ToSet(answers[1])
    BY <1>4, <1>6, <1>7
  <2> QED
    BY <2>1, <2>2, <1>5, <1>6, <1>8, OthersStay
<1>10. Past(p)'
  BY <1>9 DEF Past
<1>11. TypeOK' /\ OneLine'
  <2>1. line' \in [Publications -> Seq(Items)]
    BY <1>4, <1>6, <1>7 DEF PublisherInv, TypeOK, Items
  <2> QED
    BY <2>1, <1>6, <1>9 DEF PublisherInv, TypeOK, OneLine, Items
<1>12. InTurns'
  BY <1>4, <1>6, <1>7 DEF PublisherInv, InTurns, Before
<1>13. Snapshots' /\ Newest' /\ InStep'
  BY <1>6 DEF PublisherInv, Values, Snapshots, Newest, InStep
<1>14. LastPhase'
  <2>1. phase = "quit" => final = started /\ pc[final] = "done" /\ final \in Publications
    BY Numbers DEF PublisherInv, LastPhase, TypeOK, Publications
  <2>2. phase = "quit" => final # p /\ pc'[final] = pc[final]
    BY <2>1, <1>5, <1>6 DEF Stored, PublisherInv, TypeOK
  <2> QED
    BY <2>1, <2>2, <1>6 DEF PublisherInv, LastPhase
<1> QED
  BY <1>9, <1>10, <1>11, <1>12, <1>13, <1>14 DEF PublisherInv, Values

LEMMA DisconnectKeeps ==
  ASSUME PublisherInv, NEW c \in Publications, Disconnect(c)
  PROVE  PublisherInv'
<1>1. c = 1
  <2>1. line[c] = <<>> /\ answers[c] = <<>> => line[c] \o answers[c] = <<>>
    OBVIOUS
  <2> QED
    BY <2>1, Queues DEF Disconnect
<1>2. PICK lost : lost = {x[1] : x \in ToSet(line[1] \o answers[1])}
  OBVIOUS
<1>3. ToSet(line[1] \o answers[1]) = ToSet(line[1]) \cup ToSet(answers[1])
  BY Queues, Joined
<1>4. \A p \in lost : p \in Publications /\ pc[p] \in Stored
  BY <1>2, <1>3, OnTheWay
<1>5. /\ line' = [line EXCEPT ![1] = <<>>] /\ answers' = [answers EXCEPT ![1] = <<>>]
      /\ pc' = Fail(lost)
      /\ UNCHANGED <<version, phase, started, final, snapshot, redis, rows>>
  BY <1>1, <1>2 DEF Disconnect
<1>6. /\ \A p \in Publications : pc'[p] = (IF p \in lost THEN "failed" ELSE pc[p])
      /\ pc' \in [Publications -> {"idle"} \cup Stored \cup AfterCommands]
  BY <1>5 DEF Fail, PublisherInv, TypeOK, AfterCommands
<1>7. line'[1] = <<>> /\ answers'[1] = <<>>
  BY <1>5, Numbers DEF PublisherInv, TypeOK
<1>8. /\ ToSet(line'[1]) = {} /\ ToSet(answers'[1]) = {}
      /\ DOMAIN line'[1] = {} /\ DOMAIN answers'[1] = {}
  BY <1>7 DEF ToSet
<1>9. InTurns' /\ Commanded'
  BY <1>8 DEF InTurns, Ordered, Before, Commanded
<1>10. \A p \in Publications : Past(p)'
  BY <1>5, <1>6, <1>8 DEF PublisherInv, Values, Past, Reached
<1>11. TypeOK' /\ OneLine'
  <2>1. /\ line' \in [Publications -> Seq(Publications \X Stored)]
        /\ answers' \in [Publications -> Seq(Publications \X Stored)]
    <3>1. <<>> \in Seq(Publications \X Stored)
      OBVIOUS
    <3> QED
      BY <3>1, <1>5 DEF PublisherInv, TypeOK
  <2>2. TypeOK'
    BY <2>1, <1>5, <1>6 DEF PublisherInv, TypeOK
  <2> QED
    BY <2>2, <1>5 DEF PublisherInv, TypeOK, OneLine
<1>12. Snapshots' /\ Newest' /\ InStep'
  BY <1>5 DEF PublisherInv, Values, Snapshots, Newest, InStep
<1>13. LastPhase'
  <2>1. phase = "quit" => final = started /\ pc[final] = "done" /\ final \in Publications
    BY Numbers DEF PublisherInv, LastPhase, TypeOK, Publications
  <2>2. phase = "quit" => final \notin lost /\ pc'[final] = pc[final]
    BY <2>1, <1>4, <1>6 DEF Stored
  <2> QED
    BY <2>1, <2>2, <1>5 DEF PublisherInv, LastPhase
<1> QED
  BY <1>9, <1>10, <1>11, <1>12, <1>13 DEF PublisherInv, Values

(* The database is written by a publication past its commands.              *)
LEMMA PublishKeeps ==
  ASSUME PublisherInv, NEW p \in Publications, Publish(p)
  PROVE  PublisherInv'
<1>1. PICK next \in {"metrics", "done", "failed"} :
        /\ pc[p] \in {"row", "metrics"} /\ pc' = [pc EXCEPT ![p] = next]
        /\ rows' = rows \/ rows' = rows \cup {snapshot[p]}
        /\ UNCHANGED <<version, phase, started, final, snapshot, line, answers, redis>>
  BY DEF Publish, WriteSnapshot, WriteMetrics
<1>2. /\ pc' \in [Publications -> {"idle"} \cup Stored \cup AfterCommands]
      /\ pc'[p] = next /\ \A q \in Publications : q # p => pc'[q] = pc[q]
  BY <1>1 DEF PublisherInv, TypeOK, AfterCommands
<1>3. Past(p) /\ pc[p] \in {"row", "metrics", "done"}
  BY <1>1 DEF PublisherInv, Values
<1>4. \A x \in ToSet(line[1]) \cup ToSet(answers[1]) : x[1] # p /\ x[1] \in Publications
  <2>1. \A x \in ToSet(line[1]) \cup ToSet(answers[1]) : pc[x[1]] \in Stored /\ x[1] \in Publications
    BY OnTheWay
  <2> QED
    BY <2>1, <1>3 DEF Stored
<1>5. Commanded'
  BY <1>1, <1>2, <1>4 DEF PublisherInv, Values, Commanded, UnderWay, Waits, WasRun, Reached
<1>6. \A q \in Publications : Past(q)'
  BY <1>1, <1>2, <1>3 DEF PublisherInv, Values, Past, Reached
<1>7. TypeOK'
  BY <1>1, <1>2 DEF PublisherInv, TypeOK
<1>8. OneLine' /\ InTurns' /\ Snapshots' /\ Newest'
  BY <1>1 DEF PublisherInv, Values, OneLine, InTurns, Ordered, Before, InTurn, Snapshots, Newest
<1>9. InStep'
  <2>1. redis["version"] >= snapshot[p]
    BY <1>3 DEF Past, Reached, Stored
  <2>2. snapshot[p] <= redis["version"]
    BY <2>1, OnTheWay DEF Stored
  <2> QED
    BY <2>2, <1>1 DEF PublisherInv, Values, InStep
<1>10. LastPhase'
  <2>1. phase = "quit" => final = started /\ pc[final] = "done" /\ final \in Publications
    BY Numbers DEF PublisherInv, LastPhase, TypeOK, Publications
  <2> QED
    BY <2>1, <1>1, <1>2 DEF PublisherInv, LastPhase
<1> QED
  BY <1>5, <1>6, <1>7, <1>8, <1>9, <1>10 DEF PublisherInv, Values

-----------------------------------------------------------------------------
LEMMA PublisherSteps == PublisherInv /\ [Next]_vars => PublisherInv'
<1> SUFFICES ASSUME PublisherInv, [Next]_vars PROVE PublisherInv'
  OBVIOUS
<1>1. CASE Update \/ Continue \/ Stop
  BY <1>1, MainKeeps
<1>2. CASE Start(started + 1)
  BY <1>2, StartKeeps
<1>3. CASE \E c \in Publications : Serve(c) \/ Answer(c)
  BY <1>3, ExecuteKeeps, RefuseKeeps, DisconnectKeeps, AnswerKeeps DEF Serve
<1>4. CASE \E p \in Publications : Publish(p)
  BY <1>4, PublishKeeps
<1>5. CASE \E key \in Stored : Expire(key)
  BY <1>5, ExpireKeeps
<1>6. CASE UNCHANGED vars
  BY <1>6 DEF vars, PublisherInv, TypeOK, OneLine, InTurns, Ordered, Before, InTurn, Snapshots, Values,
    Commanded, UnderWay, Waits, WasRun, Reached, Past, Newest, InStep, LastPhase
<1> QED
  BY <1>1, <1>2, <1>3, <1>4, <1>5, <1>6 DEF Next

LEMMA PublisherHolds == Spec => []PublisherInv
<1>1. Init => PublisherInv
  BY PublisherStarts
<1>2. PublisherInv /\ [Next]_vars => PublisherInv'
  BY PublisherSteps
<1> QED
  BY <1>1, <1>2, PTL DEF Spec

(* Publications, connections, answers and keys keep to their types, however *)
(* publish() overlaps with itself and with lost connections.                *)
THEOREM PublisherTypes == Spec => []TypeOK
<1>1. PublisherInv => TypeOK
  BY DEF PublisherInv
<1> QED
  BY <1>1, PublisherHolds, PTL

(* A reader told of a version, or who finds it in another key or in the     *)
(* database, finds that state or a newer one under "latest", unless it has  *)
(* expired: publish() and writeSnapshot() in whatever overlap and failure.  *)
THEOREM PublishedInStep == Spec => []InStep
<1>1. PublisherInv => InStep
  BY DEF PublisherInv, Values
<1> QED
  BY <1>1, PublisherHolds, PTL

(* No publication takes a key back to a state older than the one in it.     *)
THEOREM PublishedForward == Spec => KeysGoForward
<1>1. PublisherInv /\ [Next]_vars =>
        [\A key \in Stored : redis'[key] # 0 => redis'[key] >= redis[key]]_vars
  <2> SUFFICES ASSUME PublisherInv, Next, NEW key \in Stored, redis'[key] # 0
               PROVE  redis'[key] >= redis[key]
    BY DEF vars
  <2>1. redis[key] \in Nat
    BY OnTheWay
  <2>2. CASE redis' = redis
    BY <2>1, <2>2
  <2>3. CASE \E c \in Publications : Execute(c)
    BY <2>3, ExecuteKeeps
  <2>4. CASE \E k \in Stored : Expire(k)
    BY <2>4, ExpireKeeps
  <2> QED
    BY <2>2, <2>3, <2>4 DEF Next, Update, Start, Serve, Refuse, Disconnect, Answer, Publish, WriteSnapshot,
      WriteMetrics, Continue, Stop
<1> QED
  BY <1>1, PublisherHolds, PTL DEF Spec, KeysGoForward

(* After an orderly end nothing still under way overwrites the last state:  *)
(* every key holds the snapshot of main's last publication, or has expired. *)
THEOREM LastStateStands == Spec => []FinalStands
<1>1. PublisherInv => FinalStands
  <2> SUFFICES ASSUME PublisherInv, phase = "quit", NEW key \in Stored
               PROVE  redis[key] \in {0, snapshot[final]}
    BY DEF FinalStands
  <2>1. final = started /\ pc[final] = "done" /\ final \in Publications
    BY Numbers DEF PublisherInv, LastPhase, TypeOK, Publications
  <2>2. Reached(key, final) /\ (redis[key] # 0 => redis[key] <= snapshot[final])
    BY <2>1 DEF PublisherInv, Values, Past, Newest
  <2>3. redis[key] \in Nat /\ snapshot[final] \in Nat
    BY <2>1, OnTheWay
  <2> QED
    BY <2>2, <2>3 DEF Reached
<1> QED
  BY <1>1, PublisherHolds, PTL
=============================================================================
