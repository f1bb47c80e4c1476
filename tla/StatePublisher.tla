---------------------------- MODULE StatePublisher -----------------------------
(***************************************************************************)
(* Publication of the market state (phase1-cli.ts, market-state-publisher.  *)
(* ts, redis-publisher.ts, timescale-writer.ts).  A timer starts a          *)
(* publication whether or not the one before it has ended: each takes its   *)
(* snapshot, sends four commands to Redis one after the other's answer and  *)
(* then writes to the time-series database.  All of them share one Redis    *)
(* client, whose connection executes and answers commands in the order they *)
(* were sent.  A state is told apart by its version only.                   *)
(***************************************************************************)
EXTENDS Naturals, Sequences, SequencesExt

CONSTANTS
  MaxPublications,   \* bound: publications in the life of the process
  MaxVersion         \* bound: changes of the store

ASSUME PublisherAssumption ==
  MaxPublications \in Nat \ {0} /\ MaxVersion \in Nat \ {0}

Publications == 1 .. MaxPublications
Versions == 0 .. MaxVersion

(* Fault: the version is written before the state it is the version of.     *)
CommandsVersionFirst == <<"version", "latest", "notify", "encrypted">>

(* publish() and, the encryption key being set, publishEncrypted().         *)
Commands == <<"latest", "version", "notify", "encrypted">>

Stored == {"latest", "version", "notify", "encrypted"}
AfterCommands == {"row", "metrics", "done", "failed"}

VARIABLES
  version,    \* of the market state store
  phase,      \* main: first publication, timers, none, last publication, ended
  started,    \* publications started
  final,      \* the last publication, 0 before it starts
  snapshot,   \* publication |-> the version it publishes
  pc,         \* publication |-> command it awaits, or where it is after them
  line,       \* connection |-> commands not yet executed
  answers,    \* connection |-> commands executed and not yet answered
  redis,      \* key |-> version in it, 0 if absent; "notify": last one announced
  rows        \* versions in market_snapshots

vars == <<version, phase, started, final, snapshot, pc, line, answers, redis, rows>>

TypeOK ==
  /\ version \in Versions
  /\ phase \in {"first", "running", "stopping", "final", "quit", "exited"}
  /\ started \in 0 .. MaxPublications
  /\ final \in 0 .. MaxPublications
  /\ snapshot \in [Publications -> Versions]
  /\ pc \in [Publications -> {"idle"} \cup Stored \cup AfterCommands]
  /\ line \in [Publications -> Seq(Publications \X Stored)]
  /\ answers \in [Publications -> Seq(Publications \X Stored)]
  /\ redis \in [Stored -> Versions]
  /\ rows \subseteq Versions

(* bootstrap has counted the store's version to 1.                          *)
Init ==
  /\ version = 1
  /\ phase = "first"
  /\ started = 0
  /\ final = 0
  /\ snapshot = [p \in Publications |-> 0]
  /\ pc = [p \in Publications |-> "idle"]
  /\ line = [c \in Publications |-> <<>>]
  /\ answers = [c \in Publications |-> <<>>]
  /\ redis = [k \in Stored |-> 0]
  /\ rows = {}

(* Fault: init() is not guarded, each publication connects for itself.      *)
ConnOfItsOwn(p) == p

(* init(): once ready, the client of the first publication.                 *)
Conn(p) == 1

(* A tick, a trade, a sentiment update.                                     *)
Update ==
  /\ version < MaxVersion
  /\ version' = version + 1
  /\ UNCHANGED <<phase, started, final, snapshot, pc, line, answers, redis, rows>>

(* When main calls publishState.                                            *)
CanStart(p) ==
  /\ p \in Publications
  /\ \/ phase = "first" /\ started = 0 /\ UNCHANGED <<phase, final>>
     \/ phase = "running" /\ p < MaxPublications /\ UNCHANGED <<phase, final>>
     \/ phase = "stopping" /\ phase' = "final" /\ final' = p

Send(p) == line' = [line EXCEPT ![Conn(p)] = Append(@, <<p, Commands[1]>>)]

(* publishState: the snapshot is taken, the first command sent.             *)
Start(p) ==
  /\ CanStart(p)
  /\ started' = p
  /\ snapshot' = [snapshot EXCEPT ![p] = version]
  /\ pc' = [pc EXCEPT ![p] = Commands[1]]
  /\ Send(p)
  /\ UNCHANGED <<version, answers, redis, rows>>

(* Redis executes the oldest command of a connection.                       *)
Execute(c) ==
  /\ line[c] # <<>>
  /\ LET p == Head(line[c])[1]
         key == Head(line[c])[2]
     IN redis' = [redis EXCEPT ![key] = snapshot[p]]
  /\ line' = [line EXCEPT ![c] = Tail(@)]
  /\ answers' = [answers EXCEPT ![c] = Append(@, Head(line[c]))]
  /\ UNCHANGED <<version, phase, started, final, snapshot, pc, rows>>

(* Its answer: the next command is sent, which a client that has been told  *)
(* to quit refuses; after the last comes the database.                      *)
Answer(c) ==
  /\ answers[c] # <<>> /\ phase # "exited"
  /\ answers' = [answers EXCEPT ![c] = Tail(@)]
  /\ LET p == Head(answers[c])[1]
         n == 1 + CHOOSE i \in 1 .. Len(Commands) : Commands[i] = Head(answers[c])[2]
         next == IF n > Len(Commands) THEN "row"
                 ELSE IF phase = "quit" THEN "failed" ELSE Commands[n]
     IN /\ pc' = [pc EXCEPT ![p] = next]
        /\ line' = IF next \in Stored
                   THEN [line EXCEPT ![c] = Append(@, <<p, next>>)]
                   ELSE line
  /\ UNCHANGED <<version, phase, started, final, snapshot, redis, rows>>

Fail(ps) == [p \in Publications |-> IF p \in ps THEN "failed" ELSE pc[p]]

(* Fault: the error goes to the client's error handler and nowhere else.    *)
RefuseUnheard(c) ==
  /\ line[c] # <<>>
  /\ line' = [line EXCEPT ![c] = Tail(@)]
  /\ UNCHANGED <<version, phase, started, final, snapshot, pc, answers, redis, rows>>

(* Redis refuses a command: publish() throws and the rest is not sent.      *)
Refuse(c) ==
  /\ line[c] # <<>> /\ phase # "exited"
  /\ line' = [line EXCEPT ![c] = Tail(@)]
  /\ pc' = Fail({Head(line[c])[1]})
  /\ UNCHANGED <<version, phase, started, final, snapshot, answers, redis, rows>>

(* The connection is lost: commands under way are rejected, executed or not;*)
(* the client connects again.                                               *)
Disconnect(c) ==
  /\ phase # "exited"
  /\ line[c] \o answers[c] # <<>>
  /\ pc' = Fail({x[1] : x \in ToSet(line[c] \o answers[c])})
  /\ line' = [line EXCEPT ![c] = <<>>]
  /\ answers' = [answers EXCEPT ![c] = <<>>]
  /\ UNCHANGED <<version, phase, started, final, snapshot, redis, rows>>

(* writeSnapshot: one transaction on a connection of its own.               *)
WriteSnapshot(p) ==
  /\ pc[p] = "row" /\ phase # "exited"
  /\ \/ /\ rows' = rows \cup {snapshot[p]}
        /\ \E next \in {"metrics", "failed"} : pc' = [pc EXCEPT ![p] = next]
     \/ /\ pc' = [pc EXCEPT ![p] = "failed"]
        /\ UNCHANGED rows
  /\ UNCHANGED <<version, phase, started, final, snapshot, line, answers, redis>>

WriteMetrics(p) ==
  /\ pc[p] = "metrics" /\ phase # "exited"
  /\ \E next \in {"done", "failed"} : pc' = [pc EXCEPT ![p] = next]
  /\ UNCHANGED <<version, phase, started, final, snapshot, line, answers, redis, rows>>

(* The two keys with EX 3600.                                               *)
Expire(key) ==
  /\ key \in {"latest", "encrypted"}
  /\ redis[key] # 0
  /\ redis' = [redis EXCEPT ![key] = 0]
  /\ UNCHANGED <<version, phase, started, final, snapshot, pc, line, answers, rows>>

(* main awaits the first publication and the last, no other; when one of    *)
(* these two fails the process exits.                                       *)
Awaited ==
  \/ phase = "first" /\ pc[1] = "done" /\ phase' = "running"
  \/ phase = "final" /\ pc[final] = "done" /\ phase' = "quit"
  \/ phase = "first" /\ pc[1] = "failed" /\ phase' = "exited"
  \/ phase = "final" /\ pc[final] = "failed" /\ phase' = "exited"

Continue ==
  /\ Awaited
  /\ UNCHANGED <<version, started, final, snapshot, pc, line, answers, redis, rows>>

(* The time is up: clearInterval.                                           *)
Stop ==
  /\ phase = "running"
  /\ phase' = "stopping"
  /\ UNCHANGED <<version, started, final, snapshot, pc, line, answers, redis, rows>>

Publish(p) == WriteSnapshot(p) \/ WriteMetrics(p)
Serve(c) == Execute(c) \/ Refuse(c) \/ Disconnect(c)

Next ==
  \/ Update
  \/ Start(started + 1)
  \/ \E c \in Publications : Serve(c) \/ Answer(c)
  \/ \E p \in Publications : Publish(p)
  \/ \E key \in Stored : Expire(key)
  \/ Continue
  \/ Stop

Spec == Init /\ [][Next]_vars

(* Redis and the database answer, in whatever way, and main goes on.        *)
FairSpec ==
  /\ Spec
  /\ WF_vars(Start(started + 1))
  /\ WF_vars(Continue)
  /\ \A c \in Publications : WF_vars(Serve(c)) /\ WF_vars(Answer(c))
  /\ \A p \in Publications : WF_vars(Publish(p))

-----------------------------------------------------------------------------
(* Properties.                                                              *)

(* However publications overlap and fail, a reader who is told of a version,*)
(* or finds it in the version key, in the encrypted copy or in the database,*)
(* finds that state or a newer one under "latest", unless it has expired.   *)
InStep ==
  /\ redis["latest"] = 0 \/ redis["version"] <= redis["latest"]
  /\ redis["notify"] <= redis["version"]
  /\ redis["encrypted"] <= redis["version"]
  /\ \A v \in rows : v <= redis["version"]

(* No key is taken back to an older state by a publication that started     *)
(* before the one that wrote it.                                            *)
KeysGoForward ==
  [][\A key \in Stored : redis'[key] # 0 => redis'[key] >= redis[key]]_vars

(* A process that ended in order leaves its last state behind: nothing that *)
(* was still under way at the end overwrites it.                            *)
FinalStands ==
  phase = "quit" =>
    \A key \in Stored : redis[key] \in {0, snapshot[final]}

(* The process ends once its time is up, whatever its publications meet.    *)
RunEnds == phase = "stopping" ~> phase \in {"quit", "exited"}
=============================================================================
