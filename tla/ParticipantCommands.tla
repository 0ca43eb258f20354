-------------------------- MODULE ParticipantCommands --------------------------
(******************************************************************************)
(* The participants command handler of the switch: the processes of one Kafka *)
(* consumer group that take commands from the topic ParticipantCommands, run  *)
(* them on the aggregate ParticpantsAgg, publish what the aggregate decided   *)
(* and keep each participant's net position.                                  *)
(*                                                                            *)
(* A position exists in up to four copies: in the memory of every process     *)
(* that ever loaded the participant, in redis, in the state events of the     *)
(* topic ParticipantStateEvents and in the snapshots.  The handler changes    *)
(* the in-memory copy in place, publishes, then writes redis, then commits    *)
(* the offset of the command; a failure or a crash may fall between any two   *)
(* of these.                                                                  *)
(******************************************************************************)
EXTENDS Integers, Sequences, FiniteSets

CONSTANTS
    Participant,     \* ids of the participants (FSPs)
    Transfer,        \* ids of the transfers
    Proc,            \* processes of the command handler's consumer group
    Partition,       \* partitions of the command topic
    Payer, Payee,    \* Transfer -> Participant
    Amount,          \* Transfer -> Int, what the transfer request asks for
    Accounts,        \* pairs <<x, t>>: x has a position account in t's currency
    Limit,           \* Participant -> net debit cap, or Absent
    InitialPosition, \* Participant -> position a participant is created with
    Registered,      \* participants that exist at the start
    FundsPartition,  \* Participant -> partition of its Reserve/Commit commands
    KeyPartition,    \* Participant -> partition the hash of its id selects
    Direct,          \* Reserve and Commit commands a test tool appends by itself
    InitialOwner,    \* Partition -> process the group starts with
    Absent,          \* no state, no limit
    NoCmd,           \* no command in hand
    MaxCopies,       \* bound: times a command is appended to the topic
    MaxTopic,        \* bound: messages in a partition of the topic
    FaultKinds,      \* kinds of failure this instance may meet
    MaxFaults        \* bound: failures in one behaviour

FundsOp  == {"Reserve", "Commit"}
ManageOp == {"Create", "Snapshot"}
Command  == [op : FundsOp, t : Transfer] \union [op : ManageOp, id : Participant]
Pos      == Int
MaybePos == Pos \union {Absent}

EventName == {"PayerFundsReserved", "PayeeFundsCommitted", "NetCapLimitExceeded",
              "InvalidParticipant", "ParticipantCreated", "DuplicateParticipant"}
StateEventName == {"CreatedState", "PositionChangedState", "StateSnapshot"}
Fault == {"crash", "rebalance", "read", "publish", "store", "commit"}
FaultRecord == [count : Nat, kinds : SUBSET Fault]

ASSUME ConstantsAssumption ==
    /\ Payer \in [Transfer -> Participant]
    /\ Payee \in [Transfer -> Participant]
    /\ Amount \in [Transfer -> Int]
    /\ Limit \in [Participant -> MaybePos]
    /\ InitialPosition \in [Participant -> Pos]
    /\ Registered \subseteq Participant
    /\ FundsPartition \in [Participant -> Partition]
    /\ KeyPartition \in [Participant -> Partition]
    /\ Direct \subseteq [op : FundsOp, t : Transfer]
    /\ \A c \in Direct : Amount[c.t] > 0
    /\ InitialOwner \in [Partition -> Proc]
    /\ Absent \notin Int
    /\ NoCmd \notin Command
    /\ MaxCopies \in Nat
    /\ MaxTopic \in Nat
    /\ FaultKinds \subseteq Fault
    /\ MaxFaults \in Nat

VARIABLES
    topic,      \* Partition -> the commands appended to it
    committed,  \* Partition -> offset up to which the group has committed
    next,       \* Partition -> offset up to which its owner has fetched
    owner,      \* Partition -> process it is assigned to
    pc,         \* Proc -> where its handler stands
    cur,        \* Proc -> command in hand
    off,        \* Proc -> offset of that command
    root,       \* Proc -> position of the loaded root entity
    evt,        \* Proc -> uncommitted domain event, or "none"
    stateEvt,   \* Proc -> state event to publish with it, or "none"
    memory,     \* Proc -> Participant -> position in the repository's Map
    redis,      \* Participant -> position persisted in redis
    stateLog,   \* Participant -> positions of its state events, oldest first
    snapshots,  \* Participant -> positions of its snapshot events
    domainLog,  \* Command x EventName -> copies of the event published
    faults      \* failures so far: how many, and of which kinds

groupVars  == <<topic, committed, next, owner>>
handVars   == <<pc, cur, off, root, evt, stateEvt>>
logVars    == <<stateLog, snapshots, domainLog>>
vars == <<topic, committed, next, owner, pc, cur, off, root, evt, stateEvt,
          memory, redis, stateLog, snapshots, domainLog, faults>>

--------------------------------------------------------------------------------
(* Commands *)

\* The aggregate a command loads, and the other participant it looks up.
Root(c) == IF c.op = "Reserve" THEN Payer[c.t]
           ELSE IF c.op = "Commit" THEN Payee[c.t] ELSE c.id
Counterparty(c) == IF c.op = "Reserve" THEN Payee[c.t] ELSE Payer[c.t]

\* Reserve and Commit carry the participant's own partition; Create, Snapshot
\* and what a test tool sends carry none: the hash of the key selects it.
PartitionOf(c) == IF c.op \in ManageOp \/ c \in Direct THEN KeyPartition[Root(c)]
                                                     ELSE FundsPartition[Root(c)]

Copies(c) == Cardinality({i \in DOMAIN topic[PartitionOf(c)] :
                             topic[PartitionOf(c)][i] = c})

Cmd(op, t) == [op |-> op, t |-> t]

HasAccount(x, t) == <<x, t>> \in Accounts

\* Mutant: the cap itself may be reached.
ReserveRulingUpTo(x, t, pos) ==
    IF Amount[t] <= 0 THEN "NetCapLimitExceeded"
    ELSE IF ~HasAccount(x, t) \/ Limit[x] = Absent THEN "InvalidParticipant"
    ELSE IF pos + Amount[t] <= Limit[x] THEN "PayerFundsReserved"
    ELSE "NetCapLimitExceeded"

(* The checks of ParticipantEntity.reserveFunds, in the order the code makes  *)
(* them: a malformed amount is reported as an exceeded cap.                   *)
ReserveRuling(x, t, pos) ==
    IF Amount[t] <= 0 THEN "NetCapLimitExceeded"
    ELSE IF ~HasAccount(x, t) \/ Limit[x] = Absent THEN "InvalidParticipant"
    ELSE IF pos + Amount[t] < Limit[x] THEN "PayerFundsReserved"
    ELSE "NetCapLimitExceeded"

--------------------------------------------------------------------------------
TypeOK ==
    /\ topic \in [Partition -> Seq(Command)]
    /\ committed \in [Partition -> Nat]
    /\ next \in [Partition -> Nat]
    /\ owner \in [Partition -> Proc]
    /\ pc \in [Proc -> {"idle", "load", "handle", "publish", "republish",
                        "store", "commit", "halted"}]
    /\ cur \in [Proc -> Command \union {NoCmd}]
    /\ off \in [Proc -> Nat]
    /\ root \in [Proc -> MaybePos]
    /\ evt \in [Proc -> EventName \union {"none"}]
    /\ stateEvt \in [Proc -> StateEventName \union {"none"}]
    /\ memory \in [Proc -> [Participant -> MaybePos]]
    /\ redis \in [Participant -> MaybePos]
    /\ stateLog \in [Participant -> Seq(Pos)]
    /\ snapshots \in [Participant -> Seq(Pos)]
    /\ domainLog \in [Command \X EventName -> Nat]
    /\ faults \in FaultRecord
    /\ \A p \in Proc : pc[p] \notin {"idle", "halted"} => cur[p] \in Command

Init ==
    /\ topic = [q \in Partition |-> <<>>]
    /\ committed = [q \in Partition |-> 0]
    /\ next = [q \in Partition |-> 0]
    /\ owner = InitialOwner
    /\ pc = [p \in Proc |-> "idle"]
    /\ cur = [p \in Proc |-> NoCmd]
    /\ off = [p \in Proc |-> 0]
    /\ root = [p \in Proc |-> Absent]
    /\ evt = [p \in Proc |-> "none"]
    /\ stateEvt = [p \in Proc |-> "none"]
    /\ memory = [p \in Proc |-> [x \in Participant |-> Absent]]
    /\ redis = [x \in Participant |-> IF x \in Registered THEN InitialPosition[x]
                                                          ELSE Absent]
    /\ stateLog = [x \in Participant |-> IF x \in Registered
                                         THEN <<InitialPosition[x]>> ELSE <<>>]
    /\ snapshots = [x \in Participant |-> <<>>]
    /\ domainLog = [e \in Command \X EventName |-> 0]
    /\ faults = [count |-> 0, kinds |-> {}]

--------------------------------------------------------------------------------
(* Upstream: the participants event handler and the snapshot operator *)

\* participantEvtHandler appends a Reserve or Commit only after it found the
\* participant's partition in its repository, a Commit only once the transfer
\* was reserved; the snapshot operator knows the ids of the state events.
CanProduce(c) ==
    \/ c \in Direct
    \/ c.op = "Create"
    \/ c.op = "Snapshot" /\ stateLog[c.id] # <<>>
    \/ c.op = "Reserve" /\ redis[Payer[c.t]] # Absent
    \/ /\ c.op = "Commit"
       /\ redis[Payee[c.t]] # Absent
       /\ domainLog[<<Cmd("Reserve", c.t), "PayerFundsReserved">>] > 0

Produce(c) ==
    /\ Copies(c) < MaxCopies
    /\ Len(topic[PartitionOf(c)]) < MaxTopic
    /\ CanProduce(c)
    /\ topic' = [topic EXCEPT ![PartitionOf(c)] = Append(@, c)]
    /\ UNCHANGED <<committed, next, owner, handVars, memory, redis, logVars, faults>>

--------------------------------------------------------------------------------
(* The consumer loop: one message at a time *)

\* Mutant: the next message is fetched once the last offset is committed.
FetchAfterCommit(p, q) ==
    /\ pc[p] = "idle"
    /\ owner[q] = p
    /\ next[q] = committed[q]
    /\ next[q] < Len(topic[q])
    /\ next' = [next EXCEPT ![q] = @ + 1]
    /\ cur' = [cur EXCEPT ![p] = topic[q][next[q] + 1]]
    /\ off' = [off EXCEPT ![p] = next[q] + 1]
    /\ pc' = [pc EXCEPT ![p] = "load"]
    /\ UNCHANGED <<topic, committed, owner, root, evt, stateEvt, memory, redis,
                   logVars, faults>>

\* Mutant: the consumer's position does not move past the message.
FetchInPlace(p, q) ==
    /\ pc[p] = "idle"
    /\ owner[q] = p
    /\ next[q] < Len(topic[q])
    /\ cur' = [cur EXCEPT ![p] = topic[q][next[q] + 1]]
    /\ off' = [off EXCEPT ![p] = next[q] + 1]
    /\ pc' = [pc EXCEPT ![p] = "load"]
    /\ UNCHANGED <<topic, committed, next, owner, root, evt, stateEvt, memory,
                   redis, logVars, faults>>

\* Mutant: offsets are committed as messages are delivered (auto-commit).
FetchAutoCommit(p, q) ==
    /\ pc[p] = "idle"
    /\ owner[q] = p
    /\ next[q] < Len(topic[q])
    /\ next' = [next EXCEPT ![q] = @ + 1]
    /\ committed' = [committed EXCEPT ![q] = next[q] + 1]
    /\ cur' = [cur EXCEPT ![p] = topic[q][next[q] + 1]]
    /\ off' = [off EXCEPT ![p] = next[q] + 1]
    /\ pc' = [pc EXCEPT ![p] = "load"]
    /\ UNCHANGED <<topic, owner, root, evt, stateEvt, memory, redis, logVars, faults>>

Fetch(p, q) ==
    /\ pc[p] = "idle"
    /\ owner[q] = p
    /\ next[q] < Len(topic[q])
    /\ next' = [next EXCEPT ![q] = @ + 1]
    /\ cur' = [cur EXCEPT ![p] = topic[q][next[q] + 1]]
    /\ off' = [off EXCEPT ![p] = next[q] + 1]
    /\ pc' = [pc EXCEPT ![p] = "load"]
    /\ UNCHANGED <<topic, committed, owner, root, evt, stateEvt, memory, redis,
                   logVars, faults>>

PublishedPositions(x) ==
    {stateLog[x][i] : i \in DOMAIN stateLog[x]} \union
    {snapshots[x][i] : i \in DOMAIN snapshots[x]}

\* BaseEventSourcingAggregate.load: the process's Map, else redis (which fills
\* the Map), else a replay of the event stream, else no entity.  The fetcher
\* ends at the first partition that runs dry: a replay may miss late events.
LoadRoot(p) ==
    LET x == Root(cur[p])
        Loads(v) == root' = [root EXCEPT ![p] = v]
        Cached(v) == Loads(v) /\ memory' = [memory EXCEPT ![p][x] = v]
    IN  /\ pc[p] = "load"
        /\ \/ memory[p][x] # Absent /\ Cached(memory[p][x])
           \/ memory[p][x] = Absent /\ redis[x] # Absent /\ Cached(redis[x])
           \/ /\ memory[p][x] = Absent /\ redis[x] = Absent
              /\ \E v \in PublishedPositions(x) \union {Absent} : Loads(v)
              /\ UNCHANGED memory
        /\ pc' = [pc EXCEPT ![p] = "handle"]
        /\ UNCHANGED <<groupVars, cur, off, evt, stateEvt, redis, logVars, faults>>

\* The root came out of a replay: load left its store to the next tick.
Replayed(p) == root[p] # Absent /\ memory[p][Root(cur[p])] = Absent

\* The next tick stores what the entity holds by then, and nobody awaits it.
NextTick(p, pos) ==
    redis' \in IF Replayed(p) THEN {redis, [redis EXCEPT ![Root(cur[p])] = pos]}
                              ELSE {redis}

--------------------------------------------------------------------------------
(* Command handlers of ParticpantsAgg *)

\* What the handler leaves for commitEvents.
Decide(p, e, s) ==
    /\ evt' = [evt EXCEPT ![p] = e]
    /\ stateEvt' = [stateEvt EXCEPT ![p] = s]
    /\ pc' = [pc EXCEPT ![p] = "publish"]
    /\ UNCHANGED <<groupVars, cur, off, logVars, faults>>

\* The loaded entity and the Map share the accounts, so a ruling that moves the
\* position to pos moves the Map's copy before anything is published.
SetRoot(p, pos) ==
    /\ root' = [root EXCEPT ![p] = pos]
    /\ memory' = [memory EXCEPT ![p][Root(cur[p])] = pos]
    /\ NextTick(p, pos)

LookUp(p, y) == IF memory[p][y] # Absent THEN memory[p][y] ELSE redis[y]

\* The same after the counterparty was looked up, which fills the Map with it:
\* the next tick comes before the ruling if that had to ask redis.
SetPositions(p, pos) ==
    LET x == Root(cur[p])
        y == Counterparty(cur[p])
    IN  /\ root' = [root EXCEPT ![p] = pos]
        /\ memory' = [memory EXCEPT ![p] =
                         [z \in Participant |-> IF z = x THEN pos
                                                ELSE IF z = y THEN LookUp(p, y)
                                                ELSE memory[p][z]]]
        /\ NextTick(p, IF memory[p][y] = Absent THEN root[p] ELSE pos)

\* Mutant: the create command does not look for an existing participant.
HandleCreateAnyway(p) ==
    /\ pc[p] = "handle"
    /\ cur[p].op = "Create"
    /\ root' = [root EXCEPT ![p] = InitialPosition[cur[p].id]]
    /\ Decide(p, "ParticipantCreated", "CreatedState")
    /\ UNCHANGED <<memory, redis>>

HandleCreate(p) ==
    /\ pc[p] = "handle"
    /\ cur[p].op = "Create"
    /\ \/ /\ root[p] # Absent
          /\ SetRoot(p, root[p])
          /\ Decide(p, "DuplicateParticipant", "none")
       \/ /\ root[p] = Absent
          /\ root' = [root EXCEPT ![p] = InitialPosition[cur[p].id]]
          /\ Decide(p, "ParticipantCreated", "CreatedState")
          /\ UNCHANGED <<memory, redis>>

RefuseUnknown(p) ==
    /\ pc[p] = "handle"
    /\ cur[p].op \in FundsOp
    /\ root[p] = Absent
    /\ Decide(p, "InvalidParticipant", "none")
    /\ UNCHANGED <<root, memory, redis>>

HandleReserve(p) ==
    /\ pc[p] = "handle"
    /\ cur[p].op = "Reserve"
    /\ root[p] # Absent
    /\ LET t == cur[p].t
           ruling == IF LookUp(p, Payee[t]) = Absent \/ ~HasAccount(Payee[t], t)
                     THEN "InvalidParticipant"
                     ELSE ReserveRuling(Payer[t], t, root[p])
       IN  \/ /\ ruling = "PayerFundsReserved"
              /\ SetPositions(p, root[p] + Amount[t])
              /\ Decide(p, ruling, "PositionChangedState")
           \/ /\ ruling # "PayerFundsReserved"
              /\ SetPositions(p, root[p])
              /\ Decide(p, ruling, "none")

\* commitFunds takes any amount and knows no limit; the payee's account is
\* checked before the payer is looked up.
HandleCommit(p) ==
    /\ pc[p] = "handle"
    /\ cur[p].op = "Commit"
    /\ root[p] # Absent
    /\ LET t == cur[p].t
           seen == LookUp(p, Payer[t])
       IN  \/ /\ ~HasAccount(Payee[t], t)
              /\ SetRoot(p, root[p])
              /\ Decide(p, "InvalidParticipant", "none")
           \/ /\ HasAccount(Payee[t], t)
              /\ seen = Absent \/ ~HasAccount(Payer[t], t)
              /\ SetPositions(p, root[p])
              /\ Decide(p, "InvalidParticipant", "none")
           \/ /\ HasAccount(Payee[t], t)
              /\ seen # Absent
              /\ HasAccount(Payer[t], t)
              /\ SetPositions(p, root[p] - Amount[t])
              /\ Decide(p, "PayeeFundsCommitted", "PositionChangedState")

\* Mutant: the snapshot command does not check that it found an entity.
HandleSnapshotUnchecked(p) ==
    /\ pc[p] = "handle"
    /\ cur[p].op = "Snapshot"
    /\ SetRoot(p, root[p])
    /\ Decide(p, "none", "StateSnapshot")

\* Without an entity the handler throws, and nothing is left to publish.
HandleSnapshot(p) ==
    /\ pc[p] = "handle"
    /\ cur[p].op = "Snapshot"
    /\ \/ /\ root[p] # Absent
          /\ SetRoot(p, root[p])
          /\ Decide(p, "none", "StateSnapshot")
       \/ /\ root[p] = Absent
          /\ pc' = [pc EXCEPT ![p] = "commit"]
          /\ UNCHANGED <<groupVars, cur, off, root, evt, stateEvt, memory, redis,
                         logVars, faults>>

--------------------------------------------------------------------------------
(* processCommand after the handler: publish, store, acknowledge *)

Failure(kind) ==
    /\ kind \in FaultKinds
    /\ faults.count < MaxFaults
    /\ faults' = [count |-> faults.count + 1, kinds |-> faults.kinds \union {kind}]

\* Each event is a message of its own: D are those the brokers stored.
Deliver(p, D) ==
    /\ domainLog' = IF "domain" \in D /\ evt[p] # "none"
                    THEN [domainLog EXCEPT ![<<cur[p], evt[p]>>] = @ + 1]
                    ELSE domainLog
    /\ stateLog' = IF "state" \in D /\ stateEvt[p] \in {"CreatedState", "PositionChangedState"}
                   THEN [stateLog EXCEPT ![Root(cur[p])] = Append(@, root[p])]
                   ELSE stateLog
    /\ snapshots' = IF "state" \in D /\ stateEvt[p] = "StateSnapshot"
                    THEN [snapshots EXCEPT ![Root(cur[p])] = Append(@, root[p])]
                    ELSE snapshots

PublishTo(p, step) ==
    /\ pc' = [pc EXCEPT ![p] = step]
    /\ stateEvt' = [stateEvt EXCEPT ![p] = "none"]
    /\ UNCHANGED <<groupVars, cur, off, root, memory, redis>>

\* A command without a state event failed: only its domain event goes out and
\* nothing is stored.
Publish(p) ==
    /\ pc[p] = "publish"
    /\ Deliver(p, {"domain", "state"})
    /\ evt' = [evt EXCEPT ![p] = "none"]
    /\ PublishTo(p, IF stateEvt[p] = "none" THEN "commit" ELSE "store")
    /\ UNCHANGED faults

\* Mutant: the failed publication is logged and the command carries on.
PublishFailsAndStores(p) ==
    /\ pc[p] = "publish"
    /\ Failure("publish")
    /\ \E D \in SUBSET {"domain", "state"} : Deliver(p, D)
    /\ PublishTo(p, IF stateEvt[p] = "none" THEN "commit" ELSE "store")
    /\ UNCHANGED evt

\* publishMany rejects on the first failed delivery report, whatever became of
\* the other messages; the catch then publishes the domain event again.
PublishFails(p) ==
    /\ pc[p] = "publish"
    /\ Failure("publish")
    /\ \E D \in SUBSET {"domain", "state"} : Deliver(p, D)
    /\ PublishTo(p, IF evt[p] = "none" THEN "commit" ELSE "republish")
    /\ UNCHANGED evt

Republish(p) ==
    /\ pc[p] = "republish"
    /\ Deliver(p, {"domain"})
    /\ evt' = [evt EXCEPT ![p] = "none"]
    /\ PublishTo(p, "commit")
    /\ UNCHANGED faults

RepublishFails(p) ==
    /\ pc[p] = "republish"
    /\ Failure("publish")
    /\ \E D \in SUBSET {"domain"} : Deliver(p, D)
    /\ evt' = [evt EXCEPT ![p] = "none"]
    /\ PublishTo(p, "commit")

\* Mutant: redis is written only for participants it has not seen before.
StoredOnce(p) == IF redis[Root(cur[p])] # Absent THEN redis
                 ELSE [redis EXCEPT ![Root(cur[p])] = root[p]]

Stored(p) == [redis EXCEPT ![Root(cur[p])] = root[p]]

StoreStep(p) ==
    /\ pc[p] = "store"
    /\ memory' = [memory EXCEPT ![p][Root(cur[p])] = root[p]]
    /\ pc' = [pc EXCEPT ![p] = "commit"]
    /\ UNCHANGED <<groupVars, cur, off, root, evt, stateEvt, logVars>>

Store(p) ==
    /\ StoreStep(p)
    /\ redis' = Stored(p)
    /\ UNCHANGED faults

\* The Map is set before redis answers; an error reply does not say whether
\* redis applied the write.
StoreFails(p) ==
    /\ StoreStep(p)
    /\ Failure("store")
    /\ redis' \in {redis, Stored(p)}

\* A read of redis or of the event stream fails: the handler throws with
\* nothing to publish and the command handler swallows the error.
ReadFails(p) ==
    /\ Failure("read")
    /\ \/ /\ pc[p] = "load"
          /\ memory[p][Root(cur[p])] = Absent
          /\ UNCHANGED <<root, memory, redis>>
       \/ /\ pc[p] = "handle"
          /\ cur[p].op \in FundsOp
          /\ root[p] # Absent
          /\ cur[p].op = "Commit" => HasAccount(Payee[cur[p].t], cur[p].t)
          /\ memory[p][Counterparty(cur[p])] = Absent
          /\ SetRoot(p, root[p])
    /\ pc' = [pc EXCEPT ![p] = "commit"]
    /\ UNCHANGED <<groupVars, cur, off, evt, stateEvt, logVars>>

LetGo(p, step) ==
    /\ pc' = [pc EXCEPT ![p] = step]
    /\ cur' = [cur EXCEPT ![p] = NoCmd]
    /\ off' = [off EXCEPT ![p] = 0]
    /\ root' = [root EXCEPT ![p] = Absent]
    /\ evt' = [evt EXCEPT ![p] = "none"]
    /\ stateEvt' = [stateEvt EXCEPT ![p] = "none"]

\* The offset is committed whatever became of the command.  The group takes it
\* from any member, so a process that lost the partition meanwhile may move the
\* committed offset back.
Ack(p) ==
    /\ pc[p] = "commit"
    /\ committed' = [committed EXCEPT ![PartitionOf(cur[p])] = off[p]]
    /\ LetGo(p, "idle")
    /\ UNCHANGED <<topic, next, owner, memory, redis, logVars, faults>>

\* commitMessageSync throws out of the consume callback: the loop is never
\* entered again.  A process that lost the partition may meet this any time.
AckFails(p) ==
    /\ pc[p] = "commit"
    /\ \/ Failure("commit")
       \/ owner[PartitionOf(cur[p])] # p /\ UNCHANGED faults
    /\ LetGo(p, "halted")
    /\ UNCHANGED <<groupVars, memory, redis, logVars>>

--------------------------------------------------------------------------------
(* Crashes and rebalances: fetching resumes at the committed offset *)

Crash(p) ==
    /\ Failure("crash")
    /\ LetGo(p, "idle")
    /\ memory' = [memory EXCEPT ![p] = [x \in Participant |-> Absent]]
    /\ next' = [q \in Partition |-> IF owner[q] = p THEN committed[q] ELSE next[q]]
    /\ UNCHANGED <<topic, committed, owner, redis, logVars>>

Rebalance(q, p) ==
    /\ owner[q] # p
    /\ Failure("rebalance")
    /\ owner' = [owner EXCEPT ![q] = p]
    /\ next' = [next EXCEPT ![q] = committed[q]]
    /\ UNCHANGED <<topic, committed, handVars, memory, redis, logVars>>

--------------------------------------------------------------------------------
Handle(p) == \/ HandleCreate(p)
             \/ RefuseUnknown(p)
             \/ HandleReserve(p)
             \/ HandleCommit(p)
             \/ HandleSnapshot(p)

\* What a healthy process does of itself.
Work(p) == \/ \E q \in Partition : Fetch(p, q)
           \/ LoadRoot(p)
           \/ Handle(p)
           \/ Publish(p)
           \/ Republish(p)
           \/ Store(p)
           \/ Ack(p)

Fail(p) == \/ ReadFails(p)
           \/ PublishFails(p)
           \/ RepublishFails(p)
           \/ StoreFails(p)
           \/ AckFails(p)
           \/ Crash(p)
           \/ \E q \in Partition : Rebalance(q, p)

Next == \/ \E c \in Command : Produce(c)
        \/ \E p \in Proc : Work(p) \/ Fail(p)

Spec == Init /\ [][Next]_vars

\* The consume loop re-enters itself after every message, so a process that can
\* take a step takes it.
Fairness == \A p \in Proc : WF_vars(Work(p))
FairSpec == Spec /\ Fairness

--------------------------------------------------------------------------------
(* Properties *)

Capped(x, v) ==
    \/ v <= InitialPosition[x]
    \/ Limit[x] # Absent /\ v < Limit[x]

\* No copy of a position ever exceeds the net debit cap, whatever fails and
\* however stale the copy is: canReserveFunds decides on the very copy that is
\* then published and stored.
PositionsCapped ==
    \A x \in Participant :
        /\ redis[x] # Absent => Capped(x, redis[x])
        /\ \A p \in Proc : memory[p][x] # Absent => Capped(x, memory[p][x])
        /\ \A i \in DOMAIN stateLog[x] : Capped(x, stateLog[x][i])
        /\ \A i \in DOMAIN snapshots[x] : Capped(x, snapshots[x][i])

\* The position redis holds of a participant it has known from the start is one
\* the event stream holds too: processCommand stores only after every event of
\* the command was acknowledged.
PersistedWasPublished ==
    \A x \in Registered : redis[x] \in PublishedPositions(x)

Answered(c) ==
    \/ \E n \in EventName : domainLog[<<c, n>>] > 0
    \/ c.op = "Snapshot" /\ (c.id \in Registered => snapshots[c.id] # <<>>)

\* Where neither reads nor publishing fail, a command whose offset the group
\* committed has been answered by an event, across crashes, rebalances, failed
\* stores and commits by a process that lost the partition.  Only a snapshot of
\* a participant redis never held goes unanswered: its replay may find nothing.
CommittedAnswered ==
    faults.kinds \intersect {"read", "publish"} = {} =>
        \A q \in Partition : \A i \in 1..committed[q] :
            i \in DOMAIN topic[q] /\ Answered(topic[q][i])

\* Every command is taken and let go in the end: a partition is left with
\* commands only by an owner whose loop a failed commit has ended.
CommandsConsumed ==
    <>[]( \A q \in Partition :
             pc[owner[q]] = "halted" \/ (next[q] = Len(topic[q]) /\ pc[owner[q]] = "idle") )

================================================================================
