---------------------------- MODULE TransferCommands ----------------------------
(******************************************************************************)
(* The transfers command handler of the switch: the processes of one consumer *)
(* group that take commands from the topic TransferCommands and run them on   *)
(* the aggregate TransfersAgg.                                                *)
(*                                                                            *)
(* A transfer is known to the set of duplicates, to redis, where it expires,  *)
(* and to the node-cache of every process that loaded it.  A handler marks    *)
(* the new status on the cached object itself; the events go out next, then   *)
(* redis is written, then the offset of the command is committed.  A failure, *)
(* a crash or an expiry may fall between any two of these.                    *)
(******************************************************************************)
EXTENDS Integers, Sequences, FiniteSets

CONSTANTS
    Transfer,      \* ids of the transfers
    Proc,          \* processes of the command handler's consumer group
    Partition,     \* partitions of the command topic
    KeyPartition,  \* Transfer -> partition the hash of its id selects
    InitialOwner,  \* Partition -> process the group starts with
    Absent,        \* no state
    NoCmd,         \* no command in hand
    MaxCopies,     \* bound: times a command is appended to the topic
    MaxTopic,      \* bound: messages in a partition of the topic
    FaultKinds,    \* kinds of failure this instance may meet
    MaxFaults      \* bound: failures in one behaviour

\* What a fulfilment may be: the preimage of the condition, another preimage,
\* or not 32 bytes at all.
FulfilOp == {"Fulfil", "FulfilMismatch", "FulfilMalformed"}
Command  == [op : FulfilOp \union {"Prepare", "AckReserved", "AckCommitted"},
             t : Transfer]

Status == {"RECEIVED_PREPARE", "RESERVED", "RECEIVED_FULFIL", "RECEIVED_ERROR",
           "COMMITTED"}
MaybeStatus == Status \union {Absent}

StepEvent == {"TransferPrepareAccepted", "TransferPrepared",
              "TransferFulfilAccepted", "TransferFulfilled"}
EventName == StepEvent \union
             {"DuplicateTransferDetected", "TransferNotFound", "InvalidTransfer"}

Fault == {"crash", "rebalance", "add", "read", "publish", "store", "commit", "expiry"}

ASSUME TransferAssumption ==
    /\ KeyPartition \in [Transfer -> Partition]
    /\ InitialOwner \in [Partition -> Proc]
    /\ Absent \notin Status
    /\ NoCmd \notin Command
    /\ MaxCopies \in Nat
    /\ MaxTopic \in Nat
    /\ FaultKinds \subseteq Fault
    /\ MaxFaults \in Nat

VARIABLES
    topic,      \* Partition -> the commands appended to it
    committed,  \* Partition -> offset up to which the group has committed
    next,       \* Partition -> offset up to which its owner has fetched
    owner,      \* Partition -> process it is assigned to
    pc,         \* Proc -> where its handler stands
    cur,        \* Proc -> command in hand
    off,        \* Proc -> offset of that command
    root,       \* Proc -> status of the root entity
    evt,        \* Proc -> uncommitted domain event, or "none"
    stateEvt,   \* Proc -> is a state event uncommitted?
    seen,       \* ids in the set of duplicates
    cache,      \* Proc -> Transfer -> status in the process's node-cache
    redis,      \* Transfer -> status persisted in redis
    stateLog,   \* Transfer -> statuses of its state events, oldest first
    domainLog,  \* Transfer -> EventName -> copies of the event published
    faults,     \* failures so far
    failed      \* kinds of these failures

groupVars == <<topic, committed, next, owner>>
handVars  == <<pc, cur, off, root, evt, stateEvt>>
repoVars  == <<seen, cache, redis>>
logVars   == <<stateLog, domainLog>>
faultVars == <<faults, failed>>
vars == <<topic, committed, next, owner, pc, cur, off, root, evt, stateEvt, seen,
          cache, redis, stateLog, domainLog, faults, failed>>

--------------------------------------------------------------------------------
TypeOK ==
    /\ topic \in [Partition -> Seq(Command)]
    /\ committed \in [Partition -> Nat]
    /\ next \in [Partition -> Nat]
    /\ owner \in [Partition -> Proc]
    /\ pc \in [Proc -> {"idle", "handle", "publish", "republish", "store",
                        "commit", "halted"}]
    /\ cur \in [Proc -> Command \union {NoCmd}]
    /\ off \in [Proc -> Nat]
    /\ root \in [Proc -> MaybeStatus]
    /\ evt \in [Proc -> EventName \union {"none"}]
    /\ stateEvt \in [Proc -> BOOLEAN]
    /\ seen \in SUBSET Transfer
    /\ cache \in [Proc -> [Transfer -> MaybeStatus]]
    /\ redis \in [Transfer -> MaybeStatus]
    /\ stateLog \in [Transfer -> Seq(Status)]
    /\ domainLog \in [Transfer -> [EventName -> Nat]]
    /\ faults \in Nat
    /\ failed \in SUBSET Fault
    /\ \A p \in Proc : pc[p] \notin {"idle", "halted"} => cur[p] \in Command
    /\ \A p \in Proc : stateEvt[p] => root[p] \in Status

Init ==
    /\ topic = [q \in Partition |-> <<>>]
    /\ committed = [q \in Partition |-> 0]
    /\ next = [q \in Partition |-> 0]
    /\ owner = InitialOwner
    /\ pc = [p \in Proc |-> "idle"]
    /\ cur = [p \in Proc |-> NoCmd]
    /\ off = [p \in Proc |-> 0]
    /\ root = [p \in Proc |-> Absent]
    /\ evt = [p \in Proc |-> "none"]
    /\ stateEvt = [p \in Proc |-> FALSE]
    /\ seen = {}
    /\ cache = [p \in Proc |-> [t \in Transfer |-> Absent]]
    /\ redis = [t \in Transfer |-> Absent]
    /\ stateLog = [t \in Transfer |-> <<>>]
    /\ domainLog = [t \in Transfer |-> [n \in EventName |-> 0]]
    /\ faults = 0
    /\ failed = {}

--------------------------------------------------------------------------------
(* Upstream: the transfers event handler *)

Published(t, n) == domainLog[t][n] > 0

\* Requests and fulfilments come from the FSPs, whenever they like and as often
\* as they like; the acknowledgements answer what the participants handler did
\* with an event of the transfer, maybe more than once.
CanProduce(c) ==
    \/ c.op \in FulfilOp \union {"Prepare"}
    \/ c.op = "AckReserved" /\ Published(c.t, "TransferPrepareAccepted")
    \/ c.op = "AckCommitted" /\ Published(c.t, "TransferFulfilAccepted")

Copies(c) == Cardinality({i \in DOMAIN topic[KeyPartition[c.t]] :
                             topic[KeyPartition[c.t]][i] = c})

Produce(c) ==
    /\ Copies(c) < MaxCopies
    /\ Len(topic[KeyPartition[c.t]]) < MaxTopic
    /\ CanProduce(c)
    /\ topic' = [topic EXCEPT ![KeyPartition[c.t]] = Append(@, c)]
    /\ UNCHANGED <<committed, next, owner, handVars, repoVars, logVars, faultVars>>

--------------------------------------------------------------------------------
(* The consumer loop: one message at a time *)

Fetch(p, q) ==
    /\ pc[p] = "idle"
    /\ owner[q] = p
    /\ next[q] < Len(topic[q])
    /\ next' = [next EXCEPT ![q] = @ + 1]
    /\ cur' = [cur EXCEPT ![p] = topic[q][next[q] + 1]]
    /\ off' = [off EXCEPT ![p] = next[q] + 1]
    /\ pc' = [pc EXCEPT ![p] = "handle"]
    /\ UNCHANGED <<topic, committed, owner, root, evt, stateEvt, repoVars, logVars,
                   faultVars>>

--------------------------------------------------------------------------------
(* Command handlers of TransfersAgg *)

Failure(kind) ==
    /\ kind \in FaultKinds
    /\ faults < MaxFaults
    /\ faults' = faults + 1
    /\ failed' = failed \union {kind}

\* What the handler leaves for commit: a command that succeeds records a domain
\* event and a state event, one that fails a domain event only.
Decide(p, e, succeeds) ==
    /\ evt' = [evt EXCEPT ![p] = e]
    /\ stateEvt' = [stateEvt EXCEPT ![p] = succeeds]
    /\ pc' = [pc EXCEPT ![p] = "publish"]
    /\ UNCHANGED <<groupVars, cur, off, redis, logVars, faultVars>>

\* Mutant: the id is looked up in the process's own cache.
HandlePrepareCached(p) ==
    /\ pc[p] = "handle"
    /\ cur[p].op = "Prepare"
    /\ seen' = seen \union {cur[p].t}
    /\ \/ /\ cache[p][cur[p].t] = Absent
          /\ root' = [root EXCEPT ![p] = "RECEIVED_PREPARE"]
          /\ Decide(p, "TransferPrepareAccepted", TRUE)
       \/ /\ cache[p][cur[p].t] # Absent
          /\ Decide(p, "DuplicateTransferDetected", FALSE)
          /\ UNCHANGED root
    /\ UNCHANGED cache

\* The set of duplicates tells whether the id was new; the transfer itself is
\* not looked up.  A created entity is not in the cache before it is stored.
HandlePrepare(p) ==
    /\ pc[p] = "handle"
    /\ cur[p].op = "Prepare"
    /\ seen' = seen \union {cur[p].t}
    /\ \/ /\ cur[p].t \notin seen
          /\ root' = [root EXCEPT ![p] = "RECEIVED_PREPARE"]
          /\ Decide(p, "TransferPrepareAccepted", TRUE)
       \/ /\ cur[p].t \in seen
          /\ Decide(p, "DuplicateTransferDetected", FALSE)
          /\ UNCHANGED root
    /\ UNCHANGED cache

\* The process's cache, which may hold what it has not stored, else redis.
Loaded(p) == IF cache[p][cur[p].t] # Absent THEN cache[p][cur[p].t]
                                            ELSE redis[cur[p].t]

\* The loaded entity is the cached object: its new status shows in the cache.
SetStatus(p, s) ==
    /\ root' = [root EXCEPT ![p] = s]
    /\ cache' = [cache EXCEPT ![p][cur[p].t] = s]
    /\ UNCHANGED seen

\* Mutant: the command on an unknown transfer leaves a state event too.
RefuseUnknownSucceeds(p) ==
    /\ pc[p] = "handle"
    /\ cur[p].op # "Prepare"
    /\ Loaded(p) = Absent
    /\ SetStatus(p, Absent)
    /\ Decide(p, "TransferNotFound", TRUE)

RefuseUnknown(p) ==
    /\ pc[p] = "handle"
    /\ cur[p].op # "Prepare"
    /\ Loaded(p) = Absent
    /\ SetStatus(p, Absent)
    /\ Decide(p, "TransferNotFound", FALSE)

\* The status a command expects of its transfer.
Expected(c) == IF c.op = "AckReserved" THEN "RECEIVED_PREPARE"
               ELSE IF c.op \in FulfilOp THEN "RESERVED" ELSE "RECEIVED_FULFIL"

RefuseStatus(p) ==
    /\ pc[p] = "handle"
    /\ cur[p].op # "Prepare"
    /\ Loaded(p) \notin {Absent, Expected(cur[p])}
    /\ SetStatus(p, Loaded(p))
    /\ Decide(p, "InvalidTransfer", FALSE)

\* Mutant: the acknowledgement does not look at the transfer's status.
HandleAckReservedAnyway(p) ==
    /\ pc[p] = "handle"
    /\ cur[p].op = "AckReserved"
    /\ Loaded(p) # Absent
    /\ SetStatus(p, "RESERVED")
    /\ Decide(p, "TransferPrepared", TRUE)

HandleAckReserved(p) ==
    /\ pc[p] = "handle"
    /\ cur[p].op = "AckReserved"
    /\ Loaded(p) = "RECEIVED_PREPARE"
    /\ SetStatus(p, "RESERVED")
    /\ Decide(p, "TransferPrepared", TRUE)

\* Mutant: a transfer may be fulfilled as soon as it was accepted.
HandleFulfilEarly(p) ==
    /\ pc[p] = "handle"
    /\ cur[p].op = "Fulfil"
    /\ Loaded(p) \in {"RECEIVED_PREPARE", "RESERVED"}
    /\ SetStatus(p, "RECEIVED_FULFIL")
    /\ Decide(p, "TransferFulfilAccepted", TRUE)

\* fulfilTransfer marks the entity before it throws on a preimage of another
\* condition; one that is not 32 bytes throws before anything is marked.
HandleFulfil(p) ==
    /\ pc[p] = "handle"
    /\ cur[p].op \in FulfilOp
    /\ Loaded(p) = "RESERVED"
    /\ \/ /\ cur[p].op = "Fulfil"
          /\ SetStatus(p, "RECEIVED_FULFIL")
          /\ Decide(p, "TransferFulfilAccepted", TRUE)
       \/ /\ cur[p].op = "FulfilMismatch"
          /\ SetStatus(p, "RECEIVED_ERROR")
          /\ Decide(p, "InvalidTransfer", FALSE)
       \/ /\ cur[p].op = "FulfilMalformed"
          /\ SetStatus(p, "RESERVED")
          /\ Decide(p, "InvalidTransfer", FALSE)

HandleAckCommitted(p) ==
    /\ pc[p] = "handle"
    /\ cur[p].op = "AckCommitted"
    /\ Loaded(p) = "RECEIVED_FULFIL"
    /\ SetStatus(p, "COMMITTED")
    /\ Decide(p, "TransferFulfilled", TRUE)

\* The set of duplicates or redis answers with an error: the handler throws with
\* nothing to publish and the command handler swallows the error.  The set may
\* have taken the id all the same.
RepositoryFails(p) ==
    /\ pc[p] = "handle"
    /\ \/ /\ cur[p].op = "Prepare"
          /\ Failure("add")
          /\ seen' \in {seen, seen \union {cur[p].t}}
       \/ /\ cur[p].op # "Prepare"
          /\ cache[p][cur[p].t] = Absent
          /\ Failure("read")
          /\ UNCHANGED seen
    /\ pc' = [pc EXCEPT ![p] = "commit"]
    /\ UNCHANGED <<groupVars, cur, off, root, evt, stateEvt, cache, redis, logVars>>

--------------------------------------------------------------------------------
(* processCommand after the handler: publish, store, acknowledge *)

\* Each event is a message of its own: D are those the brokers stored.
Deliver(p, D) ==
    LET t == cur[p].t
    IN  /\ domainLog' = IF "domain" \in D THEN [domainLog EXCEPT ![t][evt[p]] = @ + 1]
                                          ELSE domainLog
        /\ stateLog' = IF "state" \in D /\ stateEvt[p]
                       THEN [stateLog EXCEPT ![t] = Append(@, root[p])]
                       ELSE stateLog

PublishTo(p, step) ==
    /\ pc' = [pc EXCEPT ![p] = step]
    /\ UNCHANGED <<groupVars, cur, off, root, repoVars>>

Committed(p) ==
    /\ evt' = [evt EXCEPT ![p] = "none"]
    /\ stateEvt' = [stateEvt EXCEPT ![p] = FALSE]

Publish(p) ==
    /\ pc[p] = "publish"
    /\ Deliver(p, {"domain", "state"})
    /\ Committed(p)
    /\ PublishTo(p, IF stateEvt[p] THEN "store" ELSE "commit")
    /\ UNCHANGED faultVars

\* Mutant: the failed publication is logged and the command carries on.
PublishFailsAndStores(p) ==
    /\ pc[p] = "publish"
    /\ Failure("publish")
    /\ \E D \in SUBSET {"domain", "state"} : Deliver(p, D)
    /\ Committed(p)
    /\ PublishTo(p, IF stateEvt[p] THEN "store" ELSE "commit")

\* publishMany rejects on the first failed delivery report, whatever became of
\* the other messages, and the events stay uncommitted.
PublishFails(p) ==
    /\ pc[p] = "publish"
    /\ Failure("publish")
    /\ \E D \in SUBSET {"domain", "state"} : Deliver(p, D)
    /\ PublishTo(p, "republish")
    /\ UNCHANGED <<evt, stateEvt>>

\* The catch publishes all events once more and rethrows: nothing is stored,
\* although the cache has moved.
Republish(p) ==
    /\ pc[p] = "republish"
    /\ Deliver(p, {"domain", "state"})
    /\ Committed(p)
    /\ PublishTo(p, "commit")
    /\ UNCHANGED faultVars

RepublishFails(p) ==
    /\ pc[p] = "republish"
    /\ Failure("publish")
    /\ \E D \in SUBSET {"domain", "state"} : Deliver(p, D)
    /\ Committed(p)
    /\ PublishTo(p, "commit")

Stored(p) == [redis EXCEPT ![cur[p].t] = root[p]]

StoreStep(p) ==
    /\ pc[p] = "store"
    /\ cache' = [cache EXCEPT ![p][cur[p].t] = root[p]]
    /\ pc' = [pc EXCEPT ![p] = "commit"]
    /\ UNCHANGED <<groupVars, cur, off, root, evt, stateEvt, seen, logVars>>

Store(p) ==
    /\ StoreStep(p)
    /\ redis' = Stored(p)
    /\ UNCHANGED faultVars

\* The cache is set before redis answers; an error reply does not say whether
\* redis applied the write.
StoreFails(p) ==
    /\ StoreStep(p)
    /\ Failure("store")
    /\ redis' \in {redis, Stored(p)}

LetGo(p, step) ==
    /\ pc' = [pc EXCEPT ![p] = step]
    /\ cur' = [cur EXCEPT ![p] = NoCmd]
    /\ off' = [off EXCEPT ![p] = 0]
    /\ root' = [root EXCEPT ![p] = Absent]
    /\ evt' = [evt EXCEPT ![p] = "none"]
    /\ stateEvt' = [stateEvt EXCEPT ![p] = FALSE]

\* The offset is committed whatever became of the command.
Ack(p) ==
    /\ pc[p] = "commit"
    /\ committed' = [committed EXCEPT ![KeyPartition[cur[p].t]] = off[p]]
    /\ LetGo(p, "idle")
    /\ UNCHANGED <<topic, next, owner, repoVars, logVars, faultVars>>

\* commitMessageSync throws out of the consume callback: the loop is never
\* entered again.  A process that lost the partition may meet this any time.
AckFails(p) ==
    /\ pc[p] = "commit"
    /\ \/ Failure("commit")
       \/ owner[KeyPartition[cur[p].t]] # p /\ UNCHANGED faultVars
    /\ LetGo(p, "halted")
    /\ UNCHANGED <<groupVars, repoVars, logVars>>

--------------------------------------------------------------------------------
(* Time, crashes and rebalances *)

\* Both repositories give a transfer a time to live.  Redis counts from the last
\* store, a cache from the last store or the last read of redis, so either may
\* forget first.
CacheExpires(p, t) ==
    /\ Failure("expiry")
    /\ cache[p][t] # Absent
    /\ cache' = [cache EXCEPT ![p][t] = Absent]
    /\ UNCHANGED <<groupVars, handVars, seen, redis, logVars>>

RedisExpires(t) ==
    /\ Failure("expiry")
    /\ redis[t] # Absent
    /\ redis' = [redis EXCEPT ![t] = Absent]
    /\ UNCHANGED <<groupVars, handVars, seen, cache, logVars>>

\* Fetching resumes at the committed offset.
Crash(p) ==
    /\ Failure("crash")
    /\ LetGo(p, "idle")
    /\ cache' = [cache EXCEPT ![p] = [t \in Transfer |-> Absent]]
    /\ next' = [q \in Partition |-> IF owner[q] = p THEN committed[q] ELSE next[q]]
    /\ UNCHANGED <<topic, committed, owner, seen, redis, logVars>>

Rebalance(q, p) ==
    /\ owner[q] # p
    /\ Failure("rebalance")
    /\ owner' = [owner EXCEPT ![q] = p]
    /\ next' = [next EXCEPT ![q] = committed[q]]
    /\ UNCHANGED <<topic, committed, handVars, repoVars, logVars>>

--------------------------------------------------------------------------------
Handle(p) == \/ HandlePrepare(p)
             \/ RefuseUnknown(p)
             \/ RefuseStatus(p)
             \/ HandleAckReserved(p)
             \/ HandleFulfil(p)
             \/ HandleAckCommitted(p)

Work(p) == \/ \E q \in Partition : Fetch(p, q)
           \/ Handle(p)
           \/ Publish(p)
           \/ Republish(p)
           \/ Store(p)
           \/ Ack(p)

Fail(p) == \/ RepositoryFails(p)
           \/ PublishFails(p)
           \/ RepublishFails(p)
           \/ StoreFails(p)
           \/ AckFails(p)
           \/ \E t \in Transfer : CacheExpires(p, t)
           \/ Crash(p)
           \/ \E q \in Partition : Rebalance(q, p)

Next == \/ \E c \in Command : Produce(c)
        \/ \E p \in Proc : Work(p) \/ Fail(p)
        \/ \E t \in Transfer : RedisExpires(t)

Spec == Init /\ [][Next]_vars

--------------------------------------------------------------------------------
(* Properties *)

\* However often a request is sent, redelivered after a crash or taken by two
\* processes at once, and although the transfer itself expires, it is accepted
\* once: every acceptance reserves the payer's funds once more.
PrepareAcceptedOnce ==
    "publish" \notin failed =>
        \A t \in Transfer : domainLog[t]["TransferPrepareAccepted"] <= 1

\* A fulfilment is accepted, and the payee's funds committed, only of a transfer
\* whose reservation was announced: the cached status, which runs ahead of the
\* events, is never believed across a crash or by another process.
FulfilOnlyIfPrepared ==
    "publish" \notin failed =>
        \A t \in Transfer :
            Published(t, "TransferFulfilAccepted") => Published(t, "TransferPrepared")

\* Whatever fails, redis holds only statuses that the event stream announced.
PersistedWasAnnounced ==
    \A t \in Transfer : redis[t] # Absent =>
        \E i \in DOMAIN stateLog[t] : stateLog[t][i] = redis[t]

Rank(s) == IF s = "RECEIVED_PREPARE" THEN 1
           ELSE IF s = "RESERVED" THEN 2
           ELSE IF s = "COMMITTED" THEN 4 ELSE 3

\* As long as no partition changes hands, no store takes a transfer back to an
\* earlier status: no stale copy, late retry or half-failed command overwrites
\* what a later command stored.
StoredNeverRegresses ==
    [][ "rebalance" \notin failed' =>
            \A t \in Transfer :
                redis[t] # Absent /\ redis'[t] # Absent => Rank(redis[t]) <= Rank(redis'[t])
      ]_vars

\* The documented reaction to a fulfilment that does not match, "Update Transfer
\* state with status RECIEVED_FULFIL_ERROR": once the command is done, a transfer
\* a process knows as refused is refused in redis too.
MismatchPersisted ==
    \A p \in Proc, t \in Transfer :
        cache[p][t] = "RECEIVED_ERROR" /\ pc[p] = "idle" => redis[t] = "RECEIVED_ERROR"

\* The handler implements the abstract lifecycle: every publication of a
\* successful command is one step of it, none is repeated or left out.
Announcements(t) ==
    domainLog[t]["TransferPrepareAccepted"] + domainLog[t]["TransferPrepared"] +
    domainLog[t]["TransferFulfilAccepted"] + domainLog[t]["TransferFulfilled"]

LastStatus(t) == IF stateLog[t] = <<>> THEN Absent ELSE stateLog[t][Len(stateLog[t])]

Lifecycle == INSTANCE TransferLifecycle WITH
    status    <- [t \in Transfer |-> LastStatus(t)],
    announced <- [t \in Transfer |-> Announcements(t)]

ImplementsLifecycle == Lifecycle!Spec

================================================================================
