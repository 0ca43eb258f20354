------------------------------- MODULE Repositories -------------------------------
(******************************************************************************)
(* Where the command handlers of participants and transfers keep the state of *)
(* an aggregate between two commands: the repositories the configuration      *)
(* chooses from.  They differ in whether the process remembers (a Map that    *)
(* never forgets, a node-cache that expires), whether redis is written, and   *)
(* when.  A participant's state is its position, a transfer's its status.     *)
(******************************************************************************)
EXTENDS Processes

CONSTANTS
    Id,         \* ids of the aggregates
    Proc,       \* processes of the command handler's consumer group
    MaxEvents,  \* MAX_STATE_EVENTS_UNTIL_SNAPSHOTS_ISSUED
    MaxPending  \* bound: executions of the snapshot operator under way

ParticipantRepo ==
    {"InMemoryParticipantStateRepo", "RedisParticipantStateRepo",
     "CachedRedisParticipantStateRepo", "CachedPersistedRedisParticipantStateRepo"}
TransferRepo ==
    {"InMemoryTransferStateRepo", "InMemoryNodeCacheTransferStateRepo", "RedisTransferStateRepo",
     "CachedRedisTransferStateRepo", "CachedPersistedRedisTransferStateRepo"}
DuplicateRepo ==
    {"RedisDuplicateRepo", "RedisDuplicateShardedRepo", "InMemoryTransferDuplicateRepo"}

\* What the topics ParticipantCommands and TransferCommands carry; a handler takes
\* its own.
ParticipantCmd == {"CreateParticipantCmd", "ReservePayerFundsCmd", "CommitPayeeFundsCmd",
                   "SnapshotParticipantStateCmd"}
TransferCmd    == {"PrepareTransferCmd", "AckPayerFundsReservedCmd", "FulfilTransferCmd",
                   "AckPayeeFundsCommittedCmd"}
HandledBy(application) == CASE application = "participants" -> ParticipantCmd
                            [] application = "transfers"    -> TransferCmd
                            [] OTHER                        -> {}

\* What can go wrong: the process of the command handler, of the operator or of
\* the read side ends, the partition moves to another process, a write to redis,
\* the operator's state, the publication of its commands or a write to mongo
\* fails, a fetch of events ends early, a key expires; something cannot be opened
\* when a process starts.
Failure == {"crash", "operatorCrash", "readCrash", "move", "store", "state",
            "publish", "mongo", "fetch", "expiry", "down"}

\* handlers are those named on the command line, requests the commands that come
\* from outside, hours how often an hour passes.  With started each handler has a
\* process of its own, which is there already; otherwise one starts and runs all,
\* and gets up to so many SIGINTs.
Setting ==
    [application : {"participants", "transfers", "simulator", "adapter"}, started : BOOLEAN,
     disableApi : BOOLEAN,
     stops : Nat, repo : ParticipantRepo \union TransferRepo, duplicates : DuplicateRepo,
     handlers : SUBSET {"Cmd", "StateEvt", "SnapshotOperator"},
     requests : Seq([name : ParticipantCmd \union TransferCmd, id : Id]),
     hours : Nat, failures : SUBSET Failure, faults : Nat]

ASSUME RepositoriesAssumption ==
    /\ MaxEvents \in Nat \ {0}
    /\ MaxPending \in Nat \ {0}
    /\ IsFiniteSet(Id)
    /\ Proc # {} /\ "redis" \notin Proc
    /\ Settings \subseteq Setting
    /\ \A s \in Settings : \A k \in DOMAIN s.requests :
           s.requests[k].name \in HandledBy(s.application)
    /\ \A s \in Settings : /\ s.application = "participants" => s.repo \in ParticipantRepo
                           /\ s.application = "transfers" => s.repo \in TransferRepo

VARIABLES
    memory,     \* process -> id -> state in its Map or node-cache, or None
    redis,      \* id -> state in redis, or None
    known,      \* process, or "redis" -> the ids of prepared transfers kept there
    owner,      \* the process the command partition is assigned to
    root        \* state of the aggregate its handler has loaded, or None

repoVars == <<setting, process, memory, redis, known, owner, root, faults>>

None == -1

Repo == setting.repo

\* Transfers take the states RECEIVED_PREPARE, RESERVED, RECEIVED_FULFIL and
\* COMMITTED one after the other: their place in this order stands for them.
RECEIVED_PREPARE == 1
RESERVED         == 2
RECEIVED_FULFIL  == 3
COMMITTED        == 4

\* The repository of a configured type; any other name means in-memory.
ParticipantRepoOf(type) ==
    CASE type = "redis"                -> "RedisParticipantStateRepo"
      [] type = "cachedredis"          -> "CachedRedisParticipantStateRepo"
      [] type = "cachedpersistedredis" -> "CachedPersistedRedisParticipantStateRepo"
      [] OTHER                         -> "InMemoryParticipantStateRepo"
TransferRepoOf(type) ==
    CASE type = "redis"                -> "RedisTransferStateRepo"
      [] type = "cachedredis"          -> "CachedRedisTransferStateRepo"
      [] type = "cachedpersistedredis" -> "CachedPersistedRedisTransferStateRepo"
      [] type = "nodecache"            -> "InMemoryNodeCacheTransferStateRepo"
      [] OTHER                         -> "InMemoryTransferStateRepo"
DuplicateRepoOf(type) ==
    CASE type = "redis-sharded" -> "RedisDuplicateShardedRepo"
      [] type = "memory"        -> "InMemoryTransferDuplicateRepo"
      [] OTHER                  -> "RedisDuplicateRepo"

NothingRemembered == [i \in Id |-> None]

RepoTypeOK ==
    /\ memory \in [Proc -> [Id -> Int]]
    /\ redis \in [Id -> Int]
    /\ known \in [Proc \union {"redis"} -> SUBSET Id]
    /\ owner \in Proc
    /\ root \in Int

RepoInit ==
    /\ memory = [p \in Proc |-> NothingRemembered]
    /\ redis = NothingRemembered
    /\ known = [p \in Proc \union {"redis"} |-> {}]
    /\ owner = CHOOSE p \in Proc : TRUE    \* they are alike
    /\ root = None

--------------------------------------------------------------------------------
(* load: what the process finds for id, and what it remembers of it *)

InMemory(id)  == memory[owner][id]
Remember(id, v) == memory' = [memory EXCEPT ![owner][id] = v]
Persist(id, v)  == redis' = [redis EXCEPT ![id] = v]

FromMemory(id) == root' = InMemory(id) /\ UNCHANGED memory
FromRedis(id)  == root' = redis[id] /\ UNCHANGED memory

\* The process's own copy before redis, and what redis has is remembered.
FromEither(id) ==
    \/ InMemory(id) # None /\ FromMemory(id)
    \/ InMemory(id) = None /\ root' = redis[id] /\ Remember(id, redis[id])

InMemoryParticipantLoad(id) == Repo = "InMemoryParticipantStateRepo" /\ FromMemory(id)
RedisParticipantLoad(id)    == Repo = "RedisParticipantStateRepo" /\ FromRedis(id)
CachedRedisParticipantLoad(id) ==
    Repo = "CachedRedisParticipantStateRepo" /\ FromEither(id)
CachedPersistedRedisParticipantLoad(id) ==
    Repo = "CachedPersistedRedisParticipantStateRepo" /\ FromEither(id)

InMemoryTransferLoad(id)  == Repo = "InMemoryTransferStateRepo" /\ FromMemory(id)
NodeCacheTransferLoad(id) == Repo = "InMemoryNodeCacheTransferStateRepo" /\ FromMemory(id)
RedisTransferLoad(id)     == Repo = "RedisTransferStateRepo" /\ FromRedis(id)
CachedRedisTransferLoad(id) == Repo = "CachedRedisTransferStateRepo" /\ FromEither(id)
CachedPersistedRedisTransferLoad(id) ==
    Repo = "CachedPersistedRedisTransferStateRepo" /\ FromEither(id)

Load(id) ==
    \/ InMemoryParticipantLoad(id)
    \/ RedisParticipantLoad(id)
    \/ CachedRedisParticipantLoad(id)
    \/ CachedPersistedRedisParticipantLoad(id)
    \/ InMemoryTransferLoad(id)
    \/ NodeCacheTransferLoad(id)
    \/ RedisTransferLoad(id)
    \/ CachedRedisTransferLoad(id)
    \/ CachedPersistedRedisTransferLoad(id)

--------------------------------------------------------------------------------
(* store: a redis that fails or is closed rejects, after the process has remembered *)

RedisSet(id, v) == \/ Opened("Cmd", "repo") /\ Persist(id, v) /\ UNCHANGED faults
                   \/ ~Opened("Cmd", "repo") /\ UNCHANGED <<redis, faults>>
                   \/ Fails("store") /\ UNCHANGED redis
MemoryOnly(id, v) == Remember(id, v) /\ UNCHANGED <<redis, faults>>

InMemoryParticipantStore(id, v) == Repo = "InMemoryParticipantStateRepo" /\ MemoryOnly(id, v)
RedisParticipantStore(id, v) ==
    Repo = "RedisParticipantStateRepo" /\ RedisSet(id, v) /\ UNCHANGED memory

\* Redis gets the state only of an id the process does not remember.
CachedRedisParticipantStore(id, v) ==
    /\ Repo = "CachedRedisParticipantStateRepo"
    /\ Remember(id, v)
    /\ IF InMemory(id) = None THEN RedisSet(id, v) ELSE UNCHANGED <<redis, faults>>

CachedPersistedRedisParticipantStore(id, v) ==
    Repo = "CachedPersistedRedisParticipantStateRepo" /\ Remember(id, v) /\ RedisSet(id, v)

InMemoryTransferStore(id, v)  == Repo = "InMemoryTransferStateRepo" /\ MemoryOnly(id, v)
NodeCacheTransferStore(id, v) == Repo = "InMemoryNodeCacheTransferStateRepo" /\ MemoryOnly(id, v)
RedisTransferStore(id, v) ==
    Repo = "RedisTransferStateRepo" /\ RedisSet(id, v) /\ UNCHANGED memory

\* Redis, which load asks, never gets a transfer.
CachedRedisTransferStore(id, v) == Repo = "CachedRedisTransferStateRepo" /\ MemoryOnly(id, v)

CachedPersistedRedisTransferStore(id, v) ==
    Repo = "CachedPersistedRedisTransferStateRepo" /\ Remember(id, v) /\ RedisSet(id, v)

ParticipantStore(id, v) ==
    \/ InMemoryParticipantStore(id, v)
    \/ RedisParticipantStore(id, v)
    \/ CachedRedisParticipantStore(id, v)
    \/ CachedPersistedRedisParticipantStore(id, v)
TransferStore(id, v) ==
    \/ InMemoryTransferStore(id, v)
    \/ NodeCacheTransferStore(id, v)
    \/ RedisTransferStore(id, v)
    \/ CachedRedisTransferStore(id, v)
    \/ CachedPersistedRedisTransferStore(id, v)

--------------------------------------------------------------------------------
(* The other operations *)

\* What the list of ids holds, as the code returns it: the keys of redis with
\* their prefix.
Key(id) == <<"participant_", id>>
GetAllIds == {Key(id) : id \in {i \in Id : redis[i] # None}}

\* add: TRUE if the id was not there.  The in-memory set does not say.
RedisAdd(id, new) ==
    /\ setting.duplicates = "RedisDuplicateRepo"
    /\ new = (id \notin known["redis"])
    /\ known' = [known EXCEPT !["redis"] = @ \union {id}]
ShardedAdd(id, new) ==
    /\ setting.duplicates = "RedisDuplicateShardedRepo"
    /\ new = (id \notin known["redis"])
    /\ known' = [known EXCEPT !["redis"] = @ \union {id}]
InMemoryAdd(id, new) ==
    /\ setting.duplicates = "InMemoryTransferDuplicateRepo"
    /\ new = TRUE
    /\ known' = [known EXCEPT ![owner] = @ \union {id}]
AddId(id, new) == RedisAdd(id, new) \/ ShardedAdd(id, new) \/ InMemoryAdd(id, new)

\* A transfer outlives its time in a node-cache or in redis.
CacheExpires(id) ==
    /\ Repo \in {"InMemoryNodeCacheTransferStateRepo", "CachedPersistedRedisTransferStateRepo"}
    /\ \E p \in Proc : /\ memory[p][id] # None
                       /\ memory' = [memory EXCEPT ![p][id] = None]
    /\ Fails("expiry")
    /\ UNCHANGED redis
RedisExpires(id) ==
    /\ Repo \in {"RedisTransferStateRepo", "CachedPersistedRedisTransferStateRepo"}
    /\ redis[id] # None
    /\ Persist(id, None)
    /\ Fails("expiry")
    /\ UNCHANGED memory

================================================================================
