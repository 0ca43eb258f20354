-------------------------------- MODULE Aggregates --------------------------------
(******************************************************************************)
(* A command handler around a repository: it loads the aggregate a command is *)
(* for, publishes the state event the aggregate answers with, stores the new  *)
(* state and commits the command.  A participant the repository does not have *)
(* is recovered from its snapshots and state events.  ParticipantCommands and *)
(* TransferCommands have the rulings and the domain events, which are left    *)
(* out here.                                                                  *)
(******************************************************************************)
EXTENDS Repositories

VARIABLES
    asked,      \* how many of the requests have been made
    commands,   \* the commands that are not committed, oldest first
    step,       \* where the handler of the first of them stands
    answer,     \* the state event to publish, or NoEvent
    events,     \* topic StateEvents
    snapshots   \* topic SnapshotEvents

handlerVars == <<asked, commands, step, answer, events, snapshots>>

Command(name, id)   == [name |-> name, id |-> id]
Event(name, id, v)  == [name |-> name, id |-> id, value |-> v]
NoEvent             == Event("none", "none", None)

ParticipantCreatedStateEvt(id, v)         == Event("ParticipantCreatedStateEvt", id, v)
ParticipantPositionChangedStateEvt(id, v) == Event("ParticipantPositionChangedStateEvt", id, v)
ParticipantStateSnapshotEvt(id, v)        == Event("ParticipantStateSnapshotEvt", id, v)
TransferPreparedStateEvt(id, v)           == Event("TransferPreparedStateEvt", id, v)
TransferStateChangedStateEvt(id, v)       == Event("TransferStateChangedStateEvt", id, v)
TransferFulfiledStateEvt(id, v)           == Event("TransferFulfiledStateEvt", id, v)

SnapshotParticipantStateCmd(id) == Command("SnapshotParticipantStateCmd", id)

StateEventName ==
    {"ParticipantCreatedStateEvt", "ParticipantPositionChangedStateEvt",
     "TransferPreparedStateEvt", "TransferStateChangedStateEvt", "TransferFulfiledStateEvt"}

Cmd == Head(commands)

HandlerTypeOK ==
    /\ asked \in 0..Len(setting.requests)
    /\ \A k \in DOMAIN commands : commands[k].id \in Id \union {Key(i) : i \in Id}
    /\ step \in {"load", "recover", "handle", "tick", "publish", "store", "commit"}
    /\ \A k \in DOMAIN events : /\ events[k].name \in StateEventName
                                /\ events[k].id \in Id
                                /\ events[k].value \in Nat
    /\ \A k \in DOMAIN snapshots : /\ snapshots[k].name = "ParticipantStateSnapshotEvt"
                                   /\ snapshots[k].id \in Id
                                   /\ snapshots[k].value \in Nat
    /\ step \in {"tick", "publish", "store"} => root # None

HandlerInit ==
    /\ asked = 0
    /\ commands = <<>>
    /\ step = "load"
    /\ answer = NoEvent
    /\ events = <<>>
    /\ snapshots = <<>>

\* Others ask for the next thing.
Request ==
    /\ asked < Len(setting.requests)
    /\ asked' = asked + 1
    /\ commands' = Append(commands, setting.requests[asked + 1])
    /\ UNCHANGED <<repoVars, step, answer, events, snapshots>>

--------------------------------------------------------------------------------
(* Loading *)

\* A message is taken while the consumer is connected, and worked on until the
\* process ends.
At(s, names) ==
    /\ Runs("Cmd") /\ commands # <<>> /\ step = s /\ Cmd.name \in names
    /\ s = "load" => Opened("Cmd", "consumer")

LoadingCmd == (ParticipantCmd \union TransferCmd) \ {"PrepareTransferCmd"}

\* What no participant has (see GetAllIds) is found nowhere.
LoadRoot ==
    /\ At("load", LoadingCmd)
    /\ \/ Cmd.id \in Id /\ Load(Cmd.id)
       \/ Cmd.id \notin Id /\ root' = None /\ UNCHANGED memory
    /\ step' = IF root' = None /\ Cmd.name \in ParticipantCmd THEN "recover" ELSE "handle"
    /\ UNCHANGED <<setting, process, redis, known, owner, faults, asked, commands,
                   answer, events, snapshots>>

\* The messages of id, in their order.
Of(topic, id) ==
    LET of[n \in 0..Len(topic)] ==
            IF n = 0 THEN <<>>
            ELSE IF topic[n].id = id THEN Append(of[n - 1], topic[n]) ELSE of[n - 1]
    IN  of[Len(topic)]

\* The fetcher reads from the first message on, until there are none; a poll that
\* comes back empty ends it too, wherever it is.
FetchAll(topic, id) == {Of(topic, id)}
FetchCut(topic, id) == {SubSeq(Of(topic, id), 1, n) : n \in 0..Len(Of(topic, id))}

\* fetchLast takes the first message it meets: no offset is ever cached with it.
FetchLast(fetched) == SubSeq(fetched, 1, IF fetched = <<>> THEN 0 ELSE 1)

\* Every state event says what the state is from then on.
ApplyStateEvent(state, evt) == evt.value

\* Mutant: with a snapshot the events before it are taken as part of it.
ReplayFromSnapshot(snapshot, evts) ==
    FoldLeft(ApplyStateEvent, None, IF snapshot # <<>> THEN snapshot ELSE evts)

\* The snapshot, then all events, the ones before it included.
Replay(snapshot, evts) == FoldLeft(ApplyStateEvent, None, snapshot \o evts)

Recovered(snaps, evts) ==
    /\ root' = Replay(FetchLast(snaps), evts)
    /\ step' = "handle"
    /\ UNCHANGED <<setting, process, memory, redis, known, owner, asked, commands,
                   events, snapshots>>

\* Mutant: the next tick stores even if nothing was recovered.
RecoveringAnything == answer' = Event("recovered", Cmd.id, None)

\* What was recovered is stored by the next tick (see NextTick); answer says so.
Recovering ==
    answer' = IF root' = None THEN NoEvent ELSE Event("recovered", Cmd.id, None)

\* Mutant: a participant the repository does not have does not exist.
RecoverNothing ==
    /\ At("recover", ParticipantCmd)
    /\ root' = None
    /\ step' = "handle"
    /\ UNCHANGED <<setting, process, memory, redis, known, owner, faults, asked, commands,
                   answer, events, snapshots>>

Recover ==
    /\ At("recover", ParticipantCmd)
    /\ \/ /\ \E s \in FetchAll(snapshots, Cmd.id), e \in FetchAll(events, Cmd.id) : Recovered(s, e)
          /\ UNCHANGED faults
       \/ /\ \E s \in FetchCut(snapshots, Cmd.id), e \in FetchCut(events, Cmd.id) : Recovered(s, e)
          /\ Fails("fetch")
    /\ Recovering

--------------------------------------------------------------------------------
(* Handling *)

\* What the aggregate becomes, and the state event that says so.
Published(evt, v) ==
    /\ root' = v
    /\ answer' = evt
    /\ step' = IF answer.name = "recovered" THEN "tick" ELSE "publish"
    /\ UNCHANGED <<setting, process, redis, owner, faults, asked, commands, events, snapshots>>

\* A command that fails publishes no state event and stores nothing.
Refused ==
    /\ answer' = NoEvent
    /\ step' = IF answer.name = "recovered" THEN "tick" ELSE "commit"
    /\ UNCHANGED <<setting, process, memory, redis, owner, root, faults, asked, commands,
                   events, snapshots>>

\* The aggregate that was loaded changes, and with it the object the process may
\* remember, which is the same; or a new one is made.
Changed(evt) ==
    /\ Published(evt, evt.value)
    /\ IF InMemory(evt.id) # None THEN Remember(evt.id, evt.value) ELSE UNCHANGED memory
Made(evt) == Published(evt, evt.value) /\ UNCHANGED memory

\* Positions are counted up, so that they tell how often they changed.
CreateParticipant ==
    /\ At("handle", {"CreateParticipantCmd"})
    /\ \/ root # None /\ Refused
       \/ root = None /\ Made(ParticipantCreatedStateEvt(Cmd.id, 0))
    /\ UNCHANGED known

\* A known participant may be refused as well: see ReserveRuling.
ChangePosition ==
    /\ At("handle", {"ReservePayerFundsCmd", "CommitPayeeFundsCmd"})
    /\ \/ Refused
       \/ root # None /\ Changed(ParticipantPositionChangedStateEvt(Cmd.id, root + 1))
    /\ UNCHANGED known

SnapshotParticipant ==
    /\ At("handle", {"SnapshotParticipantStateCmd"})
    /\ \/ root = None /\ Refused
       \/ root # None /\ Changed(ParticipantStateSnapshotEvt(Cmd.id, root))
    /\ UNCHANGED known

\* The id counts as prepared before anything is published.
PrepareTransfer ==
    /\ At("load", {"PrepareTransferCmd"})
    /\ \E new \in BOOLEAN :
          /\ AddId(Cmd.id, new)
          /\ \/ ~new /\ Refused
             \/ new /\ Made(TransferPreparedStateEvt(Cmd.id, RECEIVED_PREPARE))

AckPayerFundsReserved ==
    /\ At("handle", {"AckPayerFundsReservedCmd"})
    /\ \/ root # RECEIVED_PREPARE /\ Refused
       \/ root = RECEIVED_PREPARE
          /\ Changed(TransferStateChangedStateEvt(Cmd.id, RESERVED))
    /\ UNCHANGED known

\* With a fulfilment that matches: see TransferCommands for the others.
FulfilTransfer ==
    /\ At("handle", {"FulfilTransferCmd"})
    /\ \/ root # RESERVED /\ Refused
       \/ root = RESERVED
          /\ Changed(TransferFulfiledStateEvt(Cmd.id, RECEIVED_FULFIL))
    /\ UNCHANGED known

AckPayeeFundsCommitted ==
    /\ At("handle", {"AckPayeeFundsCommittedCmd"})
    /\ \/ root # RECEIVED_FULFIL /\ Refused
       \/ root = RECEIVED_FULFIL
          /\ Changed(TransferStateChangedStateEvt(Cmd.id, COMMITTED))
    /\ UNCHANGED known

--------------------------------------------------------------------------------
(* Publishing, storing, committing *)

\* What was recovered goes to the repository as it is by now, before anything has
\* been published; nobody waits for it.
NextTick ==
    /\ commands # <<>> /\ step = "tick"
    /\ ParticipantStore(Cmd.id, root)
    /\ step' = IF answer = NoEvent THEN "commit" ELSE "publish"
    /\ UNCHANGED <<setting, process, known, owner, root, asked, commands, answer, events,
                   snapshots>>

PublishAnswer ==
    /\ commands # <<>> /\ step = "publish"
    /\ Opened("Cmd", "publisher")
    /\ IF answer.name = "ParticipantStateSnapshotEvt"
       THEN snapshots' = Append(snapshots, answer) /\ UNCHANGED events
       ELSE events' = Append(events, answer) /\ UNCHANGED snapshots
    /\ step' = "store"
    /\ UNCHANGED <<repoVars, asked, commands, answer>>

\* The publisher is closed: the error is swallowed.
PublishRefused ==
    /\ commands # <<>> /\ step = "publish"
    /\ ~Opened("Cmd", "publisher")
    /\ step' = "commit"
    /\ UNCHANGED <<repoVars, asked, commands, answer, events, snapshots>>

StoreRoot ==
    /\ commands # <<>> /\ step = "store"
    /\ ParticipantStore(Cmd.id, root) \/ TransferStore(Cmd.id, root)
    /\ step' = "commit"
    /\ UNCHANGED <<setting, process, known, owner, root, asked, commands, answer, events,
                   snapshots>>

\* The next command starts with nothing loaded.
Fresh == root' = None /\ answer' = NoEvent /\ step' = "load"

\* Once the consumer is disconnected commits fail, and nothing is taken any more.
Commit ==
    /\ commands # <<>> /\ step = "commit"
    /\ Opened("Cmd", "consumer")
    /\ commands' = Tail(commands)
    /\ Fresh
    /\ UNCHANGED <<setting, process, memory, redis, known, owner, faults, asked, events, snapshots>>

Handle ==
    \/ LoadRoot \/ Recover
    \/ CreateParticipant \/ ChangePosition \/ SnapshotParticipant
    \/ PrepareTransfer \/ AckPayerFundsReserved \/ FulfilTransfer \/ AckPayeeFundsCommitted
    \/ NextTick \/ PublishAnswer \/ PublishRefused \/ StoreRoot \/ Commit

\* A process that starts again remembers nothing, and takes the command it had not
\* committed once more.
HandlerForgets ==
    /\ memory' = [memory EXCEPT ![owner] = NothingRemembered]
    /\ known' = [known EXCEPT ![owner] = {}]
    /\ Fresh
    /\ UNCHANGED <<redis, owner, asked, commands, events, snapshots>>

CrashHandler == Fails("crash") /\ HandlerForgets /\ UNCHANGED <<setting, process>>

\* Between two commands the partition goes to another process.
Move ==
    /\ step = "load"
    /\ Fails("move")
    /\ owner' \in Proc \ {owner}
    /\ UNCHANGED <<setting, process, memory, redis, known, root, handlerVars>>

Expire ==
    /\ \E id \in Id : CacheExpires(id) \/ RedisExpires(id)
    /\ UNCHANGED <<setting, process, known, owner, root, handlerVars>>

================================================================================
