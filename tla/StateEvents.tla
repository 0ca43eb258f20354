-------------------------------- MODULE StateEvents --------------------------------
(******************************************************************************)
(* State events from the handler that publishes them to all that live on      *)
(* them: the recovery of an aggregate, the snapshot operator and the read     *)
(* side.                                                                      *)
(******************************************************************************)
EXTENDS SnapshotOperator, ReadSide

vars == <<repoVars, handlerVars, operatorVars, readVars>>

\* Every variable holds a value of its kind.
TypeOK == ProcessTypeOK /\ RepoTypeOK /\ HandlerTypeOK /\ OperatorTypeOK /\ ReadTypeOK

Init == ProcessInit /\ RepoInit /\ HandlerInit /\ OperatorInit /\ ReadInit

HandlerNext == Request \/ Handle \/ CrashHandler \/ Move \/ Expire
OperatorNext == Operate \/ PublishCommandsFails \/ CrashOperator \/ Hour
ReadNext == ReadStateEvent \/ MongoFails

\* The operator goes on opening when it has its counters.  What ends, forgets.
Stays == UNCHANGED <<memory, redis, known, owner, root, handlerVars, operatorVars>>
Forgets == HandlerForgets /\ OperatorForgets /\ UNCHANGED <<saved, ticks, heard, since, hours>>
GoesOn ==
    \/ Restart /\ Stays
    \/ OpenNext /\ (IsNext(<<"SnapshotOperator", "publisher">>) => up) /\ Stays
    \/ AdapterListens /\ Stays
    \/ Ready /\ Stays
    \/ CloseApi /\ Stays
    \/ Exit /\ Forgets
ProcessNext ==
    \/ GoesOn
    \/ Interrupt /\ Stays
    \/ InterruptEarly /\ Forgets
    \/ Destroy /\ Stays

Next ==
    \/ ProcessNext /\ UNCHANGED readVars
    \/ HandlerNext /\ UNCHANGED <<operatorVars, readVars>>
    \/ OperatorNext /\ UNCHANGED readVars
    \/ ReadNext /\ UNCHANGED operatorVars

Spec == Init /\ [][Next]_vars

\* Every process that runs takes its next message, the timer goes on, and what is
\* being published is.  A process goes on starting and, after a SIGINT, ends and
\* is started again; whether its handlers manage to close first is left open.
FairSpec ==
    /\ Spec
    /\ WF_vars(GoesOn /\ UNCHANGED readVars)
    /\ WF_vars(Handle /\ UNCHANGED <<operatorVars, readVars>>)
    /\ WF_vars(StartOperator /\ UNCHANGED readVars)
    /\ WF_vars(OnTimer /\ UNCHANGED readVars)
    /\ WF_vars(Execute /\ UNCHANGED readVars)
    /\ WF_vars(HearStateEvent /\ UNCHANGED readVars)
    /\ WF_vars(HearSnapshot /\ UNCHANGED readVars)
    /\ WF_vars(PublishCommands /\ UNCHANGED readVars)

--------------------------------------------------------------------------------
(* What a handler loads *)

\* A process that ends at a SIGINT is one that crashed.
Happened == faults.kinds \union (IF process.stops > 0 THEN {"crash"} ELSE {})

Volatile == {"InMemoryTransferStateRepo", "InMemoryNodeCacheTransferStateRepo",
             "CachedRedisTransferStateRepo"}

\* The failures after which a transfer that was prepared is not found any more.
ForgottenAfter ==
    CASE Repo = "InMemoryNodeCacheTransferStateRepo"     -> {"crash", "move", "expiry"}
      [] Repo = "InMemoryTransferStateRepo"              -> {"crash", "move"}
      [] Repo = "CachedRedisTransferStateRepo"           -> {"crash", "move"}
      [] Repo = "RedisTransferStateRepo"                 -> {"crash", "store", "expiry"}
      [] Repo = "CachedPersistedRedisTransferStateRepo"  -> {"crash", "store", "expiry"}
      [] OTHER                                           -> {"fetch"}

\* Those after which an older state is found.  A participant in the memory of a
\* process is recovered after a crash; one in redis is not.
StaleAfter ==
    CASE Repo = "InMemoryParticipantStateRepo"           -> {"move", "fetch"}
      [] Repo = "RedisParticipantStateRepo"              -> {"crash", "store", "fetch"}
      [] Repo = "CachedRedisParticipantStateRepo"        -> {"crash", "move", "fetch"}
      [] Repo \in Volatile                               -> {"move"}
      [] Repo = "RedisTransferStateRepo"                 -> {"crash", "store"}
      [] OTHER                                           -> {"crash", "move", "store", "fetch"}

\* A participant that had to be recovered is stored with its change before that is
\* published: after a crash in between redis has a state no event ever told of, and
\* keeps it where later changes only reach the process's memory.
AheadAfter ==
    IF Repo \in ParticipantRepo \ {"InMemoryParticipantStateRepo"} THEN {"crash"} ELSE {}

States(id)    == {e.value : e \in Range(Of(events, id))}
LastState(id) == IF Of(events, id) = <<>> THEN None ELSE Last(Of(events, id)).value

\* A command is ruled on with the state its aggregate's last state event gave it,
\* unless something failed that this repository does not survive: every repository
\* has its own (load and store of participants' and transfers' infrastructure,
\* BaseEventSourcingAggregate.load).
LoadsLast ==
    (commands # <<>> /\ step = "handle" /\ Cmd.id \in Id) =>
        LET last == LastState(Cmd.id)
        IN  \/ root = last
            \/ root = None /\ Happened \intersect ForgottenAfter # {}
            \/ root \in States(Cmd.id) /\ Happened \intersect StaleAfter # {}
            \/ root - 1 \in States(Cmd.id) /\ Happened \intersect AheadAfter # {}

\* The state events that said id is there.
Created(id) == {k \in DOMAIN events :
    /\ events[k].id = id
    /\ events[k].name \in {"ParticipantCreatedStateEvt", "TransferPreparedStateEvt"}}

\* However often it is asked for, a participant is created once as long as its
\* events are fetched to the end, and a transfer is prepared once with a duplicate
\* repository that answers (processCreateParticipantCommand, PrepareTransfer).
CreatedOnce ==
    \A id \in Id : \/ Cardinality(Created(id)) <= 1
                   \/ "fetch" \in faults.kinds
                   \/ setting.duplicates = "InMemoryTransferDuplicateRepo"

--------------------------------------------------------------------------------
(* Processes that come and go *)

Creating(s, id) == Cardinality({k \in DOMAIN s : s[k] = Command("CreateParticipantCmd", id)})

\* A participant whose creation was asked for and committed has been created, even
\* if a SIGINT found the handler at it: what closes first is the consumer, so that
\* a command whose events could not be published any more is not committed either
\* (killProcess, ParticipantCmdHandler.destroy). A command whose reads or
\* publications fail is logged and committed all the same: the modules of the
\* command handlers have these failures, this one does not.
CommittedIsCreated ==
    \A id \in Id :
        Creating(SubSeq(setting.requests, 1, asked), id) > Creating(commands, id)
            => Created(id) # {}

\* A SIGINT ends the process, whatever is open or being worked on, and the next
\* one takes the commands up: in the end a process runs that has all its handlers,
\* or stands half started because something it needed was down (killProcess and
\* the handler command of participants and transfers).
RunsAgain ==
    <>[](\/ process.phase = "running" /\ (setting.started \/ Missing = {})
            /\ ((IsParticipants /\ Runs("SnapshotOperator")) \/ commands = <<>>)
         \/ process.phase = "stuck" /\ "down" \in faults.kinds)

--------------------------------------------------------------------------------
(* Those that follow *)

Lost(kind) == IF kind \in faults.kinds THEN faults.count ELSE 0

\* In memory and in redis, a participant's counter has counted every event it was told
\* of since its last snapshot, except for one per save that failed: restarts,
\* repeated events and executions under way only bring the next snapshot nearer
\* (ParticipantSnapshotState: "this avoids loosing count on restarts").
NeverUndercounts ==
    \A c \in {counters, saved} : \A id \in DOMAIN c \intersect Id :
        c[id].left <= MaxEvents - since[id] + Lost("state")

\* The operator asks for snapshots until every participant with events has had one
\* within the hour and the number of events allowed, whatever failed before (ParticipantSnapshotOperator._execute and _messageHandler).
SnapshotsTaken ==
    IsParticipants /\ Runs("SnapshotOperator") =>
        <>[](\/ process.phase = "stuck"
             \/ up /\ \A id \in Id : Of(events, id) # <<>> =>
                       /\ id \in DOMAIN counters
                       /\ counters[id].left > 0 /\ counters[id].last = "recent")

\* The operator knows participants, by their ids (start, "create a
\* ParticipantSnapshotState for each known participant ID").
OperatorKnowsParticipants == DOMAIN counters \subseteq Id

\* The read side shows every aggregate as of the last state event it took or, after a
\* restart, the next one already; there are more documents of an aggregate than
\* it was created times only for restarts (_messageHandler of the state event
\* handlers of participants and transfers).
ReadSideFollows ==
    "mongo" \notin faults.kinds =>
        \A id \in Id :
            LET Shown(n) == Of(SubSeq(events, 1, n), id)
                restarts == Lost("readCrash") + process.stops
            IN  /\ Shown(read) # <<>> /\ Cardinality(Created(id)) = 1 =>
                       /\ docs[id] # <<>>
                       /\ Head(docs[id]) \in {Last(Shown(n)).value :
                              n \in read..(IF restarts > 0 /\ read < Len(events) THEN read + 1 ELSE read)}
                /\ Len(docs[id]) <= Cardinality(Created(id)) + restarts

================================================================================
