-------------------------------- MODULE Processes --------------------------------
(******************************************************************************)
(* A process of participants, transfers or the simulator from its start to    *)
(* its end: it opens what its handlers need, one after the other, then        *)
(* answers for its health and listens to SIGINT.  On SIGINT all handlers      *)
(* close what they have open at the same time, and nobody waits for them: the *)
(* process ends when its server has.  The API adapter starts the other way    *)
(* round, its server first, and has no listener.                              *)
(******************************************************************************)
EXTENDS Integers, Sequences, FiniteSets, SequencesExt

CONSTANT Settings   \* what a behaviour may start from, see Setting in Repositories

VARIABLES
    setting,    \* what this behaviour started from
    faults,     \* failures so far: how many, and of which kinds
    process     \* phase, what is open, whether its server answers, SIGINTs so far

Fails(kind) ==
    /\ kind \in setting.failures
    /\ faults.count < setting.faults
    /\ faults' = [count |-> faults.count + 1, kinds |-> faults.kinds \union {kind}]

--------------------------------------------------------------------------------
(* The handlers, what they open and what they close, in this order *)

ParticipantEvtStart      == <<"repo", "publisher", "consumer">>
ParticipantCmdStart      == <<"repo", "offsets", "publisher", "consumer">>
ParticipantStateEvtStart == <<"mongo", "consumer">>
SnapshotOperatorStart    == <<"repo", "ids", "publisher", "timer", "consumer">>
TransferEvtStart         == <<"publisher", "consumer">>
TransferCmdStart         == <<"repo", "duplicates", "publisher", "consumer">>
TransferStateEvtStart    == <<"mongo", "consumer">>
SimulatorEvtStart        == <<"publisher", "consumer">>
NotificationStart        == <<"producers", "consumer">>

\* Mutant: the publisher before the consumer.
PublisherFirst == <<"publisher", "consumer", "repo", "offsets">>

ParticipantEvtDestroy      == <<"consumer", "publisher", "repo">>
ParticipantCmdDestroy      == <<"consumer", "publisher", "repo", "offsets">>
ParticipantStateEvtDestroy == <<"consumer", "mongo">>
TransferEvtDestroy         == <<"consumer", "publisher">>
TransferCmdDestroy         == <<"consumer", "publisher", "repo", "duplicates">>
TransferStateEvtDestroy    == <<"consumer", "mongo">>
SimulatorEvtDestroy        == <<"consumer", "publisher">>

\* The client the ids were read with is never closed; the timer stops at SIGINT,
\* before the first of these.
SnapshotOperatorDestroy == <<"consumer", "repo", "publisher">>

Resource == {"repo", "ids", "offsets", "duplicates", "mongo", "publisher", "producers",
             "consumer", "timer"}

\* The handlers a process runs: without an option all of them.
Runs(handler) == setting.handlers = {} \/ handler \in setting.handlers

ParticipantHandlers == <<"Evt", "Cmd", "StateEvt", "SnapshotOperator">>
TransferHandlers    == <<"Evt", "Cmd", "StateEvt">>

SimulatorHandlers   == <<"Evt">>
AdapterHandlers     == <<"Notification">>

Starts ==
    [participants |-> [Evt |-> ParticipantEvtStart, Cmd |-> ParticipantCmdStart,
                       StateEvt |-> ParticipantStateEvtStart,
                       SnapshotOperator |-> SnapshotOperatorStart],
     transfers    |-> [Evt |-> TransferEvtStart, Cmd |-> TransferCmdStart,
                       StateEvt |-> TransferStateEvtStart],
     simulator    |-> [Evt |-> SimulatorEvtStart],
     adapter      |-> [Notification |-> NotificationStart]]

Destroys ==
    [participants |-> [Evt |-> ParticipantEvtDestroy, Cmd |-> ParticipantCmdDestroy,
                       StateEvt |-> ParticipantStateEvtDestroy,
                       SnapshotOperator |-> SnapshotOperatorDestroy],
     transfers    |-> [Evt |-> TransferEvtDestroy, Cmd |-> TransferCmdDestroy,
                       StateEvt |-> TransferStateEvtDestroy],
     simulator    |-> [Evt |-> SimulatorEvtDestroy]]

IsParticipants == setting.application = "participants"
IsAdapter      == setting.application = "adapter"

InOrder == CASE IsParticipants                    -> ParticipantHandlers
             [] IsAdapter                         -> AdapterHandlers
             [] setting.application = "transfers" -> TransferHandlers
             [] setting.application = "simulator" -> SimulatorHandlers

Handlers == {h \in Range(InOrder) : Runs(h)}

StartOf(handler)   == Starts[setting.application][handler]
DestroyOf(handler) == Destroys[setting.application][handler]

ToOpen == UNION {{h} \X Range(StartOf(h)) : h \in Handlers}

Opened(handler, resource) == <<handler, resource>> \in process.open
Missing == ToOpen \ process.open

\* One handler after the other, each with its resources one after the other.
Before(s, x, y) == \E i, j \in DOMAIN s : i < j /\ s[i] = x /\ s[j] = y
Precedes(r, s)  == IF r[1] = s[1] THEN Before(StartOf(r[1]), r[2], s[2])
                                  ELSE Before(InOrder, r[1], s[1])
IsNext(r)       == r \in Missing /\ \A s \in Missing \ {r} : Precedes(r, s)

--------------------------------------------------------------------------------

Off(stops) == [phase |-> "off", open |-> {}, api |-> FALSE, stops |-> stops]

ProcessTypeOK ==
    /\ setting \in Settings
    /\ faults.count \in 0..setting.faults
    /\ faults.kinds \subseteq setting.failures
    /\ process.phase \in {"off", "starting", "running", "stopping", "stuck"}
    /\ process.open \subseteq Handlers \X Resource
    /\ process.api \in BOOLEAN
    /\ process.stops \in 0..setting.stops

\* The process is there already, or starts.
ProcessInit ==
    /\ setting \in Settings
    /\ faults = [count |-> 0, kinds |-> {}]
    /\ process = IF setting.started
                 THEN [phase |-> "running", open |-> ToOpen, api |-> TRUE, stops |-> 0]
                 ELSE Off(0)

Restart ==
    /\ process.phase = "off"
    /\ process' = [process EXCEPT !.phase = "starting"]
    /\ UNCHANGED <<setting, faults>>

Open(r) == process' = [process EXCEPT !.open = @ \union {r}] /\ UNCHANGED faults

\* init rejects, and start with it: nobody catches that, so that the process stays
\* with what it has opened and does nothing more.
CannotOpen == Fails("down") /\ process' = [process EXCEPT !.phase = "stuck"]

MayOpen(r) == Open(r) \/ CannotOpen

OpenRedis(r)     == MayOpen(r)
OpenMongo(r)     == MayOpen(r)
OpenPublisher(r) == MayOpen(r)

\* Clients of redis, of which only the in-memory variants need none.
OpenRepo(r) ==
    IF r[1] = "Cmd" /\ setting.repo \in {"InMemoryParticipantStateRepo",
                "InMemoryTransferStateRepo", "InMemoryNodeCacheTransferStateRepo"}
    THEN Open(r) ELSE OpenRedis(r)
OpenDuplicates(r) == IF setting.duplicates = "InMemoryTransferDuplicateRepo"
                     THEN Open(r) ELSE OpenRedis(r)
OpenOffsets(r)    == OpenRedis(r)

\* A consumer waits until it is connected; the adapter's rejects.
OpenConsumer(r) == IF IsAdapter THEN MayOpen(r) ELSE Open(r)

\* The error of a producer that cannot connect ends the adapter (see ConnectFails
\* in Producers).
OpenProducers(r) == \/ Open(r)
                    \/ Fails("down") /\ process' = Off(process.stops)

OpenNext ==
    /\ process.phase = "starting"
    /\ IsAdapter => process.api
    /\ \E r \in Missing :
          /\ IsNext(r)
          /\ \/ r[2] = "repo" /\ OpenRepo(r)
             \/ r[2] = "ids" /\ OpenRedis(r)
             \/ r[2] = "duplicates" /\ OpenDuplicates(r)
             \/ r[2] = "offsets" /\ OpenOffsets(r)
             \/ r[2] = "mongo" /\ OpenMongo(r)
             \/ r[2] = "publisher" /\ OpenPublisher(r)
             \/ r[2] = "producers" /\ OpenProducers(r)
             \/ r[2] \in {"consumer", "timer"} /\ OpenConsumer(r)
    /\ UNCHANGED setting

\* The adapter takes requests before it has producers or tells anybody of a
\* transfer.
AdapterListens ==
    /\ process.phase = "starting" /\ IsAdapter /\ ~process.api
    /\ process' = [process EXCEPT !.api = TRUE]
    /\ UNCHANGED <<setting, faults>>

\* Otherwise the server comes last, and after it the listener to SIGINT.
ServeApi == process' = [process EXCEPT !.phase = "running", !.api = ~setting.disableApi]
Ready ==
    /\ process.phase = "starting" /\ Missing = {}
    /\ ServeApi
    /\ UNCHANGED <<setting, faults>>

Listens == process.phase = "running" /\ ~IsAdapter

Interrupt ==
    /\ Listens
    /\ process.stops < setting.stops
    /\ process' = [process EXCEPT !.phase = "stopping", !.stops = @ + 1]
    /\ UNCHANGED <<setting, faults>>

\* Without the listener SIGINT ends the process at once.
InterruptEarly ==
    /\ process.phase \in {"starting", "running", "stuck"} /\ ~Listens
    /\ process.stops < setting.stops
    /\ process' = Off(process.stops + 1)
    /\ UNCHANGED <<setting, faults>>

\* Every handler closes the next it has open.
Close(handler, resource) == process' = [process EXCEPT !.open = @ \ {<<handler, resource>>}]
Destroy ==
    /\ process.phase = "stopping"
    /\ \E h \in Handlers : \E k \in DOMAIN DestroyOf(h) :
          /\ Opened(h, DestroyOf(h)[k])
          /\ \A j \in 1..(k - 1) : ~Opened(h, DestroyOf(h)[j])
          /\ Close(h, DestroyOf(h)[k])
    /\ UNCHANGED <<setting, faults>>

\* The consumer is disconnected while its handler is at a message: its commit
\* fails, and it takes no other.
CommitRefused(handler) ==
    /\ process.phase = "stopping"
    /\ Opened(handler, "consumer")
    /\ Close(handler, "consumer")
    /\ UNCHANGED faults

CloseApi ==
    /\ process.phase = "stopping" /\ process.api
    /\ process' = [process EXCEPT !.api = FALSE]
    /\ UNCHANGED <<setting, faults>>

\* Mutant: the process ends by itself, when nothing is open any more.
ExitWhenClosed ==
    /\ process.phase = "stopping" /\ ~process.api
    /\ process.open = {}
    /\ process' = Off(process.stops)
    /\ UNCHANGED <<setting, faults>>

\* Whatever is still open or being worked on.
Exit ==
    /\ process.phase = "stopping" /\ ~process.api
    /\ process' = Off(process.stops)
    /\ UNCHANGED <<setting, faults>>

================================================================================
