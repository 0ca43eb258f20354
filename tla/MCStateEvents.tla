------------------------------- MODULE MCStateEvents -------------------------------
(* Instances of StateEvents. *)
EXTENDS StateEvents

CONSTANTS a, p, q

MCId   == {a}
MCProc == {p, q}

At1(name) == Command(name, a)

Base == [application |-> "participants", started |-> TRUE, disableApi |-> FALSE, stops |-> 0,
         repo |-> ParticipantRepoOf("cachedpersistedredis"),
         duplicates |-> DuplicateRepoOf("redis-sharded"),
         handlers |-> {"Cmd"}, requests |-> <<>>, hours |-> 0, failures |-> {}, faults |-> 0]

\* A participant is created twice, moved before and after a snapshot.
ParticipantRequests ==
    <<At1("CreateParticipantCmd"), At1("ReservePayerFundsCmd"),
      At1("SnapshotParticipantStateCmd"), At1("CommitPayeeFundsCmd"),
      At1("CreateParticipantCmd")>>

\* A transfer is prepared twice.
TransferRequests ==
    <<At1("PrepareTransferCmd"), At1("AckPayerFundsReservedCmd"), At1("PrepareTransferCmd"),
      At1("FulfilTransferCmd"), At1("AckPayeeFundsCommittedCmd")>>

ParticipantRepoSettings ==
    {[Base EXCEPT !.repo = ParticipantRepoOf(type), !.requests = ParticipantRequests,
                  !.failures = {"crash", "move", "store", "fetch"}, !.faults = 2] :
        type \in {"memory", "redis", "cachedredis", "cachedpersistedredis"}}

\* Redis is behind, then ahead, and stays where it is: a creation that is not stored, a
\* recovery, and crashes before and after what follows is published.
AheadSettings ==
    {[Base EXCEPT !.repo = ParticipantRepoOf("cachedredis"),
                  !.requests = <<ParticipantRequests[1], ParticipantRequests[2],
                                 ParticipantRequests[2]>>,
                  !.failures = {"crash", "store"}, !.faults = 4]}

TransferRepoSettings ==
    {[Base EXCEPT !.application = "transfers", !.repo = TransferRepoOf(types[1]),
                  !.duplicates = DuplicateRepoOf(types[2]), !.requests = TransferRequests,
                  !.failures = {"crash", "move", "store", "expiry"}, !.faults = 2] :
        types \in {"memory", "nodecache", "redis", "cachedredis", "cachedpersistedredis"}
                      \X {"redis-sharded"}
                  \union {"redis"} \X {"redis", "memory"}}

\* A participant moves often enough to be due, and behind it; something fails, or an
\* hour passes.
OperatorRequests ==
    <<At1("CreateParticipantCmd"), At1("ReservePayerFundsCmd"), At1("CommitPayeeFundsCmd")>>
Operating == [Base EXCEPT !.handlers = {"Cmd", "SnapshotOperator"},
                          !.requests = SubSeq(OperatorRequests, 1, 2)]

OperatorSettings ==
    {[Operating EXCEPT !.requests = OperatorRequests, !.failures = {"state"}, !.faults = 1],
     [Operating EXCEPT !.failures = {"operatorCrash", "publish"}, !.faults = 1],
     [Operating EXCEPT !.hours = 1]}

ReadSettings ==
    {[Base EXCEPT !.handlers = {"Cmd", "StateEvt"}, !.requests = ParticipantRequests,
                  !.failures = {"crash", "readCrash", "mongo"}, !.faults = 2],
     [Base EXCEPT !.application = "transfers", !.repo = TransferRepoOf("cachedpersistedredis"),
                  !.handlers = {"Cmd", "StateEvt"}, !.requests = TransferRequests,
                  !.failures = {"crash", "readCrash", "mongo"}, !.faults = 2]}

\* A process starts and gets a SIGINT at any time: with all handlers, before anything
\* is asked for; with some, at work.
Starting == [Base EXCEPT !.started = FALSE, !.stops = 1, !.failures = {"down"}, !.faults = 1]

ProcessSettings ==
    {[Starting EXCEPT !.handlers = {}],
     [Starting EXCEPT !.handlers = {"Cmd", "StateEvt"},
                      !.requests = SubSeq(ParticipantRequests, 1, 2)],
     [Starting EXCEPT !.handlers = {"Cmd", "SnapshotOperator"}, !.failures = {},
                      !.requests = SubSeq(ParticipantRequests, 1, 1)],
     [Starting EXCEPT !.application = "transfers",
                      !.repo = TransferRepoOf("cachedpersistedredis"),
                      !.disableApi = TRUE, !.handlers = {},
                      !.requests = SubSeq(TransferRequests, 1, 2)],
     [Starting EXCEPT !.application = "transfers", !.repo = TransferRepoOf("nodecache"),
                      !.duplicates = DuplicateRepoOf("memory"), !.handlers = {"Cmd"}],
     [Starting EXCEPT !.application = "simulator", !.handlers = {}],
     [Starting EXCEPT !.application = "adapter", !.handlers = {}]}

\* A SIGINT finds the read side at each of a transfer's events.
InterruptedSettings ==
    {[s EXCEPT !.requests = SubSeq(@, 1, 4), !.stops = 1, !.faults = 0] :
        s \in {x \in ReadSettings : x.application = "transfers"}}

MCSettings == ProcessSettings \union InterruptedSettings \union ParticipantRepoSettings
              \union AheadSettings \union TransferRepoSettings \union OperatorSettings \union ReadSettings

================================================================================
