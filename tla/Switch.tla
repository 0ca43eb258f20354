--------------------------------- MODULE Switch ---------------------------------
(******************************************************************************)
(* The switch as a whole: the API adapter that turns the FSPs' requests into  *)
(* messages, the event handlers that turn events into commands, the command   *)
(* handlers of the transfers and of the participants, and the handler that    *)
(* tells the FSPs (or the simulator that plays the payee).  They share        *)
(* nothing but the messages in Kafka.                                         *)
(*                                                                            *)
(* ParticipantCommands and TransferCommands look inside the two command       *)
(* handlers.  Here each is one process that never fails to publish or to      *)
(* store, so that the chain from a request to the answer can be followed; what *)
(* fails here is what the components leave out: a process between two steps,  *)
(* a relayed command, a callback, a request that never reached the brokers.   *)
(******************************************************************************)
EXTENDS Integers, Sequences, FiniteSets, Functions

CONSTANTS
    Participant,   \* ids of the participants (FSPs)
    Transfer,      \* ids of the transfers
    Payer, Payee,  \* Transfer -> Participant
    Amount,        \* Transfer -> amount, positive
    Limit,         \* Participant -> net debit cap
    Matching,      \* transfers whose condition the simulator's preimage meets
    Queried,       \* transfers an FSP asks the state of
    Confirm,       \* SEND_TRANSFER_CONFIRMATION_TO_PAYEE
    NoHand,        \* no message in hand
    Settings,      \* what a behaviour may start from, see Setting
    MaxAnswers,    \* bound: times the payee answers a transfer
    FaultKinds     \* kinds of failure this instance may meet

\* How a payee answers: the preimage of the condition, another one, or no
\* preimage and the state ABORTED.
Answers == {"commit", "mismatch", "abort"}
Status  == {"none", "RECEIVED_PREPARE", "RESERVED", "RECEIVED_FULFIL", "COMMITTED"}
Fault   == {"crash", "crashInPrepare", "publish", "callback", "accept"}
Process == {"adapter", "transfers", "participants", "simulator"}

\* The participants the repository knows; who handles the events for the FSPs,
\* the adapter or the simulator; and two bounds: how often each payer sends its
\* request, and how many failures there are.
Setting == [registered : SUBSET Participant, payeeSide : {"adapter", "simulator"},
            requests : [Transfer -> Nat], faults : Nat]

ASSUME SwitchAssumption ==
    /\ IsFiniteSet(Transfer)
    /\ Payer \in [Transfer -> Participant]
    /\ Payee \in [Transfer -> Participant]
    /\ Amount \in [Transfer -> Nat \ {0}]
    /\ Limit \in [Participant -> Int]
    /\ Matching \subseteq Transfer
    /\ Queried \subseteq Transfer
    /\ Confirm \in BOOLEAN
    /\ Settings \subseteq Setting
    /\ MaxAnswers \in Nat
    /\ FaultKinds \subseteq Fault

VARIABLES
    setting,    \* what this behaviour started from
    log,        \* Queue -> messages appended, oldest first
    offset,     \* Group -> Queue -> offset the group has committed
    hand,       \* Group -> message it works on, or NoHand
    seen,       \* transfer ids in the set of duplicates
    status,     \* Transfer -> status in redis
    refused,    \* transfers the command handler's cache holds as RECEIVED_ERROR
    position,   \* Participant -> position in redis
    requests,   \* Transfer -> requests the adapter answered with 202
    answers,    \* Transfer -> answers of the payee the adapter took
    told,       \* Transfer -> callback -> times the FSP received it
    unread,     \* messages on topics that have no consumer
    faults      \* failures so far: how many, and of which kinds

fspVars  == <<requests, answers, told, unread>>
cmdVars  == <<seen, status, refused, position>>
vars == <<setting, log, offset, hand, seen, status, refused, position, requests,
          answers, told, unread, faults>>

--------------------------------------------------------------------------------
(* Messages: every class fixes its topic and its key *)

\* A queue is what one key puts into one topic: within it the order is kept.
Queue == ({"MLIngressEvents", "TransferCommands", "TransferDomainEvents",
           "ParticipantDomainEvents"} \X Transfer) \union
         ({"ParticipantCommands", "ParticipantDomainEvents"} \X Participant)

\* What an FSP receives: the payee is asked to fulfil, the payer and perhaps the
\* payee are told that the transfer is fulfilled.
Callback == {"payeeAsked", "payerTold", "payeeTold"}

Msg(topic, key, name, t) ==
    [queue |-> <<topic, key>>, name |-> name, t |-> t, how |-> "none"]

TransferPrepareRequestedEvt(t) ==
    Msg("MLIngressEvents", t, "TransferPrepareRequestedEvt", t)
TransferFulfilRequestedEvt(t, how) ==
    [Msg("MLIngressEvents", t, "TransferFulfilRequestedEvt", t) EXCEPT !.how = how]

PrepareTransferCmd(t)  == Msg("TransferCommands", t, "PrepareTransferCmd", t)
AckPayerFundsReservedCmd(t) ==
    Msg("TransferCommands", t, "AckPayerFundsReservedCmd", t)
FulfilTransferCmd(t, how) ==
    [Msg("TransferCommands", t, "FulfilTransferCmd", t) EXCEPT !.how = how]
AckPayeeFundsCommittedCmd(t) ==
    Msg("TransferCommands", t, "AckPayeeFundsCommittedCmd", t)

TransferPrepareAcceptedEvt(t) ==
    Msg("TransferDomainEvents", t, "TransferPrepareAcceptedEvt", t)
TransferPreparedEvt(t) == Msg("TransferDomainEvents", t, "TransferPreparedEvt", t)
TransferFulfilAcceptedEvt(t) ==
    Msg("TransferDomainEvents", t, "TransferFulfilAcceptedEvt", t)
TransferFulfilledEvt(t) == Msg("TransferDomainEvents", t, "TransferFulfilledEvt", t)
DuplicateTransferDetectedEvt(t) ==
    Msg("TransferDomainEvents", t, "DuplicateTransferDetectedEvt", t)
TransferNotFoundEvt(t) == Msg("TransferDomainEvents", t, "TransferNotFoundEvt", t)
InvalidTransferEvt(t)  == Msg("TransferDomainEvents", t, "InvalidTransferEvt", t)

ReservePayerFundsCmd(t) ==
    Msg("ParticipantCommands", Payer[t], "ReservePayerFundsCmd", t)
CommitPayeeFundsCmd(t)  ==
    Msg("ParticipantCommands", Payee[t], "CommitPayeeFundsCmd", t)

PayerFundsReservedEvt(t) ==
    Msg("ParticipantDomainEvents", t, "PayerFundsReservedEvt", t)
PayeeFundsCommittedEvt(t) ==
    Msg("ParticipantDomainEvents", t, "PayeeFundsCommittedEvt", t)
NetCapLimitExceededEvt(t) ==
    Msg("ParticipantDomainEvents", Payer[t], "NetCapLimitExceededEvt", t)
InvalidParticipantEvt(x, t) ==
    Msg("ParticipantDomainEvents", x, "InvalidParticipantEvt", t)

MessageName ==
    {"TransferPrepareRequestedEvt", "TransferFulfilRequestedEvt", "PrepareTransferCmd",
     "AckPayerFundsReservedCmd", "FulfilTransferCmd", "AckPayeeFundsCommittedCmd",
     "TransferPrepareAcceptedEvt", "TransferPreparedEvt", "TransferFulfilAcceptedEvt",
     "TransferFulfilledEvt", "DuplicateTransferDetectedEvt", "TransferNotFoundEvt",
     "InvalidTransferEvt", "ReservePayerFundsCmd", "CommitPayeeFundsCmd",
     "PayerFundsReservedEvt", "PayeeFundsCommittedEvt", "NetCapLimitExceededEvt",
     "InvalidParticipantEvt"}
Message == [queue : Queue, name : MessageName, t : Transfer,
            how : Answers \union {"none"}]

Copies(m)    == Cardinality({i \in DOMAIN log[m.queue] : log[m.queue][i] = m})
Published(m) == \E i \in DOMAIN log[m.queue] : log[m.queue][i] = m

--------------------------------------------------------------------------------
(* Handlers: each is a consumer group of its own, in one of the processes *)

TransferEvtHandler ==
    [process |-> "transfers",
     topics  |-> {"MLIngressEvents", "ParticipantDomainEvents"},
     names   |-> {"PayerFundsReservedEvt", "PayeeFundsCommittedEvt",
                  "TransferPrepareRequestedEvt", "TransferFulfilRequestedEvt"}]

TransferCmdHandler ==
    [process |-> "transfers",
     topics  |-> {"TransferCommands"},
     names   |-> {"PrepareTransferCmd", "AckPayerFundsReservedCmd",
                  "FulfilTransferCmd", "AckPayeeFundsCommittedCmd"}]

ParticipantEvtHandler ==
    [process |-> "participants",
     topics  |-> {"TransferDomainEvents"},
     names   |-> {"TransferPrepareAcceptedEvt", "TransferFulfilAcceptedEvt"}]

ParticipantCmdHandler ==
    [process |-> "participants",
     topics  |-> {"ParticipantCommands"},
     names   |-> {"ReservePayerFundsCmd", "CommitPayeeFundsCmd"}]

SimulatorEvtHandler ==
    [process |-> "simulator",
     topics  |-> {"TransferDomainEvents"},
     names   |-> {"TransferPreparedEvt", "TransferFulfilledEvt"}]

NotificationHandler ==
    [process |-> "adapter",
     topics  |-> {"TransferDomainEvents"},
     names   |-> {"TransferPreparedEvt", "TransferFulfilledEvt"}]

Handler == [transferEvt    |-> TransferEvtHandler,
            transferCmd    |-> TransferCmdHandler,
            participantEvt |-> ParticipantEvtHandler,
            participantCmd |-> ParticipantCmdHandler,
            simulatorEvt   |-> SimulatorEvtHandler,
            notification   |-> NotificationHandler]
Group == DOMAIN Handler

Reads(g)   == {q \in Queue : q[1] \in Handler[g].topics}
Active(g)  == Handler[g].process \in {"transfers", "participants", setting.payeeSide}

\* Mutant: a message of another name is not committed in passing.
DueInTurn(g, q, i) ==
    /\ i = offset[g][q] + 1
    /\ log[q][i].name \in Handler[g].names

\* Offset i of q is the next message group g has to handle: what lies before it
\* has a name the group did not subscribe to and is committed in passing.
Due(g, q, i) ==
    LET Subscribed(j) == log[q][j].name \in Handler[g].names
    IN  /\ Subscribed(i)
        /\ \A j \in (offset[g][q] + 1)..(i - 1) : ~Subscribed(j)

Take(g, q, i) ==
    /\ Active(g)
    /\ hand[g] = NoHand
    /\ q \in Reads(g)
    /\ i \in (offset[g][q] + 1)..Len(log[q])
    /\ Due(g, q, i)

\* The steps a message in hand still has to go through.  A command that
\* succeeded leaves what it has to store.
Step == {"send", "store", "commit"}
Hand(g) == [queue : Queue, at : Nat, step : Step,
            write : IF g = "participantCmd" THEN Int ELSE Status]

ASSUME HandAssumption == \A g \in Group : NoHand \notin Hand(g)

GoOn(g, q, i, step, write) ==
    hand' = [hand EXCEPT ![g] = [queue |-> q, at |-> i, step |-> step, write |-> write]]

Publish(m) == log' = [log EXCEPT ![m.queue] = Append(@, m)]

Failure(kind) ==
    /\ kind \in FaultKinds
    /\ faults.count < setting.faults
    /\ faults' = [count |-> faults.count + 1, kinds |-> faults.kinds \union {kind}]

--------------------------------------------------------------------------------
TypeOK ==
    /\ setting \in Settings
    /\ log \in [Queue -> Seq(Message)]
    /\ offset \in [Group -> [Queue -> Nat]]
    /\ \A g \in Group : hand[g] \in Hand(g) \union {NoHand}
    /\ seen \in SUBSET Transfer
    /\ status \in [Transfer -> Status]
    /\ refused \in SUBSET Transfer
    /\ position \in [Participant -> Int]
    /\ requests \in [Transfer -> Nat]
    /\ answers \in [Transfer -> Nat]
    /\ told \in [Transfer -> [Callback -> Nat]]
    /\ unread \in SUBSET ({"get", "error"} \X Transfer)
    /\ faults \in [count : Nat, kinds : SUBSET Fault]

\* The groups have committed offsets before, so none starts at the latest
\* message; no transfer is under way.
Init ==
    /\ setting \in Settings
    /\ log = [q \in Queue |-> <<>>]
    /\ offset = [g \in Group |-> [q \in Queue |-> 0]]
    /\ hand = [g \in Group |-> NoHand]
    /\ seen = {}
    /\ status = [t \in Transfer |-> "none"]
    /\ refused = {}
    /\ position = [x \in Participant |-> 0]
    /\ requests = [t \in Transfer |-> 0]
    /\ answers = [t \in Transfer |-> 0]
    /\ told = [t \in Transfer |-> [c \in Callback |-> 0]]
    /\ unread = {}
    /\ faults = [count |-> 0, kinds |-> {}]

--------------------------------------------------------------------------------
(* The API of the adapter *)

Requested(t) ==
    /\ requests[t] < setting.requests[t]
    /\ requests' = [requests EXCEPT ![t] = @ + 1]
    /\ UNCHANGED <<setting, offset, hand, cmdVars, answers, told, unread>>

CreateTransfer(t) ==
    /\ Requested(t)
    /\ Publish(TransferPrepareRequestedEvt(t))
    /\ UNCHANGED faults

\* The producer resolves when the message is in its own queue: the adapter
\* answers 202, and a crash before the delivery loses the request.
CreateTransferLost(t) ==
    /\ Requested(t)
    /\ Failure("accept")
    /\ UNCHANGED log

Answered(t) ==
    /\ setting.payeeSide = "adapter"
    /\ told[t]["payeeAsked"] > 0
    /\ answers[t] < MaxAnswers
    /\ answers' = [answers EXCEPT ![t] = @ + 1]
    /\ UNCHANGED <<setting, offset, hand, cmdVars, requests, told, faults>>

\* The validator only looks at the time of completion.
FulfilTransfer(t, how) ==
    /\ Answered(t)
    /\ Publish(TransferFulfilRequestedEvt(t, how))
    /\ UNCHANGED unread

\* PUT /transfers/{id}/error and GET /transfers/{id} go to the topics of the
\* architecture this adapter was taken from.
FulfilTransferError(t) ==
    /\ Answered(t)
    /\ unread' = unread \union {<<"error", t>>}
    /\ UNCHANGED log

GetTransferById(t) ==
    /\ t \in Queried
    /\ requests[t] > 0
    /\ unread' = unread \union {<<"get", t>>}
    /\ UNCHANGED <<setting, log, offset, hand, cmdVars, requests, answers, told, faults>>

--------------------------------------------------------------------------------
(* Event handlers: publish the command, then commit the offset *)

RelayStep == UNCHANGED <<setting, offset, cmdVars, fspVars>>

TransferCmdFor(m) ==
    CASE m.name = "TransferPrepareRequestedEvt" -> PrepareTransferCmd(m.t)
      [] m.name = "TransferFulfilRequestedEvt"  -> FulfilTransferCmd(m.t, m.how)
      [] m.name = "PayerFundsReservedEvt"       -> AckPayerFundsReservedCmd(m.t)
      [] m.name = "PayeeFundsCommittedEvt"      -> AckPayeeFundsCommittedCmd(m.t)

HandleTransferEvt(q, i) ==
    /\ Take("transferEvt", q, i)
    /\ Publish(TransferCmdFor(log[q][i]))
    /\ GoOn("transferEvt", q, i, "commit", "none")
    /\ RelayStep
    /\ UNCHANGED faults

ParticipantCmdFor(m) ==
    IF m.name = "TransferPrepareAcceptedEvt" THEN ReservePayerFundsCmd(m.t)
                                             ELSE CommitPayeeFundsCmd(m.t)

\* Mutant: the participant's partition is not looked up.
HandleParticipantEvtUnchecked(q, i) ==
    /\ Take("participantEvt", q, i)
    /\ Publish(ParticipantCmdFor(log[q][i]))
    /\ GoOn("participantEvt", q, i, "commit", "none")
    /\ RelayStep
    /\ UNCHANGED faults

\* A participant the repository does not know throws, and that is swallowed.
HandleParticipantEvt(q, i) ==
    LET cmd == ParticipantCmdFor(log[q][i])
    IN  /\ Take("participantEvt", q, i)
        /\ \/ cmd.queue[2] \in setting.registered /\ Publish(cmd)
           \/ cmd.queue[2] \notin setting.registered /\ UNCHANGED log
        /\ GoOn("participantEvt", q, i, "commit", "none")
        /\ RelayStep
        /\ UNCHANGED faults

\* A command that cannot be published is logged and its event committed.
RelayFails(g, q, i) ==
    /\ g \in {"transferEvt", "participantEvt", "simulatorEvt"}
    /\ Take(g, q, i)
    /\ Failure("publish")
    /\ GoOn(g, q, i, "commit", "none")
    /\ RelayStep
    /\ UNCHANGED log

Tell(t, c) == told' = [told EXCEPT ![t][c] = @ + 1]

\* The simulator plays both FSPs: it answers every transfer with one preimage.
HandleSimulatorEvt(q, i) ==
    LET t == log[q][i].t
    IN  /\ Take("simulatorEvt", q, i)
        /\ \/ /\ log[q][i].name = "TransferPreparedEvt"
              /\ Tell(t, "payeeAsked")
              /\ Publish(TransferFulfilRequestedEvt(t, IF t \in Matching THEN "commit"
                                                                        ELSE "mismatch"))
           \/ /\ log[q][i].name = "TransferFulfilledEvt"
              /\ Tell(t, "payerTold")
              /\ UNCHANGED log
        /\ GoOn("simulatorEvt", q, i, "commit", "none")
        /\ UNCHANGED <<setting, offset, cmdVars, requests, answers, unread, faults>>

--------------------------------------------------------------------------------
(* The notification handler of the adapter: callbacks to the FSPs *)

NotifyStep == UNCHANGED <<setting, log, offset, cmdVars, requests, answers, unread>>

\* Mutant: the payee's confirmation goes out before the payer's.
NotifyFirstSwapped(q, i) ==
    LET t == log[q][i].t
    IN  /\ Take("notification", q, i)
        /\ \/ /\ log[q][i].name = "TransferPreparedEvt"
              /\ Tell(t, "payeeAsked")
              /\ GoOn("notification", q, i, "commit", "none")
           \/ /\ log[q][i].name = "TransferFulfilledEvt"
              /\ Tell(t, "payeeTold")
              /\ GoOn("notification", q, i, "commit", "none")
        /\ NotifyStep
        /\ UNCHANGED faults

\* The payee is asked to fulfil a prepared transfer, the payer is told of a
\* fulfilled one, and then, if so configured, the payee too.
NotifyFirst(q, i) ==
    LET t == log[q][i].t
    IN  /\ Take("notification", q, i)
        /\ \/ /\ log[q][i].name = "TransferPreparedEvt"
              /\ Tell(t, "payeeAsked")
              /\ GoOn("notification", q, i, "commit", "none")
           \/ /\ log[q][i].name = "TransferFulfilledEvt"
              /\ Tell(t, "payerTold")
              /\ GoOn("notification", q, i, IF Confirm THEN "send" ELSE "commit", "none")
        /\ NotifyStep
        /\ UNCHANGED faults

InHand(g) == log[hand[g].queue][hand[g].at]
Proceed(g, step) == hand' = [hand EXCEPT ![g].step = step]

NotifyPayee ==
    /\ hand["notification"] # NoHand
    /\ hand["notification"].step = "send"
    /\ Tell(InHand("notification").t, "payeeTold")
    /\ Proceed("notification", "commit")
    /\ NotifyStep
    /\ UNCHANGED faults

\* A callback the FSP does not take is logged; the offset is committed, the
\* callback is not tried again and what was to follow it is left out.
NotifyFails ==
    /\ Failure("callback")
    /\ \/ \E q \in Reads("notification") : \E i \in DOMAIN log[q] :
              Take("notification", q, i) /\ GoOn("notification", q, i, "commit", "none")
       \/ /\ hand["notification"] # NoHand
          /\ hand["notification"].step = "send"
          /\ Proceed("notification", "commit")
    /\ NotifyStep
    /\ UNCHANGED told

--------------------------------------------------------------------------------
(* The transfers command handler *)

Loaded(t) == IF t \in refused THEN "RECEIVED_ERROR" ELSE status[t]

\* Mutant: a request sent again is prepared again.
PrepareTransferAgain(q, i) ==
    /\ Take("transferCmd", q, i)
    /\ log[q][i].name = "PrepareTransferCmd"
    /\ GoOn("transferCmd", q, i, "send", "RECEIVED_PREPARE")
    /\ seen' = seen \union {log[q][i].t}
    /\ UNCHANGED <<setting, log, offset, status, refused, position, fspVars, faults>>

\* The id is in the set of duplicates before anything is published.
PrepareTransfer(q, i) ==
    LET t == log[q][i].t
    IN  /\ Take("transferCmd", q, i)
        /\ log[q][i].name = "PrepareTransferCmd"
        /\ \/ /\ t \notin seen
              /\ GoOn("transferCmd", q, i, "send", "RECEIVED_PREPARE")
              /\ UNCHANGED log
           \/ /\ t \in seen
              /\ Publish(DuplicateTransferDetectedEvt(t))
              /\ GoOn("transferCmd", q, i, "commit", "none")
        /\ seen' = seen \union {t}
        /\ UNCHANGED <<setting, offset, status, refused, position, fspVars, faults>>

AcceptTransfer ==
    /\ hand["transferCmd"] # NoHand
    /\ hand["transferCmd"].step = "send"
    /\ Publish(TransferPrepareAcceptedEvt(InHand("transferCmd").t))
    /\ Proceed("transferCmd", "store")
    /\ UNCHANGED <<setting, offset, cmdVars, fspVars, faults>>

Expected(m) == CASE m.name = "AckPayerFundsReservedCmd"  -> "RECEIVED_PREPARE"
                 [] m.name = "FulfilTransferCmd"         -> "RESERVED"
                 [] m.name = "AckPayeeFundsCommittedCmd" -> "RECEIVED_FULFIL"

\* Publish the event; a command that succeeds goes on to store its status.
Rule(q, i, evt, write) ==
    /\ Publish(evt)
    /\ GoOn("transferCmd", q, i, IF write = "none" THEN "commit" ELSE "store", write)
    /\ UNCHANGED <<setting, offset, seen, status, position, fspVars, faults>>

TakeAdvance(q, i) ==
    /\ Take("transferCmd", q, i)
    /\ log[q][i].name # "PrepareTransferCmd"

RefuseTransferCmd(q, i) ==
    LET t == log[q][i].t
    IN  /\ TakeAdvance(q, i)
        /\ Loaded(t) # Expected(log[q][i])
        /\ Rule(q, i, IF Loaded(t) = "none" THEN TransferNotFoundEvt(t)
                                            ELSE InvalidTransferEvt(t), "none")
        /\ UNCHANGED refused

AckPayerFundsReserved(q, i) ==
    LET t == log[q][i].t
    IN  /\ TakeAdvance(q, i)
        /\ log[q][i].name = "AckPayerFundsReservedCmd"
        /\ Loaded(t) = "RECEIVED_PREPARE"
        /\ Rule(q, i, TransferPreparedEvt(t), "RESERVED")
        /\ UNCHANGED refused

\* Mutant: any answer of the payee fulfils the transfer.
FulfilWithAny(q, i) ==
    LET t == log[q][i].t
    IN  /\ TakeAdvance(q, i)
        /\ log[q][i].name = "FulfilTransferCmd"
        /\ Loaded(t) = "RESERVED"
        /\ Rule(q, i, TransferFulfilAcceptedEvt(t), "RECEIVED_FULFIL")
        /\ UNCHANGED refused

\* Mutant: a refused fulfilment is stored as a status redis does not know.
FulfilStoresError(q, i) ==
    LET t == log[q][i].t
    IN  /\ TakeAdvance(q, i)
        /\ log[q][i].name = "FulfilTransferCmd"
        /\ Loaded(t) = "RESERVED"
        /\ \/ /\ log[q][i].how = "commit"
              /\ Rule(q, i, TransferFulfilAcceptedEvt(t), "RECEIVED_FULFIL")
           \/ /\ log[q][i].how # "commit"
              /\ Rule(q, i, InvalidTransferEvt(t), "RECEIVED_ERROR")
        /\ UNCHANGED refused

\* A wrong preimage marks the cached transfer, ABORTED without one does not;
\* redis keeps RESERVED either way, and the payer's funds stay reserved.
Fulfil(q, i) ==
    LET t   == log[q][i].t
        how == log[q][i].how
    IN  /\ TakeAdvance(q, i)
        /\ log[q][i].name = "FulfilTransferCmd"
        /\ Loaded(t) = "RESERVED"
        /\ \/ /\ how = "commit"
              /\ Rule(q, i, TransferFulfilAcceptedEvt(t), "RECEIVED_FULFIL")
              /\ UNCHANGED refused
           \/ /\ how # "commit"
              /\ Rule(q, i, InvalidTransferEvt(t), "none")
              /\ refused' = IF how = "mismatch" THEN refused \union {t} ELSE refused

AckPayeeFundsCommitted(q, i) ==
    LET t == log[q][i].t
    IN  /\ TakeAdvance(q, i)
        /\ log[q][i].name = "AckPayeeFundsCommittedCmd"
        /\ Loaded(t) = "RECEIVED_FULFIL"
        /\ Rule(q, i, TransferFulfilledEvt(t), "COMMITTED")
        /\ UNCHANGED refused

StoreTransfer ==
    /\ hand["transferCmd"] # NoHand
    /\ hand["transferCmd"].step = "store"
    /\ status' = [status EXCEPT ![InHand("transferCmd").t] = hand["transferCmd"].write]
    /\ Proceed("transferCmd", "commit")
    /\ UNCHANGED <<setting, log, offset, seen, refused, position, fspVars, faults>>

--------------------------------------------------------------------------------
(* The participants command handler *)

Move(q, i, evt, step, pos) ==
    /\ Publish(evt)
    /\ GoOn("participantCmd", q, i, step, pos)
    /\ UNCHANGED <<setting, offset, cmdVars, fspVars, faults>>

\* A test tool apart, the payer is registered: the event handler looked it up.
ReservePayerFunds(q, i) ==
    LET t   == log[q][i].t
        new == position[Payer[t]] + Amount[t]
    IN  /\ Take("participantCmd", q, i)
        /\ log[q][i].name = "ReservePayerFundsCmd"
        /\ \/ /\ Payee[t] \notin setting.registered
              /\ Move(q, i, InvalidParticipantEvt(Payee[t], t), "commit", 0)
           \/ /\ Payee[t] \in setting.registered
              /\ new < Limit[Payer[t]]
              /\ Move(q, i, PayerFundsReservedEvt(t), "store", new)
           \/ /\ Payee[t] \in setting.registered
              /\ new >= Limit[Payer[t]]
              /\ Move(q, i, NetCapLimitExceededEvt(t), "commit", 0)

\* Mutant: the payee's position grows with what it is paid.
CommitPayeeFundsAdds(q, i) ==
    LET t == log[q][i].t
    IN  /\ Take("participantCmd", q, i)
        /\ log[q][i].name = "CommitPayeeFundsCmd"
        /\ Move(q, i, PayeeFundsCommittedEvt(t), "store", position[Payee[t]] + Amount[t])

CommitPayeeFunds(q, i) ==
    LET t == log[q][i].t
    IN  /\ Take("participantCmd", q, i)
        /\ log[q][i].name = "CommitPayeeFundsCmd"
        /\ Move(q, i, PayeeFundsCommittedEvt(t), "store", position[Payee[t]] - Amount[t])

StoreParticipant ==
    /\ hand["participantCmd"] # NoHand
    /\ hand["participantCmd"].step = "store"
    /\ position' = [position EXCEPT ![hand["participantCmd"].queue[2]] =
                                        hand["participantCmd"].write]
    /\ Proceed("participantCmd", "commit")
    /\ UNCHANGED <<setting, log, offset, seen, status, refused, fspVars, faults>>

--------------------------------------------------------------------------------
(* Offsets, crashes and shutdown *)

Commit(g) ==
    /\ hand[g] # NoHand
    /\ hand[g].step = "commit"
    /\ offset' = [offset EXCEPT ![g][hand[g].queue] = hand[g].at]
    /\ hand' = [hand EXCEPT ![g] = NoHand]
    /\ UNCHANGED <<setting, log, cmdVars, fspVars, faults>>

Preparing == /\ hand["transferCmd"] # NoHand
             /\ hand["transferCmd"].step # "commit"
             /\ InHand("transferCmd").name = "PrepareTransferCmd"

\* What a process loses: the messages in the hands of its handlers, which their
\* groups fetch again, and the transfers' cache.  A transfer whose id is already
\* in the set of duplicates, but whose state is not in redis, does not survive.
Drop(process) ==
    /\ \E g \in Group : Handler[g].process = process /\ hand[g] # NoHand
    /\ Failure(IF process = "transfers" /\ Preparing THEN "crashInPrepare" ELSE "crash")
    /\ hand' = [g \in Group |-> IF Handler[g].process = process THEN NoHand ELSE hand[g]]
    /\ refused' = IF process = "transfers" THEN {} ELSE refused
    /\ UNCHANGED <<setting, log, offset, seen, status, position, fspVars>>

\* On SIGINT the handlers are destroyed without waiting for them and the process
\* exits: no different from a crash.
StopTransfers    == Drop("transfers")
StopParticipants == Drop("participants")
StopSimulator    == Drop("simulator")
StopAdapter      == Drop("adapter")

--------------------------------------------------------------------------------
RunTransferCmd(q, i) == \/ PrepareTransfer(q, i)
                        \/ RefuseTransferCmd(q, i)
                        \/ AckPayerFundsReserved(q, i)
                        \/ Fulfil(q, i)
                        \/ AckPayeeFundsCommitted(q, i)

RunParticipantCmd(q, i) == ReservePayerFunds(q, i) \/ CommitPayeeFunds(q, i)

\* The steps a handler's process takes by itself.
TransferEvt    == \E q \in Reads("transferEvt") : \E i \in DOMAIN log[q] :
                      HandleTransferEvt(q, i)
ParticipantEvt == \E q \in Reads("participantEvt") : \E i \in DOMAIN log[q] :
                      HandleParticipantEvt(q, i)
SimulatorEvt   == \E q \in Reads("simulatorEvt") : \E i \in DOMAIN log[q] :
                      HandleSimulatorEvt(q, i)
Notification   == \/ \E q \in Reads("notification") : \E i \in DOMAIN log[q] :
                         NotifyFirst(q, i)
                  \/ NotifyPayee
TransferCmd    == \/ \E q \in Reads("transferCmd") : \E i \in DOMAIN log[q] :
                         RunTransferCmd(q, i)
                  \/ AcceptTransfer
                  \/ StoreTransfer
ParticipantCmd == \/ \E q \in Reads("participantCmd") : \E i \in DOMAIN log[q] :
                         RunParticipantCmd(q, i)
                  \/ StoreParticipant

Handle == \/ TransferEvt
          \/ ParticipantEvt
          \/ SimulatorEvt
          \/ Notification
          \/ TransferCmd
          \/ ParticipantCmd

Fsp(t) == \/ CreateTransfer(t)
          \/ CreateTransferLost(t)
          \/ \E how \in Answers : FulfilTransfer(t, how)
          \/ FulfilTransferError(t)
          \/ GetTransferById(t)

Fail == \/ \E g \in Group : \E q \in Reads(g) : \E i \in DOMAIN log[q] : RelayFails(g, q, i)
        \/ NotifyFails
        \/ StopTransfers
        \/ StopParticipants
        \/ StopSimulator
        \/ StopAdapter

Next == \/ \E t \in Transfer : Fsp(t)
        \/ Handle
        \/ \E g \in Group : Commit(g)
        \/ Fail

Spec == Init /\ [][Next]_vars

\* The handlers' processes run by themselves; nothing is assumed of the FSPs or
\* of failures.  All there is to do ends with the requests, so it is enough that
\* some handler goes on as long as one can.
FairSpec == Spec /\ WF_vars(Handle \/ \E g \in Group : Commit(g))

--------------------------------------------------------------------------------
(* Properties *)

\* No FSP hears of what did not happen: the payee is asked to fulfil only what
\* the payer's funds are reserved for, the payer is told of a transfer only when
\* the payee's funds are committed, and the payee is told after the payer.
ToldOnlyWhatHappened ==
    \A t \in Transfer :
        /\ told[t]["payeeAsked"] > 0 => Published(PayerFundsReservedEvt(t))
        /\ told[t]["payerTold"] > 0 => Published(PayeeFundsCommittedEvt(t))
        /\ told[t]["payeeTold"] > 0 => told[t]["payerTold"] > 0

\* The payee is paid only what the payer's hold covers, and only once the payee
\* itself answered with the preimage of the condition.
PaidOnlyIfHeldAndFulfilled ==
    \A t \in Transfer : Published(PayeeFundsCommittedEvt(t)) =>
        /\ Published(PayerFundsReservedEvt(t))
        /\ Published(TransferFulfilRequestedEvt(t, "commit"))

\* Requests may be sent twice, but only a failure moves funds twice: a process
\* that stops has at most one message in each of its two handlers, and neither
\* the commands nor the positions know that they were executed before.
MovedOncePerFailure ==
    \A t \in Transfer :
        /\ Copies(PayerFundsReservedEvt(t)) <= 1 + 2 * faults.count
        /\ Copies(PayeeFundsCommittedEvt(t)) <= 1 + 2 * faults.count

\* Redis's status of a transfer only ever takes the next step: no repeated command,
\* no store that was interrupted and no lost cache takes it back or skips one.
Advance == {<<"none", "RECEIVED_PREPARE">>, <<"RECEIVED_PREPARE", "RESERVED">>,
            <<"RESERVED", "RECEIVED_FULFIL">>, <<"RECEIVED_FULFIL", "COMMITTED">>}
StatusOnlyAdvances ==
    [][\A t \in Transfer : status'[t] # status[t] => <<status[t], status'[t]>> \in Advance]_vars

\* What the models of the two command handlers assume of their commands holds in
\* the composition, whatever stops or is lost.
UpstreamKept ==
    \A t \in Transfer :
        /\ Published(AckPayerFundsReservedCmd(t)) => Published(TransferPrepareAcceptedEvt(t))
        /\ Published(AckPayeeFundsCommittedCmd(t)) => Published(TransferFulfilAcceptedEvt(t))
        /\ Published(ReservePayerFundsCmd(t)) => Payer[t] \in setting.registered
        /\ Published(CommitPayeeFundsCmd(t)) => /\ Payee[t] \in setting.registered
                                               /\ Published(PayerFundsReservedEvt(t))

\* Nothing is in any hand and every message was handled.
AtRest ==
    \A g \in Group : Active(g) =>
        /\ hand[g] = NoHand
        /\ \A q \in Reads(g) : \A i \in (offset[g][q] + 1)..Len(log[q]) :
               log[q][i].name \notin Handler[g].names

\* What the state of t says x owes for it: its amount once the payer's funds are
\* held, which the payee gets back when it is committed.
Owes(t, x) ==
    (IF Payer[t] = x /\ status[t] \in {"RESERVED", "RECEIVED_FULFIL", "COMMITTED"}
     THEN Amount[t] ELSE 0)
    - (IF Payee[t] = x /\ status[t] = "COMMITTED" THEN Amount[t] ELSE 0)

\* The two halves of the switch, which share no store, agree when nothing failed:
\* a participant's position is what the transfers' states say it owes, however
\* the messages between the halves were interleaved.
HalvesAgree ==
    AtRest /\ faults.count = 0 =>
        \A x \in Participant :
            position[x] = SumFunctionOnSet([t \in Transfer |-> Owes(t, x)], Transfer)

\* How a transfer may end: the payer is told, the participants refused it (its
\* payer may even be unknown), or it is the payee's turn: the payee was asked and
\* gave no answer the switch can use.
Ended(t) ==
    \/ told[t]["payerTold"] > 0
    \/ Published(NetCapLimitExceededEvt(t))
    \/ Payer[t] \notin setting.registered \/ Payee[t] \notin setting.registered
    \/ told[t]["payeeAsked"] > 0 /\ ~Published(TransferFulfilAcceptedEvt(t))

\* Every request that was answered with 202 comes to an end and stays there,
\* through eleven messages and five handlers, although processes stop at any step
\* and messages are handled again: unless one stopped between taking the id and
\* storing the transfer, or an error was logged and its message committed.
RequestsEnd ==
    <>[](\A t \in Transfer :
            requests[t] > 0 /\ faults.kinds \subseteq {"crash"} => Ended(t))

\* The documented end of a transfer whose payer exceeds its cap, "Update Transfer
\* state with status ABORTED_ERROR": it is not left as just received.
RefusedIsAborted ==
    AtRest => \A t \in Transfer :
        Published(NetCapLimitExceededEvt(t)) => status[t] # "RECEIVED_PREPARE"

================================================================================
