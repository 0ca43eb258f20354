--------------------------------- MODULE ReadSide ---------------------------------
(******************************************************************************)
(* The state event handlers of participants and transfers: they copy what the *)
(* state events say into documents in mongo, one event at a time.  There is   *)
(* no unique index: an insert always adds a document, an update changes the   *)
(* oldest that matches.                                                       *)
(******************************************************************************)
EXTENDS Aggregates

VARIABLES
    docs,   \* id -> states in its documents, oldest first
    read    \* state events the handler has committed

readVars == <<docs, read>>

ReadTypeOK ==
    /\ docs \in [Id -> Seq(Nat)]
    /\ read \in 0..Len(events)

ReadInit ==
    /\ docs = [id \in Id |-> <<>>]
    /\ read = 0

Insert(id, v) == docs' = [docs EXCEPT ![id] = Append(@, v)]

\* Mutant: an event of an unknown id makes a document.
UpsertPosition(id, v) ==
    docs' = [docs EXCEPT ![id] = IF @ = <<>> THEN <<v>> ELSE [@ EXCEPT ![Len(@)] = v]]

\* Updating what is not there, or what is there already, is an error that is only
\* logged.
UpdateFirst(id, v) == docs' = [docs EXCEPT ![id] = IF @ = <<>> THEN @ ELSE [@ EXCEPT ![1] = v]]

UpdatePosition(id, v) == UpdateFirst(id, v)
UpdateFulfil(id)      == UpdateFirst(id, RECEIVED_FULFIL)
UpdateTransferState(id, v) == UpdateFirst(id, v)

ReadTakes == Opened("StateEvt", "consumer") /\ read < Len(events)

\* The next event has this name.  It is committed; or the process ends before, or
\* the consumer is gone by then.
Handles(name) ==
    /\ ReadTakes
    /\ events[read + 1].name = name
    /\ \/ read' = read + 1 /\ UNCHANGED <<process, faults>>
       \/ Fails("readCrash") /\ UNCHANGED <<process, read>>
       \/ CommitRefused("StateEvt") /\ UNCHANGED read
    /\ UNCHANGED <<setting, memory, redis, known, owner, root, handlerVars>>

HandleParticipantCreatedStateEvt ==
    /\ Handles("ParticipantCreatedStateEvt")
    /\ LET e == events[read + 1] IN Insert(e.id, e.value)
HandleParticipantPositionChangedStateEvt ==
    /\ Handles("ParticipantPositionChangedStateEvt")
    /\ LET e == events[read + 1] IN UpdatePosition(e.id, e.value)
HandleTransferPreparedStateEvt ==
    Handles("TransferPreparedStateEvt") /\ Insert(events[read + 1].id, RECEIVED_PREPARE)
HandleTransferFulfiledStateEvt ==
    Handles("TransferFulfiledStateEvt") /\ UpdateFulfil(events[read + 1].id)
HandleTransferStateChangedStateEvt ==
    /\ Handles("TransferStateChangedStateEvt")
    /\ LET e == events[read + 1] IN UpdateTransferState(e.id, e.value)

ReadStateEvent ==
    \/ HandleParticipantCreatedStateEvt
    \/ HandleParticipantPositionChangedStateEvt
    \/ HandleTransferPreparedStateEvt
    \/ HandleTransferFulfiledStateEvt
    \/ HandleTransferStateChangedStateEvt

\* Mongo does not answer: the error is logged, the event committed.
MongoFails ==
    /\ ReadTakes
    /\ Fails("mongo")
    /\ read' = read + 1
    /\ UNCHANGED <<setting, process, memory, redis, known, owner, root, handlerVars, docs>>

================================================================================
