------------------------- MODULE TransferCommandsProofs -------------------------
(******************************************************************************)
(* Proofs about TransferCommands, for every value of its constants: type      *)
(* correctness, that a transfer is accepted once, that redis holds only       *)
(* announced statuses, that a fulfilment is accepted only of a transfer whose *)
(* reservation was announced, that no store takes a transfer back, and that   *)
(* the handler implements the lifecycle of TransferLifecycle.                 *)
(******************************************************************************)
EXTENDS TransferCommands, TLAPS

--------------------------------------------------------------------------------
(* Type correctness *)

\* Only a process that publishes has events to publish; what it is about to
\* store is a status.
ControlOK ==
    \A p \in Proc :
        /\ IF pc[p] \in {"publish", "republish"}
           THEN evt[p] \in EventName
           ELSE evt[p] = "none" /\ stateEvt[p] = FALSE
        /\ pc[p] = "store" => root[p] \in Status
        /\ stateEvt[p] => evt[p] \in StepEvent
        /\ evt[p] = "TransferPrepareAccepted" => root[p] = "RECEIVED_PREPARE"

TypeInv == TypeOK /\ ControlOK

LEMMA ConstantTypes ==
    /\ KeyPartition \in [Transfer -> Partition]
    /\ InitialOwner \in [Partition -> Proc]
    /\ Absent \notin Status
    /\ NoCmd \notin Command
  BY TransferAssumption DEF TransferAssumption

LEMMA CommandFields ==
    ASSUME NEW c \in Command
    PROVE  /\ c.t \in Transfer /\ KeyPartition[c.t] \in Partition
           /\ c.op \in {"Fulfil", "FulfilMismatch", "FulfilMalformed", "Prepare",
                        "AckReserved", "AckCommitted"}
  BY ConstantTypes DEF Command, FulfilOp

LEMMA CacheUpdate ==
    ASSUME NEW m \in [Proc -> [Transfer -> MaybeStatus]],
           NEW p \in Proc, NEW t \in Transfer, NEW s \in MaybeStatus
    PROVE  [m EXCEPT ![p][t] = s] \in [Proc -> [Transfer -> MaybeStatus]]
  OBVIOUS

LEMMA FailedGrows ==
    ASSUME NEW f \in SUBSET Fault, NEW k,
           k \in {"crash", "rebalance", "add", "read", "publish", "store", "commit", "expiry"}
    PROVE  f \union {k} \in SUBSET Fault
  BY DEF Fault

LEMMA SeenGrows ==
    ASSUME NEW s \in SUBSET Transfer, NEW t \in Transfer
    PROVE  s \union {t} \in SUBSET Transfer
  OBVIOUS

\* What a handler may do to a loaded transfer: event, status before, status after.
Moves == {<<"TransferPrepared", "RECEIVED_PREPARE", "RESERVED">>,
          <<"TransferFulfilAccepted", "RESERVED", "RECEIVED_FULFIL">>,
          <<"TransferFulfilled", "RECEIVED_FULFIL", "COMMITTED">>}

Accepts(p, e, s, ok) ==
    /\ cache' = cache
    /\ seen' = seen \union {cur[p].t}
    /\ \/ e = "TransferPrepareAccepted" /\ s = "RECEIVED_PREPARE" /\ ok /\ cur[p].t \notin seen
       \/ e = "DuplicateTransferDetected" /\ s = root[p] /\ ~ok

Answers(p, e, s, ok) ==
    /\ cache' = [cache EXCEPT ![p][cur[p].t] = s]
    /\ seen' = seen
    /\ \/ ok /\ <<e, Loaded(p), s>> \in Moves
       \/ /\ ~ok /\ e \in {"TransferNotFound", "InvalidTransfer"}
          /\ s = Loaded(p) \/ (Loaded(p) = "RESERVED" /\ s = "RECEIVED_ERROR")

Rules(p, e, s, ok) ==
    /\ e \in EventName /\ s \in MaybeStatus /\ ok \in BOOLEAN
    /\ evt' = [evt EXCEPT ![p] = e]
    /\ root' = [root EXCEPT ![p] = s]
    /\ stateEvt' = [stateEvt EXCEPT ![p] = ok]
    /\ Accepts(p, e, s, ok) \/ Answers(p, e, s, ok)

\* Every command handler is of this shape.
LEMMA HandleShape ==
    ASSUME TypeInv, NEW p \in Proc, Handle(p)
    PROVE  /\ pc[p] = "handle" /\ cur[p] \in Command /\ cur[p].t \in Transfer
           /\ pc' = [pc EXCEPT ![p] = "publish"]
           /\ UNCHANGED <<topic, committed, next, owner, cur, off, redis, stateLog,
                          domainLog, faults, failed>>
           /\ \E e, s, ok : Rules(p, e, s, ok)
  <1>1. pc[p] = "handle"
    BY DEF Handle, HandlePrepare, RefuseUnknown, RefuseStatus, HandleAckReserved,
           HandleFulfil, HandleAckCommitted
  <1>2. cur[p] \in Command /\ cur[p].t \in Transfer
    BY <1>1, CommandFields DEF TypeInv, TypeOK
  <1>3. root[p] \in MaybeStatus /\ Loaded(p) \in MaybeStatus
    BY <1>2 DEF TypeInv, TypeOK, Loaded
  <1>4. ASSUME NEW e, NEW ok, Decide(p, e, ok)
        PROVE  /\ pc' = [pc EXCEPT ![p] = "publish"]
               /\ evt' = [evt EXCEPT ![p] = e]
               /\ stateEvt' = [stateEvt EXCEPT ![p] = ok]
               /\ UNCHANGED <<topic, committed, next, owner, cur, off, redis, stateLog,
                              domainLog, faults, failed>>
    BY <1>4 DEF Decide, groupVars, logVars, faultVars
  <1> DEFINE Goal == /\ pc' = [pc EXCEPT ![p] = "publish"]
                     /\ UNCHANGED <<topic, committed, next, owner, cur, off, redis,
                                    stateLog, domainLog, faults, failed>>
                     /\ \E e, s, ok : Rules(p, e, s, ok)
  <1>5. ASSUME HandlePrepare(p) PROVE Goal
    <2>1. CASE cur[p].t \notin seen
      <3>1. /\ Decide(p, "TransferPrepareAccepted", TRUE)
            /\ root' = [root EXCEPT ![p] = "RECEIVED_PREPARE"]
            /\ cache' = cache /\ seen' = seen \union {cur[p].t}
        BY <1>5, <2>1 DEF HandlePrepare
      <3>2. Rules(p, "TransferPrepareAccepted", "RECEIVED_PREPARE", TRUE)
        BY <1>4, <2>1, <3>1 DEF Rules, Accepts, EventName, StepEvent, MaybeStatus, Status
      <3> QED
        BY <1>4, <3>1, <3>2
    <2>2. CASE cur[p].t \in seen
      <3>1. /\ Decide(p, "DuplicateTransferDetected", FALSE)
            /\ root' = root
            /\ cache' = cache /\ seen' = seen \union {cur[p].t}
        BY <1>5, <2>2 DEF HandlePrepare
      <3>2. root' = [root EXCEPT ![p] = root[p]]
        BY <3>1 DEF TypeInv, TypeOK
      <3>3. Rules(p, "DuplicateTransferDetected", root[p], FALSE)
        BY <1>3, <1>4, <3>1, <3>2 DEF Rules, Accepts, EventName
      <3> QED
        BY <1>4, <3>1, <3>3
    <2> QED
      BY <2>1, <2>2
  <1>6. ASSUME NEW e \in EventName, NEW s \in MaybeStatus, NEW ok \in BOOLEAN,
               SetStatus(p, s), Decide(p, e, ok),
               \/ ok /\ <<e, Loaded(p), s>> \in Moves
               \/ /\ ~ok /\ e \in {"TransferNotFound", "InvalidTransfer"}
                  /\ s = Loaded(p) \/ (Loaded(p) = "RESERVED" /\ s = "RECEIVED_ERROR")
        PROVE  Goal
    <2>1. Answers(p, e, s, ok)
      BY <1>6 DEF Answers, SetStatus
    <2>2. Rules(p, e, s, ok)
      BY <1>4, <1>6, <2>1 DEF Rules, SetStatus
    <2> QED
      BY <1>4, <1>6, <2>2
  <1> USE DEF EventName, StepEvent, MaybeStatus, Status
  <1>7. ASSUME RefuseUnknown(p) PROVE Goal
    BY <1>6, <1>7 DEF RefuseUnknown
  <1>8. ASSUME RefuseStatus(p) PROVE Goal
    BY <1>3, <1>6, <1>8 DEF RefuseStatus
  <1>9. ASSUME HandleAckReserved(p) PROVE Goal
    BY <1>6, <1>9 DEF HandleAckReserved, Moves
  <1>10. ASSUME HandleFulfil(p) PROVE Goal
    BY <1>6, <1>10 DEF HandleFulfil, Moves
  <1>11. ASSUME HandleAckCommitted(p) PROVE Goal
    BY <1>6, <1>11 DEF HandleAckCommitted, Moves
  <1>12. Goal
    BY <1>5, <1>7, <1>8, <1>9, <1>10, <1>11 DEF Handle
  <1> QED
    BY <1>1, <1>2, <1>12

\* Every publication is of this shape.
Publishes(p, D, step) ==
    /\ pc[p] \in {"publish", "republish"}
    /\ Deliver(p, D)
    /\ PublishTo(p, step)
    /\ IF step = "republish" THEN UNCHANGED <<evt, stateEvt>> ELSE Committed(p)
    /\ step = "store" => D = {"domain", "state"} /\ stateEvt[p]
    /\ \/ D = {"domain", "state"} /\ step # "republish" /\ UNCHANGED faultVars
       \/ faults' = faults + 1 /\ failed' = failed \union {"publish"}

LEMMA PublishShape ==
    ASSUME TypeInv, NEW p \in Proc,
           Publish(p) \/ PublishFails(p) \/ Republish(p) \/ RepublishFails(p)
    PROVE  /\ cur[p] \in Command /\ cur[p].t \in Transfer
           /\ evt[p] \in EventName
           /\ \E D \in SUBSET {"domain", "state"}, step \in {"republish", "store", "commit"} :
                  Publishes(p, D, step)
  <1>1. pc[p] \in {"publish", "republish"}
    BY DEF Publish, PublishFails, Republish, RepublishFails
  <1>2. cur[p] \in Command /\ cur[p].t \in Transfer /\ evt[p] \in EventName
    BY <1>1, CommandFields DEF TypeInv, TypeOK, ControlOK
  <1>3. CASE Publish(p)
    <2>1. CASE stateEvt[p]
      <3>1. Publishes(p, {"domain", "state"}, "store")
        BY <1>3, <2>1 DEF Publish, Publishes
      <3> QED
        BY <1>2, <3>1
    <2>2. CASE ~stateEvt[p]
      <3>1. Publishes(p, {"domain", "state"}, "commit")
        BY <1>3, <2>2 DEF Publish, Publishes
      <3> QED
        BY <1>2, <3>1
    <2> QED
      BY <2>1, <2>2
  <1>4. CASE PublishFails(p)
    <2>1. PICK D \in SUBSET {"domain", "state"} : Deliver(p, D)
      BY <1>4 DEF PublishFails
    <2>2. Publishes(p, D, "republish")
      BY <1>4, <2>1 DEF PublishFails, Publishes, Failure
    <2> QED
      BY <1>2, <2>2
  <1>5. CASE Republish(p)
    <2>1. Publishes(p, {"domain", "state"}, "commit")
      BY <1>5 DEF Republish, Publishes
    <2> QED
      BY <1>2, <2>1
  <1>6. CASE RepublishFails(p)
    <2>1. PICK D \in SUBSET {"domain", "state"} : Deliver(p, D)
      BY <1>6 DEF RepublishFails
    <2>2. Publishes(p, D, "commit")
      BY <1>6, <2>1 DEF RepublishFails, Publishes, Failure
    <2> QED
      BY <1>2, <2>2
  <1> QED
    BY <1>3, <1>4, <1>5, <1>6

\* A store, failed or not, is of this shape.
LEMMA StoreShape ==
    ASSUME TypeInv, NEW p \in Proc, Store(p) \/ StoreFails(p)
    PROVE  /\ pc[p] = "store" /\ cur[p] \in Command /\ cur[p].t \in Transfer
           /\ root[p] \in Status
           /\ cache' = [cache EXCEPT ![p][cur[p].t] = root[p]]
           /\ redis' = redis \/ redis' = [redis EXCEPT ![cur[p].t] = root[p]]
           /\ pc' = [pc EXCEPT ![p] = "commit"]
           /\ UNCHANGED <<topic, committed, next, owner, cur, off, root, evt, stateEvt,
                          seen, stateLog, domainLog>>
           /\ faults' \in Nat /\ failed' \in {failed, failed \union {"store"}}
  <1>1. StoreStep(p) /\ redis' \in {redis, Stored(p)}
    BY DEF Store, StoreFails
  <1>2. pc[p] = "store" /\ cur[p] \in Command /\ cur[p].t \in Transfer /\ root[p] \in Status
    BY <1>1, CommandFields DEF StoreStep, TypeInv, TypeOK, ControlOK
  <1>3. faults' \in Nat /\ failed' \in {failed, failed \union {"store"}}
    BY DEF Store, StoreFails, Failure, faultVars, TypeInv, TypeOK
  <1> QED
    BY <1>1, <1>2, <1>3 DEF StoreStep, Stored, groupVars, logVars

\* A process lets a command go: acknowledged, not acknowledged, or crashed.
LEMMA LetGoShape ==
    ASSUME TypeInv, NEW p \in Proc, Ack(p) \/ AckFails(p) \/ Crash(p)
    PROVE  /\ \E step \in {"idle", "halted"} : LetGo(p, step)
           /\ \/ cache' = cache /\ evt[p] = "none"
              \/ cache' = [cache EXCEPT ![p] = [t \in Transfer |-> Absent]]
           /\ UNCHANGED <<topic, owner, seen, redis, stateLog, domainLog>>
           /\ committed' \in [Partition -> Nat] /\ next' \in [Partition -> Nat]
           /\ faults' \in Nat
           /\ failed' \in {failed, failed \union {"commit"}, failed \union {"crash"}}
  <1>1. pc[p] = "commit" => evt[p] = "none"
    BY DEF TypeInv, ControlOK
  <1>2. faults \in Nat /\ committed \in [Partition -> Nat] /\ next \in [Partition -> Nat]
    BY DEF TypeInv, TypeOK
  <1>3. CASE Ack(p)
    <2>1. KeyPartition[cur[p].t] \in Partition /\ off[p] \in Nat
      BY <1>3, CommandFields DEF Ack, TypeInv, TypeOK
    <2>2. committed' \in [Partition -> Nat]
      BY <1>2, <1>3, <2>1 DEF Ack
    <2>3. LetGo(p, "idle") /\ evt[p] = "none"
      BY <1>1, <1>3 DEF Ack
    <2>4. UNCHANGED <<topic, next, owner, seen, cache, redis, stateLog, domainLog,
                      faults, failed>>
      BY <1>3 DEF Ack, repoVars, logVars, faultVars
    <2> QED
      BY <1>2, <2>2, <2>3, <2>4
  <1>4. CASE AckFails(p)
    <2>1. LetGo(p, "halted") /\ evt[p] = "none"
      BY <1>1, <1>4 DEF AckFails
    <2>2. UNCHANGED <<topic, committed, next, owner, seen, cache, redis, stateLog, domainLog>>
      BY <1>4 DEF AckFails, groupVars, repoVars, logVars
    <2>3. faults' \in Nat /\ failed' \in {failed, failed \union {"commit"}}
      BY <1>2, <1>4 DEF AckFails, Failure, faultVars
    <2> QED
      BY <1>2, <2>1, <2>2, <2>3
  <1>5. CASE Crash(p)
    <2>1. /\ LetGo(p, "idle")
          /\ cache' = [cache EXCEPT ![p] = [t \in Transfer |-> Absent]]
          /\ UNCHANGED <<topic, committed, owner, seen, redis, stateLog, domainLog>>
      BY <1>5 DEF Crash, logVars
    <2>2. next' \in [Partition -> Nat] /\ faults' \in Nat
          /\ failed' \in {failed, failed \union {"crash"}}
      BY <1>2, <1>5 DEF Crash, Failure
    <2> QED
      BY <1>2, <2>1, <2>2
  <1> QED
    BY <1>3, <1>4, <1>5

LEMMA InitTypeInv == Init => TypeInv
  <1> SUFFICES ASSUME Init PROVE TypeInv
    OBVIOUS
  <1>1. TypeOK
    BY ConstantTypes DEF Init, TypeOK, MaybeStatus
  <1>2. ControlOK
    BY DEF Init, ControlOK
  <1> QED
    BY <1>1, <1>2 DEF TypeInv

LEMMA HandleType ==
    ASSUME TypeInv, NEW p \in Proc, Handle(p)
    PROVE  TypeInv'
  <1>1. /\ pc[p] = "handle" /\ cur[p] \in Command /\ cur[p].t \in Transfer
        /\ pc' = [pc EXCEPT ![p] = "publish"]
        /\ UNCHANGED <<topic, committed, next, owner, cur, off, redis, stateLog,
                       domainLog, faults, failed>>
    BY HandleShape
  <1>2. PICK e, s, ok : Rules(p, e, s, ok)
    BY HandleShape
  <1>3. cache' \in [Proc -> [Transfer -> MaybeStatus]] /\ seen' \in SUBSET Transfer
    <2>1. s \in MaybeStatus /\ (Accepts(p, e, s, ok) \/ Answers(p, e, s, ok))
      BY <1>2 DEF Rules
    <2>2. cache \in [Proc -> [Transfer -> MaybeStatus]] /\ seen \in SUBSET Transfer
      BY DEF TypeInv, TypeOK
    <2>3. cache' \in [Proc -> [Transfer -> MaybeStatus]]
      BY <1>1, <2>1, <2>2, CacheUpdate DEF Accepts, Answers
    <2>4. seen' \in SUBSET Transfer
      BY <1>1, <2>1, <2>2, SeenGrows DEF Accepts, Answers
    <2> QED
      BY <2>3, <2>4
  <1>4. /\ ok => s \in Status /\ e \in StepEvent
        /\ e = "TransferPrepareAccepted" => s = "RECEIVED_PREPARE"
    BY <1>2 DEF Rules, Accepts, Answers, Moves, Status, StepEvent
  <1>5. TypeOK'
    BY <1>1, <1>2, <1>3, <1>4 DEF Rules, TypeInv, TypeOK
  <1>6. ControlOK'
    BY <1>1, <1>2, <1>4 DEF Rules, TypeInv, TypeOK, ControlOK
  <1> QED
    BY <1>5, <1>6 DEF TypeInv

\* A publication adds to the logs of the transfer in hand only, and at most one
\* copy of each event.
LEMMA DeliverEffect ==
    ASSUME TypeInv, NEW p \in Proc, NEW D, NEW step, Publishes(p, D, step),
           cur[p].t \in Transfer, evt[p] \in EventName
    PROVE  /\ domainLog' \in [Transfer -> [EventName -> Nat]]
           /\ stateLog' \in [Transfer -> Seq(Status)]
           /\ \A t \in Transfer, n \in EventName :
                 domainLog'[t][n] = IF "domain" \in D /\ t = cur[p].t /\ n = evt[p]
                                    THEN domainLog[t][n] + 1 ELSE domainLog[t][n]
           /\ \A t \in Transfer :
                 stateLog'[t] = IF "state" \in D /\ t = cur[p].t /\ stateEvt[p]
                                THEN Append(stateLog[t], root[p]) ELSE stateLog[t]
  <1>1. Deliver(p, D)
    BY DEF Publishes
  <1>2. domainLog \in [Transfer -> [EventName -> Nat]] /\ stateLog \in [Transfer -> Seq(Status)]
    BY DEF TypeInv, TypeOK
  <1>3. /\ domainLog' \in [Transfer -> [EventName -> Nat]]
        /\ \A t \in Transfer, n \in EventName :
              domainLog'[t][n] = IF "domain" \in D /\ t = cur[p].t /\ n = evt[p]
                                 THEN domainLog[t][n] + 1 ELSE domainLog[t][n]
    <2>1. domainLog' = IF "domain" \in D
                       THEN [domainLog EXCEPT ![cur[p].t][evt[p]] = @ + 1]
                       ELSE domainLog
      BY <1>1 DEF Deliver
    <2>2. domainLog[cur[p].t] \in [EventName -> Nat] /\ domainLog[cur[p].t][evt[p]] \in Nat
      BY <1>2
    <2>3. domainLog[cur[p].t][evt[p]] + 1 \in Nat
      BY <2>2
    <2>4. domainLog' \in [Transfer -> [EventName -> Nat]]
      BY <1>2, <2>1, <2>3
    <2> QED
      BY <1>2, <2>1, <2>4
  <1>4. stateEvt[p] => root[p] \in Status
    BY DEF TypeInv, TypeOK
  <1>5. /\ stateLog' \in [Transfer -> Seq(Status)]
        /\ \A t \in Transfer :
              stateLog'[t] = IF "state" \in D /\ t = cur[p].t /\ stateEvt[p]
                             THEN Append(stateLog[t], root[p]) ELSE stateLog[t]
    BY <1>1, <1>2, <1>4 DEF Deliver
  <1> QED
    BY <1>3, <1>5

LEMMA PublishType ==
    ASSUME TypeInv, NEW p \in Proc,
           Publish(p) \/ PublishFails(p) \/ Republish(p) \/ RepublishFails(p)
    PROVE  TypeInv'
  <1>1. PICK D \in SUBSET {"domain", "state"}, step \in {"republish", "store", "commit"} :
             Publishes(p, D, step)
    BY PublishShape
  <1>2. cur[p].t \in Transfer /\ evt[p] \in EventName
    BY PublishShape
  <1>3. /\ domainLog' \in [Transfer -> [EventName -> Nat]]
        /\ stateLog' \in [Transfer -> Seq(Status)]
    BY <1>1, <1>2, DeliverEffect
  <1>4. faults' \in Nat /\ failed' \in SUBSET Fault
    <2>1. faults \in Nat /\ failed \in SUBSET Fault
      BY DEF TypeInv, TypeOK
    <2>2. failed \union {"publish"} \in SUBSET Fault
      BY <2>1, FailedGrows
    <2>3. \/ faults' = faults /\ failed' = failed
          \/ faults' = faults + 1 /\ failed' = failed \union {"publish"}
      BY <1>1 DEF Publishes, faultVars
    <2> QED
      BY <2>1, <2>2, <2>3
  <1>5. /\ pc' = [pc EXCEPT ![p] = step]
        /\ UNCHANGED <<topic, committed, next, owner, cur, off, root, seen, cache, redis>>
    BY <1>1 DEF Publishes, PublishTo, groupVars, repoVars
  <1>6. \/ step = "republish" /\ evt' = evt /\ stateEvt' = stateEvt
        \/ step # "republish" /\ evt' = [evt EXCEPT ![p] = "none"]
                              /\ stateEvt' = [stateEvt EXCEPT ![p] = FALSE]
    BY <1>1 DEF Publishes, Committed
  <1>7. TypeOK'
    <2>1. evt' \in [Proc -> EventName \union {"none"}] /\ stateEvt' \in [Proc -> BOOLEAN]
      BY <1>6 DEF TypeInv, TypeOK
    <2>2. \A r \in Proc : stateEvt'[r] => root'[r] \in Status
      BY <1>5, <1>6 DEF TypeInv, TypeOK
    <2>3. pc[p] \in {"publish", "republish"}
      BY <1>1 DEF Publishes
    <2> QED
      BY <1>3, <1>4, <1>5, <2>1, <2>2, <2>3 DEF TypeInv, TypeOK
  <1>8. ControlOK'
    BY <1>1, <1>2, <1>5, <1>6 DEF Publishes, TypeInv, TypeOK, ControlOK
  <1> QED
    BY <1>7, <1>8 DEF TypeInv

LEMMA LetGoType ==
    ASSUME TypeInv, NEW p \in Proc, Ack(p) \/ AckFails(p) \/ Crash(p)
    PROVE  TypeInv'
  <1>1. PICK step \in {"idle", "halted"} : LetGo(p, step)
    BY LetGoShape
  <1>2. /\ cache' \in [Proc -> [Transfer -> MaybeStatus]]
        /\ committed' \in [Partition -> Nat] /\ next' \in [Partition -> Nat]
        /\ faults' \in Nat /\ failed' \in SUBSET Fault
        /\ UNCHANGED <<topic, owner, seen, redis, stateLog, domainLog>>
    <2>1. failed \in SUBSET Fault /\ cache \in [Proc -> [Transfer -> MaybeStatus]]
      BY DEF TypeInv, TypeOK
    <2>2. failed' \in SUBSET Fault
      BY <2>1, LetGoShape, FailedGrows
    <2>3. cache' \in [Proc -> [Transfer -> MaybeStatus]]
      BY <2>1, LetGoShape DEF MaybeStatus
    <2> QED
      BY <2>2, <2>3, LetGoShape
  <1>3. TypeOK'
    BY <1>1, <1>2 DEF LetGo, TypeInv, TypeOK, MaybeStatus
  <1>4. ControlOK'
    BY <1>1 DEF LetGo, TypeInv, TypeOK, ControlOK, StepEvent
  <1> QED
    BY <1>3, <1>4 DEF TypeInv

\* The steps that touch neither the hands of a process nor the logs.
LEMMA QuietType ==
    ASSUME TypeInv, UNCHANGED <<handVars, logVars>>,
           topic' \in [Partition -> Seq(Command)], owner' \in [Partition -> Proc],
           committed' = committed, next' \in [Partition -> Nat], seen' = seen,
           cache' \in [Proc -> [Transfer -> MaybeStatus]],
           redis' \in [Transfer -> MaybeStatus],
           faults' \in Nat, failed' \in SUBSET Fault
    PROVE  TypeInv'
  BY DEF TypeInv, TypeOK, ControlOK, handVars, logVars

LEMMA TypeStep == TypeInv /\ [Next]_vars => TypeInv'
  <1> SUFFICES ASSUME TypeInv, [Next]_vars PROVE TypeInv'
    OBVIOUS
  <1>1. ASSUME NEW c \in Command, Produce(c) PROVE TypeInv'
    <2>1. topic' \in [Partition -> Seq(Command)]
      BY <1>1, CommandFields DEF Produce, TypeInv, TypeOK
    <2> QED
      BY <1>1, <2>1, QuietType DEF Produce, repoVars, faultVars, TypeInv, TypeOK
  <1>2. ASSUME NEW p \in Proc, NEW q \in Partition, Fetch(p, q) PROVE TypeInv'
    <2>1. topic[q][next[q] + 1] \in Command
      BY <1>2 DEF Fetch, TypeInv, TypeOK
    <2>2. TypeOK'
      BY <1>2, <2>1 DEF Fetch, TypeInv, TypeOK, repoVars, logVars, faultVars
    <2>3. ControlOK'
      BY <1>2 DEF Fetch, TypeInv, TypeOK, ControlOK
    <2> QED
      BY <2>2, <2>3 DEF TypeInv
  <1>3. ASSUME NEW p \in Proc, Store(p) \/ StoreFails(p) PROVE TypeInv'
    <2>1. /\ pc[p] = "store" /\ cur[p] \in Command /\ cur[p].t \in Transfer
          /\ root[p] \in Status
          /\ cache' = [cache EXCEPT ![p][cur[p].t] = root[p]]
          /\ redis' = redis \/ redis' = [redis EXCEPT ![cur[p].t] = root[p]]
          /\ pc' = [pc EXCEPT ![p] = "commit"]
          /\ UNCHANGED <<topic, committed, next, owner, cur, off, root, evt, stateEvt,
                         seen, stateLog, domainLog>>
          /\ faults' \in Nat /\ failed' \in {failed, failed \union {"store"}}
      BY <1>3, StoreShape
    <2>2. cache' \in [Proc -> [Transfer -> MaybeStatus]]
      BY <2>1, CacheUpdate DEF TypeInv, TypeOK, MaybeStatus
    <2>3. redis' \in [Transfer -> MaybeStatus] /\ failed' \in SUBSET Fault
      BY <2>1 DEF TypeInv, TypeOK, MaybeStatus, Fault
    <2>4. TypeOK'
      BY <2>1, <2>2, <2>3 DEF TypeInv, TypeOK
    <2>5. ControlOK'
      BY <2>1 DEF TypeInv, TypeOK, ControlOK
    <2> QED
      BY <2>4, <2>5 DEF TypeInv
  <1>4. ASSUME NEW p \in Proc, RepositoryFails(p) PROVE TypeInv'
    <2>1. /\ cur[p] \in Command /\ cur[p].t \in Transfer /\ pc[p] = "handle"
          /\ pc' = [pc EXCEPT ![p] = "commit"]
      BY <1>4, CommandFields DEF RepositoryFails, TypeInv, TypeOK
    <2>2. faults' \in Nat /\ failed' \in SUBSET Fault /\ seen' \in SUBSET Transfer
      <3>1. faults \in Nat /\ failed \in SUBSET Fault /\ seen \in SUBSET Transfer
        BY DEF TypeInv, TypeOK
      <3> QED
        BY <1>4, <2>1, <3>1, FailedGrows, SeenGrows DEF RepositoryFails, Failure
    <2>3. TypeOK'
      BY <1>4, <2>1, <2>2 DEF RepositoryFails, TypeInv, TypeOK, groupVars, logVars
    <2>4. ControlOK'
      BY <1>4, <2>1 DEF RepositoryFails, TypeInv, TypeOK, ControlOK
    <2> QED
      BY <2>3, <2>4 DEF TypeInv
  <1>5. ASSUME NEW p \in Proc, NEW t \in Transfer, CacheExpires(p, t) PROVE TypeInv'
    <2>1. cache' \in [Proc -> [Transfer -> MaybeStatus]]
      BY <1>5, CacheUpdate DEF CacheExpires, TypeInv, TypeOK, MaybeStatus
    <2>2. /\ UNCHANGED <<handVars, logVars>> /\ committed' = committed /\ seen' = seen
          /\ topic' = topic /\ owner' = owner /\ next' = next /\ redis' = redis
      BY <1>5 DEF CacheExpires, groupVars
    <2>3. faults' \in Nat /\ failed' \in SUBSET Fault
      BY <1>5 DEF CacheExpires, Failure, TypeInv, TypeOK, Fault
    <2>4. /\ topic \in [Partition -> Seq(Command)] /\ owner \in [Partition -> Proc]
          /\ next \in [Partition -> Nat] /\ redis \in [Transfer -> MaybeStatus]
          /\ cache \in [Proc -> [Transfer -> MaybeStatus]]
      BY DEF TypeInv, TypeOK
    <2> QED
      BY <2>1, <2>2, <2>3, <2>4, QuietType
  <1>6. ASSUME NEW p \in Proc, NEW q \in Partition, Rebalance(q, p) PROVE TypeInv'
    <2>1. owner' \in [Partition -> Proc] /\ next' \in [Partition -> Nat]
      BY <1>6 DEF Rebalance, TypeInv, TypeOK
    <2>2. /\ UNCHANGED <<handVars, logVars>> /\ committed' = committed /\ seen' = seen
          /\ topic' = topic /\ cache' = cache /\ redis' = redis
      BY <1>6 DEF Rebalance, repoVars
    <2>3. faults' \in Nat /\ failed' \in SUBSET Fault
      BY <1>6 DEF Rebalance, Failure, TypeInv, TypeOK, Fault
    <2>4. /\ topic \in [Partition -> Seq(Command)] /\ owner \in [Partition -> Proc]
          /\ next \in [Partition -> Nat] /\ redis \in [Transfer -> MaybeStatus]
          /\ cache \in [Proc -> [Transfer -> MaybeStatus]]
      BY DEF TypeInv, TypeOK
    <2> QED
      BY <2>1, <2>2, <2>3, <2>4, QuietType
  <1>7. ASSUME NEW t \in Transfer, RedisExpires(t) PROVE TypeInv'
    <2>1. redis' \in [Transfer -> MaybeStatus]
      BY <1>7 DEF RedisExpires, TypeInv, TypeOK, MaybeStatus
    <2>2. /\ UNCHANGED <<handVars, logVars>> /\ committed' = committed /\ seen' = seen
          /\ topic' = topic /\ owner' = owner /\ next' = next /\ cache' = cache
      BY <1>7 DEF RedisExpires, groupVars
    <2>3. faults' \in Nat /\ failed' \in SUBSET Fault
      BY <1>7 DEF RedisExpires, Failure, TypeInv, TypeOK, Fault
    <2>4. /\ topic \in [Partition -> Seq(Command)] /\ owner \in [Partition -> Proc]
          /\ next \in [Partition -> Nat] /\ redis \in [Transfer -> MaybeStatus]
          /\ cache \in [Proc -> [Transfer -> MaybeStatus]]
      BY DEF TypeInv, TypeOK
    <2> QED
      BY <2>1, <2>2, <2>3, <2>4, QuietType
  <1>8. CASE UNCHANGED vars
    BY <1>8, QuietType DEF vars, handVars, logVars, TypeInv, TypeOK
  <1> QED
    BY <1>1, <1>2, <1>3, <1>4, <1>5, <1>6, <1>7, <1>8, HandleType, PublishType, LetGoType
       DEF Next, Work, Fail

\* Every variable keeps its type, whatever fails: transferCmdHandler and
\* BaseAggregate.processCommand never publish or store without an entity.
THEOREM TransferTypes == Spec => []TypeOK
  <1>1. Spec => []TypeInv
    BY InitTypeInv, TypeStep, PTL DEF Spec
  <1>2. TypeInv => TypeOK
    BY DEF TypeInv
  <1> QED
    BY <1>1, <1>2, PTL

LEMMA FailedKept ==
    ASSUME [Next]_vars
    PROVE  failed \subseteq failed'
  BY DEF Next, Produce, Work, Fetch, Handle, HandlePrepare, RefuseUnknown, RefuseStatus,
         HandleAckReserved, HandleFulfil, HandleAckCommitted, Decide, Publish, Republish,
         Store, Ack, Fail, RepositoryFails, PublishFails, RepublishFails, StoreFails,
         AckFails, CacheExpires, Crash, Rebalance, RedisExpires, Failure, faultVars, vars

--------------------------------------------------------------------------------
(* A transfer is accepted once *)

Accepting(p, t)  == evt[p] = "TransferPrepareAccepted" /\ cur[p].t = t
Acceptances(t)   == domainLog[t]["TransferPrepareAccepted"]

\* An id that is not in the set of duplicates was never accepted; an acceptance
\* that is still to be published is the only one.
AcceptCore ==
    \A t \in Transfer :
        /\ t \notin seen => Acceptances(t) = 0 /\ \A p \in Proc : ~Accepting(p, t)
        /\ \A p \in Proc : Accepting(p, t) =>
              Acceptances(t) = 0 /\ \A r \in Proc : Accepting(r, t) => r = p
        /\ Acceptances(t) <= 1

AcceptInv == TypeInv /\ ("publish" \notin failed => AcceptCore)

\* Steps that neither rule nor publish leave it alone.
LEMMA AcceptQuiet ==
    ASSUME AcceptCore, domainLog' = domainLog, seen \subseteq seen',
           \A p \in Proc : evt'[p] = "TransferPrepareAccepted" =>
               evt[p] = "TransferPrepareAccepted" /\ cur'[p] = cur[p]
    PROVE  AcceptCore'
  BY DEF AcceptCore, Accepting, Acceptances

LEMMA AcceptHandle ==
    ASSUME TypeInv, AcceptCore, NEW p \in Proc, Handle(p)
    PROVE  AcceptCore'
  <1>1. /\ pc[p] = "handle" /\ cur[p].t \in Transfer
        /\ UNCHANGED <<cur, domainLog>>
    BY HandleShape
  <1>2. PICK e, s, ok : Rules(p, e, s, ok)
    BY HandleShape
  <1>3. /\ evt' = [evt EXCEPT ![p] = e] /\ evt[p] = "none"
        /\ evt \in [Proc -> EventName \union {"none"}]
    BY <1>1, <1>2 DEF Rules, TypeInv, TypeOK, ControlOK
  <1>4. CASE e = "TransferPrepareAccepted"
    <2>1. cur[p].t \notin seen /\ seen' = seen \union {cur[p].t}
      BY <1>2, <1>4 DEF Rules, Accepts, Answers, Moves
    <2>2. ASSUME NEW t \in Transfer, t # cur[p].t
          PROVE  \A r \in Proc : Accepting(r, t)' <=> Accepting(r, t)
      BY <1>1, <1>3, <2>2 DEF Accepting
    <2>3. \A r \in Proc : Accepting(r, cur[p].t)' => r = p
      BY <1>1, <1>3, <2>1 DEF Accepting, AcceptCore
    <2>4. Acceptances(cur[p].t) = 0
      BY <1>1, <2>1 DEF AcceptCore
    <2>5. \A t \in Transfer : Acceptances(t)' = Acceptances(t)
      BY <1>1 DEF Acceptances
    <2> QED
      BY <1>1, <2>1, <2>2, <2>3, <2>4, <2>5 DEF AcceptCore
  <1>5. CASE e # "TransferPrepareAccepted"
    <2>1. seen \subseteq seen'
      BY <1>2 DEF Rules, Accepts, Answers
    <2> QED
      BY <1>1, <1>3, <1>5, <2>1, AcceptQuiet
  <1> QED
    BY <1>4, <1>5

LEMMA AcceptPublish ==
    ASSUME TypeInv, AcceptCore, NEW p \in Proc, "publish" \notin failed',
           Publish(p) \/ PublishFails(p) \/ Republish(p) \/ RepublishFails(p)
    PROVE  AcceptCore'
  <1>1. PICK D \in SUBSET {"domain", "state"}, step \in {"republish", "store", "commit"} :
             Publishes(p, D, step)
    BY PublishShape
  <1>2. cur[p].t \in Transfer /\ evt[p] \in EventName
    BY PublishShape
  <1>3. D = {"domain", "state"} /\ evt' = [evt EXCEPT ![p] = "none"]
    BY <1>1 DEF Publishes, Committed
  <1>4. UNCHANGED <<cur, seen>>
    BY <1>1 DEF Publishes, PublishTo, repoVars
  <1>5. \A r \in Proc : evt'[r] = IF r = p THEN "none" ELSE evt[r]
    BY <1>3 DEF TypeInv, TypeOK
  <1>6. "TransferPrepareAccepted" \in EventName
    BY DEF EventName, StepEvent
  <1>7. \A t \in Transfer :
           Acceptances(t)' = IF Accepting(p, t) THEN Acceptances(t) + 1 ELSE Acceptances(t)
    BY <1>1, <1>2, <1>3, <1>6, DeliverEffect DEF Acceptances, Accepting
  <1>8. \A t \in Transfer, r \in Proc : Accepting(r, t)' <=> Accepting(r, t) /\ r # p
    BY <1>4, <1>5 DEF Accepting
  <1>9. \A t \in Transfer : Acceptances(t) \in Nat
    BY <1>6 DEF Acceptances, TypeInv, TypeOK
  <1> QED
    BY <1>4, <1>7, <1>8, <1>9 DEF AcceptCore

LEMMA AcceptStep == AcceptInv /\ [Next]_vars => AcceptInv'
  <1> SUFFICES ASSUME AcceptInv, [Next]_vars, "publish" \notin failed'
               PROVE  AcceptCore'
    BY TypeStep DEF AcceptInv
  <1>1. TypeInv
    BY DEF AcceptInv
  <1>2. failed \subseteq failed'
    BY FailedKept
  <1>3. AcceptCore
    BY <1>2 DEF AcceptInv
  <1>4. ASSUME NEW c \in Command, Produce(c) PROVE AcceptCore'
    BY <1>3, <1>4, AcceptQuiet DEF Produce, handVars, repoVars, logVars
  <1>5. ASSUME NEW p \in Proc, NEW q \in Partition, Fetch(p, q) PROVE AcceptCore'
    <2>1. \A r \in Proc \ {p} : cur'[r] = cur[r]
      BY <1>1, <1>5 DEF Fetch, TypeInv, TypeOK
    <2>2. evt[p] = "none" /\ UNCHANGED <<evt, seen, domainLog>>
      BY <1>1, <1>5 DEF Fetch, TypeInv, ControlOK, repoVars, logVars
    <2> QED
      BY <1>3, <2>1, <2>2, AcceptQuiet
  <1>6. ASSUME NEW p \in Proc, Store(p) \/ StoreFails(p) PROVE AcceptCore'
    BY <1>1, <1>3, <1>6, StoreShape, AcceptQuiet
  <1>7. ASSUME NEW p \in Proc, RepositoryFails(p) PROVE AcceptCore'
    BY <1>3, <1>7, AcceptQuiet DEF RepositoryFails, logVars
  <1>8. ASSUME NEW p \in Proc, Ack(p) \/ AckFails(p) \/ Crash(p) PROVE AcceptCore'
    <2>1. PICK step \in {"idle", "halted"} : LetGo(p, step)
      BY <1>1, <1>8, LetGoShape
    <2>2. UNCHANGED <<seen, domainLog>>
      BY <1>1, <1>8, LetGoShape
    <2>3. \A r \in Proc : /\ r = p => evt'[r] = "none"
                          /\ r # p => evt'[r] = evt[r] /\ cur'[r] = cur[r]
      BY <1>1, <2>1 DEF LetGo, TypeInv, TypeOK
    <2> QED
      BY <1>3, <2>2, <2>3, AcceptQuiet
  <1>9. ASSUME NEW p \in Proc, NEW t \in Transfer, CacheExpires(p, t) PROVE AcceptCore'
    BY <1>3, <1>9, AcceptQuiet DEF CacheExpires, handVars, logVars
  <1>10. ASSUME NEW p \in Proc, NEW q \in Partition, Rebalance(q, p) PROVE AcceptCore'
    BY <1>3, <1>10, AcceptQuiet DEF Rebalance, handVars, repoVars, logVars
  <1>11. ASSUME NEW t \in Transfer, RedisExpires(t) PROVE AcceptCore'
    BY <1>3, <1>11, AcceptQuiet DEF RedisExpires, handVars, logVars
  <1>12. CASE UNCHANGED vars
    BY <1>3, <1>12, AcceptQuiet DEF vars
  <1> QED
    BY <1>1, <1>3, <1>4, <1>5, <1>6, <1>7, <1>8, <1>9, <1>10, <1>11, <1>12,
       AcceptHandle, AcceptPublish DEF Next, Work, Fail

LEMMA InitAcceptInv == Init => AcceptInv
  <1> SUFFICES ASSUME Init PROVE AcceptInv
    OBVIOUS
  <1>1. TypeInv
    BY InitTypeInv
  <1>2. AcceptCore
    BY DEF Init, AcceptCore, Accepting, Acceptances, EventName, StepEvent
  <1> QED
    BY <1>1, <1>2 DEF AcceptInv

\* As long as no publication failed, a transfer is accepted at most once, across
\* redeliveries, crashes, rebalances and expiries: processPrepareTransferCommand
\* asks the set of duplicates, which answers yes once per id and never forgets.
THEOREM AcceptedOnce == Spec => []PrepareAcceptedOnce
  <1>1. Spec => []AcceptInv
    BY InitAcceptInv, AcceptStep, PTL DEF Spec
  <1>2. AcceptInv => PrepareAcceptedOnce
    BY DEF AcceptInv, AcceptCore, Acceptances, PrepareAcceptedOnce
  <1> QED
    BY <1>1, <1>2, PTL

--------------------------------------------------------------------------------
(* redis holds only announced statuses *)

Announced(t) == {stateLog[t][i] : i \in DOMAIN stateLog[t]}

\* A process about to store has announced what it stores.
StoresAnnounced ==
    \A p \in Proc : pc[p] = "store" => root[p] \in Announced(cur[p].t)

AnnouncedInv == TypeInv /\ PersistedWasAnnounced /\ StoresAnnounced

LEMMA AppendKeeps ==
    ASSUME NEW s \in Seq(Status), NEW v \in Status
    PROVE  /\ \A i \in DOMAIN s : i \in DOMAIN Append(s, v) /\ Append(s, v)[i] = s[i]
           /\ Len(s) + 1 \in DOMAIN Append(s, v) /\ Append(s, v)[Len(s) + 1] = v
  OBVIOUS

\* Announcements are never taken back, and one without failure is made.
LEMMA AnnouncedGrows ==
    ASSUME TypeInv, NEW p \in Proc, NEW D, NEW step, Publishes(p, D, step),
           cur[p].t \in Transfer, evt[p] \in EventName, NEW t \in Transfer
    PROVE  /\ Announced(t) \subseteq Announced(t)'
           /\ step = "store" /\ t = cur[p].t => root[p] \in Announced(t)'
  <1>1. stateLog[t] \in Seq(Status) /\ (stateEvt[p] => root[p] \in Status)
    BY DEF TypeInv, TypeOK
  <1>2. stateLog'[t] = IF "state" \in D /\ t = cur[p].t /\ stateEvt[p]
                       THEN Append(stateLog[t], root[p]) ELSE stateLog[t]
    BY DeliverEffect
  <1>3. CASE stateLog'[t] = stateLog[t] /\ ~(step = "store" /\ t = cur[p].t)
    BY <1>3 DEF Announced
  <1>4. CASE stateEvt[p] /\ stateLog'[t] = Append(stateLog[t], root[p])
    <2>1. /\ \A i \in DOMAIN stateLog[t] :
                i \in DOMAIN stateLog'[t] /\ stateLog'[t][i] = stateLog[t][i]
          /\ Len(stateLog[t]) + 1 \in DOMAIN stateLog'[t]
          /\ stateLog'[t][Len(stateLog[t]) + 1] = root[p]
      BY <1>1, <1>4, AppendKeeps
    <2>2. Announced(t) \subseteq Announced(t)'
      BY <2>1 DEF Announced
    <2>3. root[p] \in {stateLog'[t][i] : i \in DOMAIN stateLog'[t]}
      BY <2>1
    <2> QED
      BY <2>2, <2>3 DEF Announced
  <1> QED
    BY <1>2, <1>3, <1>4 DEF Publishes

\* Steps that neither publish nor store leave it alone.
LEMMA AnnouncedQuiet ==
    ASSUME AnnouncedInv, TypeInv', stateLog' = stateLog,
           \A t \in Transfer : redis'[t] \in {redis[t], Absent},
           \A p \in Proc : pc'[p] = "store" =>
               pc[p] = "store" /\ cur'[p] = cur[p] /\ root'[p] = root[p]
    PROVE  AnnouncedInv'
  <1>1. PersistedWasAnnounced'
    BY DEF AnnouncedInv, PersistedWasAnnounced
  <1>2. StoresAnnounced'
    BY DEF AnnouncedInv, StoresAnnounced, Announced
  <1> QED
    BY <1>1, <1>2 DEF AnnouncedInv

LEMMA AnnouncedPublish ==
    ASSUME AnnouncedInv, TypeInv', NEW p \in Proc,
           Publish(p) \/ PublishFails(p) \/ Republish(p) \/ RepublishFails(p)
    PROVE  AnnouncedInv'
  <1>1. TypeInv
    BY DEF AnnouncedInv
  <1>2. PICK D \in SUBSET {"domain", "state"}, step \in {"republish", "store", "commit"} :
             Publishes(p, D, step)
    BY <1>1, PublishShape
  <1>3. cur[p].t \in Transfer /\ evt[p] \in EventName
    BY <1>1, PublishShape
  <1>4. pc' = [pc EXCEPT ![p] = step] /\ UNCHANGED <<cur, root, redis>>
    BY <1>2 DEF Publishes, PublishTo, repoVars
  <1>5. PersistedWasAnnounced'
    <2> SUFFICES ASSUME NEW t \in Transfer, redis'[t] # Absent
                 PROVE  redis'[t] \in Announced(t)'
      BY DEF PersistedWasAnnounced, Announced
    <2>1. redis[t] \in Announced(t)
      BY <1>4 DEF AnnouncedInv, PersistedWasAnnounced, Announced
    <2> QED
      BY <1>1, <1>2, <1>3, <1>4, <2>1, AnnouncedGrows
  <1>6. StoresAnnounced'
    <2> SUFFICES ASSUME NEW r \in Proc, pc'[r] = "store", NEW t, t = cur[r].t
                 PROVE  root[r] \in Announced(t)'
      BY <1>4 DEF StoresAnnounced, Announced
    <2>1. CASE r = p
      <3>1. step = "store"
        BY <1>1, <1>4, <2>1 DEF TypeInv, TypeOK
      <3> QED
        BY <1>1, <1>2, <1>3, <2>1, <3>1, AnnouncedGrows
    <2>2. CASE r # p
      <3>1. pc[r] = "store"
        BY <1>1, <1>4, <2>2 DEF TypeInv, TypeOK
      <3>2. t \in Transfer
        BY <1>1, <3>1, CommandFields DEF TypeInv, TypeOK
      <3>3. root[r] \in Announced(t)
        BY <3>1 DEF AnnouncedInv, StoresAnnounced
      <3> QED
        BY <1>1, <1>2, <1>3, <3>2, <3>3, AnnouncedGrows
    <2> QED
      BY <2>1, <2>2
  <1> QED
    BY <1>5, <1>6 DEF AnnouncedInv

LEMMA AnnouncedStore ==
    ASSUME AnnouncedInv, TypeInv', NEW p \in Proc, Store(p) \/ StoreFails(p)
    PROVE  AnnouncedInv'
  <1>1. TypeInv
    BY DEF AnnouncedInv
  <1>2. /\ pc[p] = "store" /\ cur[p].t \in Transfer
        /\ redis' = redis \/ redis' = [redis EXCEPT ![cur[p].t] = root[p]]
        /\ pc' = [pc EXCEPT ![p] = "commit"]
        /\ UNCHANGED <<cur, root, stateLog>>
    BY <1>1, StoreShape
  <1>3. root[p] \in Announced(cur[p].t)
    BY <1>2 DEF AnnouncedInv, StoresAnnounced
  <1>4. \A t \in Transfer : redis'[t] = redis[t] \/ (t = cur[p].t /\ redis'[t] = root[p])
    BY <1>1, <1>2 DEF TypeInv, TypeOK
  <1>5. PersistedWasAnnounced'
    BY <1>2, <1>3, <1>4 DEF AnnouncedInv, PersistedWasAnnounced, Announced
  <1>6. StoresAnnounced'
    <2>1. \A r \in Proc : pc'[r] = "store" => pc[r] = "store"
      BY <1>1, <1>2 DEF TypeInv, TypeOK
    <2> QED
      BY <1>2, <2>1 DEF AnnouncedInv, StoresAnnounced, Announced
  <1> QED
    BY <1>5, <1>6 DEF AnnouncedInv

LEMMA AnnouncedStep == AnnouncedInv /\ [Next]_vars => AnnouncedInv'
  <1> SUFFICES ASSUME AnnouncedInv, [Next]_vars PROVE AnnouncedInv'
    OBVIOUS
  <1>1. TypeInv /\ TypeInv'
    BY TypeStep DEF AnnouncedInv
  <1>2. ASSUME NEW c \in Command, Produce(c) PROVE AnnouncedInv'
    BY <1>1, <1>2, AnnouncedQuiet DEF Produce, handVars, repoVars, logVars
  <1>3. ASSUME NEW p \in Proc, NEW q \in Partition, Fetch(p, q) PROVE AnnouncedInv'
    <2>1. \A r \in Proc : pc'[r] = "store" =>
              pc[r] = "store" /\ cur'[r] = cur[r] /\ root'[r] = root[r]
      BY <1>1, <1>3 DEF Fetch, TypeInv, TypeOK
    <2> QED
      BY <1>1, <1>3, <2>1, AnnouncedQuiet DEF Fetch, repoVars, logVars
  <1>4. ASSUME NEW p \in Proc, Handle(p) PROVE AnnouncedInv'
    <2>1. /\ pc' = [pc EXCEPT ![p] = "publish"] /\ UNCHANGED <<cur, redis, stateLog>>
      BY <1>1, <1>4, HandleShape
    <2>2. \A r \in Proc \ {p} : root'[r] = root[r]
      BY <1>1, <1>4, HandleShape DEF Rules, TypeInv, TypeOK
    <2>3. \A r \in Proc : pc'[r] = "store" => r # p /\ pc[r] = "store"
      BY <1>1, <2>1 DEF TypeInv, TypeOK
    <2> QED
      BY <1>1, <2>1, <2>2, <2>3, AnnouncedQuiet
  <1>5. ASSUME NEW p \in Proc, RepositoryFails(p) PROVE AnnouncedInv'
    <2>1. \A r \in Proc : pc'[r] = "store" => pc[r] = "store"
      BY <1>1, <1>5 DEF RepositoryFails, TypeInv, TypeOK
    <2> QED
      BY <1>1, <1>5, <2>1, AnnouncedQuiet DEF RepositoryFails, logVars
  <1>6. ASSUME NEW p \in Proc, Ack(p) \/ AckFails(p) \/ Crash(p) PROVE AnnouncedInv'
    <2>1. PICK step \in {"idle", "halted"} : LetGo(p, step)
      BY <1>1, <1>6, LetGoShape
    <2>2. UNCHANGED <<redis, stateLog>>
      BY <1>1, <1>6, LetGoShape
    <2>3. \A r \in Proc : pc'[r] = "store" =>
              pc[r] = "store" /\ cur'[r] = cur[r] /\ root'[r] = root[r]
      BY <1>1, <2>1 DEF LetGo, TypeInv, TypeOK
    <2> QED
      BY <1>1, <2>2, <2>3, AnnouncedQuiet
  <1>7. ASSUME NEW p \in Proc, NEW t \in Transfer, CacheExpires(p, t) PROVE AnnouncedInv'
    BY <1>1, <1>7, AnnouncedQuiet DEF CacheExpires, handVars, logVars
  <1>8. ASSUME NEW p \in Proc, NEW q \in Partition, Rebalance(q, p) PROVE AnnouncedInv'
    BY <1>1, <1>8, AnnouncedQuiet DEF Rebalance, handVars, repoVars, logVars
  <1>9. ASSUME NEW t \in Transfer, RedisExpires(t) PROVE AnnouncedInv'
    <2>1. \A u \in Transfer : redis'[u] \in {redis[u], Absent}
      BY <1>1, <1>9 DEF RedisExpires, TypeInv, TypeOK
    <2> QED
      BY <1>1, <1>9, <2>1, AnnouncedQuiet DEF RedisExpires, handVars, logVars
  <1>10. CASE UNCHANGED vars
    BY <1>1, <1>10, AnnouncedQuiet DEF vars
  <1> QED
    BY <1>1, <1>2, <1>3, <1>4, <1>5, <1>6, <1>7, <1>8, <1>9, <1>10,
       AnnouncedPublish, AnnouncedStore DEF Next, Work, Fail

\* Whatever fails, redis holds only statuses the event stream announced:
\* BaseAggregate.processCommand stores only when the first commit went through.
THEOREM AnnouncedFirst == Spec => []PersistedWasAnnounced
  <1>1. Init => AnnouncedInv
    BY InitTypeInv DEF Init, AnnouncedInv, PersistedWasAnnounced, StoresAnnounced
  <1>2. Spec => []AnnouncedInv
    BY <1>1, AnnouncedStep, PTL DEF Spec
  <1>3. AnnouncedInv => PersistedWasAnnounced
    BY DEF AnnouncedInv
  <1> QED
    BY <1>2, <1>3, PTL

--------------------------------------------------------------------------------
(* A fulfilment is accepted only of a transfer announced as prepared *)

Prepared(t) == Published(t, "TransferPrepared")
Beyond(s)   == s \in Status \ {"RECEIVED_PREPARE"}

\* A status beyond RECEIVED_PREPARE stands for an announced reservation, or for
\* the one that the process holding it in its cache is about to announce.
PreparedCore ==
    /\ \A t \in Transfer : Beyond(redis[t]) => Prepared(t)
    /\ \A p \in Proc, t \in Transfer : Beyond(cache[p][t]) =>
           Prepared(t) \/ (evt[p] = "TransferPrepared" /\ cur[p].t = t)
    /\ \A p \in Proc : pc[p] = "store" /\ Beyond(root[p]) => Prepared(cur[p].t)
    /\ \A p \in Proc : evt[p] \in {"TransferFulfilAccepted", "TransferFulfilled"} =>
           Prepared(cur[p].t)
    /\ \A t \in Transfer : Published(t, "TransferFulfilAccepted") => Prepared(t)

PreparedInv == TypeInv /\ ("publish" \notin failed => PreparedCore)

\* Steps that neither rule, publish nor store leave it alone.
LEMMA PreparedQuiet ==
    ASSUME PreparedCore, domainLog' = domainLog,
           \A t \in Transfer : redis'[t] \in {redis[t], Absent},
           \A p \in Proc, t \in Transfer : cache'[p][t] \in {cache[p][t], Absent},
           \A p \in Proc :
               \/ evt'[p] = evt[p] /\ cur'[p] = cur[p]
               \/ evt[p] = "none" /\ evt'[p] = "none"
               \/ evt'[p] = "none" /\ \A t \in Transfer : cache'[p][t] = Absent,
           \A p \in Proc : pc'[p] = "store" =>
               pc[p] = "store" /\ cur'[p] = cur[p] /\ root'[p] = root[p]
    PROVE  PreparedCore'
  <1>1. \A t \in Transfer, n \in EventName : Published(t, n)' <=> Published(t, n)
    BY DEF Published
  <1>2. ~Beyond(Absent)
    BY ConstantTypes DEF Beyond
  <1>3. \A t \in Transfer : Prepared(t)' <=> Prepared(t)
    BY <1>1 DEF Prepared, EventName, StepEvent
  <1>4. \A t \in Transfer : Beyond(redis'[t]) => Beyond(redis[t])
    BY <1>2
  <1>5. ASSUME NEW p \in Proc, NEW t \in Transfer, Beyond(cache'[p][t])
        PROVE  Prepared(t) \/ (evt'[p] = "TransferPrepared" /\ cur'[p].t = t)
    BY <1>2, <1>5 DEF PreparedCore
  <1> QED
    BY <1>1, <1>3, <1>4, <1>5 DEF PreparedCore, Prepared, Published

LEMMA PreparedHandle ==
    ASSUME TypeInv, PreparedCore, NEW p \in Proc, Handle(p)
    PROVE  PreparedCore'
  <1>1. /\ pc[p] = "handle" /\ cur[p].t \in Transfer
        /\ pc' = [pc EXCEPT ![p] = "publish"]
        /\ UNCHANGED <<cur, redis, domainLog>>
    BY HandleShape
  <1>2. PICK e, s, ok : Rules(p, e, s, ok)
    BY HandleShape
  <1>3. evt[p] = "none"
    BY <1>1 DEF TypeInv, ControlOK
  <1>4. \A r \in Proc : /\ r = p => evt'[r] = e
                        /\ r # p => evt'[r] = evt[r] /\ root'[r] = root[r] /\ pc'[r] = pc[r]
    BY <1>1, <1>2 DEF Rules, TypeInv, TypeOK
  <1>5. pc'[p] = "publish"
    BY <1>1 DEF TypeInv, TypeOK
  <1>6. Beyond(Loaded(p)) => Prepared(cur[p].t)
    BY <1>1, <1>3 DEF Loaded, PreparedCore
  <1>7. e \in {"TransferFulfilAccepted", "TransferFulfilled"} => Prepared(cur[p].t)
    BY <1>2, <1>6 DEF Rules, Accepts, Answers, Moves, Beyond, Status
  <1>8. ASSUME NEW t \in Transfer
        PROVE  \/ cache'[p][t] = cache[p][t]
               \/ t = cur[p].t /\ cache'[p][t] = s
                  /\ (Beyond(s) => e = "TransferPrepared" \/ Beyond(Loaded(p)))
    <2>1. CASE Accepts(p, e, s, ok)
      BY <2>1 DEF Accepts
    <2>2. CASE Answers(p, e, s, ok)
      <3>1. Beyond(s) => e = "TransferPrepared" \/ Beyond(Loaded(p))
        BY <2>2 DEF Answers, Moves, Beyond, Status
      <3> QED
        BY <1>1, <2>2, <3>1 DEF Answers, TypeInv, TypeOK
    <2> QED
      BY <1>2, <2>1, <2>2 DEF Rules
  <1>9. \A r \in Proc \ {p} : cache'[r] = cache[r]
    BY <1>2 DEF Rules, Accepts, Answers, TypeInv, TypeOK
  <1>10. ASSUME NEW r \in Proc, NEW t \in Transfer, Beyond(cache'[r][t])
         PROVE  Prepared(t) \/ (evt'[r] = "TransferPrepared" /\ cur[r].t = t)
    <2>1. CASE r # p
      BY <1>4, <1>9, <1>10, <2>1 DEF PreparedCore
    <2>2. CASE r = p /\ cache'[p][t] = cache[p][t]
      BY <1>3, <1>10, <2>2 DEF PreparedCore
    <2>3. CASE r = p /\ cache'[p][t] # cache[p][t]
      BY <1>4, <1>6, <1>8, <1>10, <2>3
    <2> QED
      BY <2>1, <2>2, <2>3
  <1>11. \A t \in Transfer : /\ Prepared(t)' <=> Prepared(t)
                             /\ Published(t, "TransferFulfilAccepted")' <=>
                                Published(t, "TransferFulfilAccepted")
    BY <1>1 DEF Prepared, Published
  <1>12. \A r \in Proc : Prepared(cur[r].t)' <=> Prepared(cur[r].t)
    BY <1>1 DEF Prepared, Published
  <1>13. \A r \in Proc : pc'[r] = "store" => r # p
    BY <1>5
  <1> QED
    BY <1>1, <1>4, <1>7, <1>10, <1>11, <1>12, <1>13 DEF PreparedCore

LEMMA PreparedPublish ==
    ASSUME TypeInv, PreparedCore, NEW p \in Proc, "publish" \notin failed',
           Publish(p) \/ PublishFails(p) \/ Republish(p) \/ RepublishFails(p)
    PROVE  PreparedCore'
  <1>1. PICK D \in SUBSET {"domain", "state"}, step \in {"republish", "store", "commit"} :
             Publishes(p, D, step)
    BY PublishShape
  <1>2. cur[p].t \in Transfer /\ evt[p] \in EventName
    BY PublishShape
  <1>3. D = {"domain", "state"} /\ evt' = [evt EXCEPT ![p] = "none"]
    BY <1>1 DEF Publishes, Committed
  <1>4. UNCHANGED <<cur, root, cache, redis>> /\ pc' = [pc EXCEPT ![p] = step]
    BY <1>1 DEF Publishes, PublishTo, repoVars
  <1>5. \A r \in Proc : /\ evt'[r] = IF r = p THEN "none" ELSE evt[r]
                        /\ pc'[r] = IF r = p THEN step ELSE pc[r]
    BY <1>3, <1>4 DEF TypeInv, TypeOK
  <1>6. {"TransferPrepared", "TransferFulfilAccepted"} \subseteq EventName
    BY DEF EventName, StepEvent
  <1>7. \A t \in Transfer, n \in EventName :
           Published(t, n)' <=> Published(t, n) \/ (t = cur[p].t /\ n = evt[p])
    <2>1. \A t \in Transfer, n \in EventName : domainLog[t][n] \in Nat
      BY DEF TypeInv, TypeOK
    <2> QED
      BY <1>1, <1>2, <1>3, <2>1, DeliverEffect DEF Published
  <1>8. \A t \in Transfer :
           /\ Prepared(t)' <=> Prepared(t) \/ (t = cur[p].t /\ evt[p] = "TransferPrepared")
           /\ Published(t, "TransferFulfilAccepted")' <=>
                  \/ Published(t, "TransferFulfilAccepted")
                  \/ t = cur[p].t /\ evt[p] = "TransferFulfilAccepted"
    BY <1>6, <1>7 DEF Prepared
  <1>9. ASSUME NEW r \in Proc, pc[r] \notin {"idle", "halted"}, NEW t, t = cur[r].t, Prepared(t)
        PROVE  Prepared(t)'
    <2>1. t \in Transfer
      BY <1>9, CommandFields DEF TypeInv, TypeOK
    <2> QED
      BY <1>8, <1>9, <2>1
  <1>10. \A r \in Proc : pc'[r] = "store" /\ Beyond(root[r]) => Prepared(cur[r].t)'
    <2> SUFFICES ASSUME NEW r \in Proc, pc'[r] = "store", Beyond(root[r]), NEW t, t = cur[r].t
                 PROVE  Prepared(t)'
      BY <1>4 DEF Prepared, Published
    <2>1. CASE r = p
      <3>1. stateEvt[p]
        BY <1>1, <1>5, <2>1 DEF Publishes
      <3>2. evt[p] \in {"TransferPrepared", "TransferFulfilAccepted", "TransferFulfilled"}
        BY <2>1, <3>1 DEF TypeInv, ControlOK, StepEvent, Beyond
      <3>3. Prepared(t) \/ evt[p] = "TransferPrepared"
        BY <2>1, <3>2 DEF PreparedCore
      <3> QED
        BY <1>2, <1>8, <2>1, <3>3
    <2>2. CASE r # p
      BY <1>5, <1>9, <2>2 DEF PreparedCore
    <2> QED
      BY <2>1, <2>2
  <1>11. \A r \in Proc : evt'[r] \in {"TransferFulfilAccepted", "TransferFulfilled"} =>
             Prepared(cur[r].t)'
    <2> SUFFICES ASSUME NEW r \in Proc, NEW t, t = cur[r].t,
                        evt'[r] \in {"TransferFulfilAccepted", "TransferFulfilled"}
                 PROVE  Prepared(t)'
      BY <1>4 DEF Prepared, Published
    <2>1. r # p /\ evt'[r] = evt[r] /\ Prepared(t)
      BY <1>5 DEF PreparedCore
    <2>2. pc[r] \notin {"idle", "halted"}
      BY <2>1 DEF TypeInv, ControlOK
    <2> QED
      BY <1>9, <2>1, <2>2
  <1>12. \A r \in Proc, t \in Transfer : Beyond(cache[r][t]) =>
             Prepared(t)' \/ (evt'[r] = "TransferPrepared" /\ cur[r].t = t)
    BY <1>5, <1>8 DEF PreparedCore
  <1>13. \A t \in Transfer : /\ Beyond(redis[t]) => Prepared(t)'
                             /\ Published(t, "TransferFulfilAccepted")' => Prepared(t)'
    BY <1>8 DEF PreparedCore
  <1> QED
    BY <1>4, <1>10, <1>11, <1>12, <1>13 DEF PreparedCore

LEMMA PreparedStore ==
    ASSUME TypeInv, PreparedCore, NEW p \in Proc, Store(p) \/ StoreFails(p)
    PROVE  PreparedCore'
  <1>1. /\ pc[p] = "store" /\ cur[p].t \in Transfer
        /\ cache' = [cache EXCEPT ![p][cur[p].t] = root[p]]
        /\ redis' = redis \/ redis' = [redis EXCEPT ![cur[p].t] = root[p]]
        /\ pc' = [pc EXCEPT ![p] = "commit"]
        /\ UNCHANGED <<cur, root, evt, domainLog>>
    BY StoreShape
  <1>2. Beyond(root[p]) => Prepared(cur[p].t)
    BY <1>1 DEF PreparedCore
  <1>3. \A t \in Transfer : redis'[t] = redis[t] \/ (t = cur[p].t /\ redis'[t] = root[p])
    BY <1>1 DEF TypeInv, TypeOK
  <1>4. \A r \in Proc, t \in Transfer :
           \/ cache'[r][t] = cache[r][t]
           \/ r = p /\ t = cur[p].t /\ cache'[r][t] = root[p]
    BY <1>1 DEF TypeInv, TypeOK
  <1>5. \A r \in Proc : pc'[r] = "store" => pc[r] = "store"
    BY <1>1 DEF TypeInv, TypeOK
  <1>6. /\ \A t \in Transfer : \A n : Published(t, n)' <=> Published(t, n)
        /\ \A t \in Transfer : Prepared(t)' <=> Prepared(t)
        /\ \A r \in Proc : Prepared(cur[r].t)' <=> Prepared(cur[r].t)
    BY <1>1 DEF Published, Prepared
  <1>7. \A t \in Transfer : Beyond(redis'[t]) => Prepared(t)
    BY <1>2, <1>3 DEF PreparedCore
  <1>8. \A r \in Proc, t \in Transfer : Beyond(cache'[r][t]) =>
           Prepared(t) \/ (evt[r] = "TransferPrepared" /\ cur[r].t = t)
    BY <1>2, <1>4 DEF PreparedCore
  <1> QED
    BY <1>1, <1>5, <1>6, <1>7, <1>8 DEF PreparedCore

LEMMA PreparedStep == PreparedInv /\ [Next]_vars => PreparedInv'
  <1> SUFFICES ASSUME PreparedInv, [Next]_vars, "publish" \notin failed'
               PROVE  PreparedCore'
    BY TypeStep DEF PreparedInv
  <1>1. TypeInv /\ PreparedCore
    BY FailedKept DEF PreparedInv
  <1>2. ASSUME NEW c \in Command, Produce(c) PROVE PreparedCore'
    BY <1>1, <1>2, PreparedQuiet DEF Produce, handVars, repoVars, logVars
  <1>3. ASSUME NEW p \in Proc, NEW q \in Partition, Fetch(p, q) PROVE PreparedCore'
    <2>1. \A r \in Proc : /\ r # p => cur'[r] = cur[r] /\ pc'[r] = pc[r]
                          /\ r = p => pc'[r] = "handle"
      BY <1>1, <1>3 DEF Fetch, TypeInv, TypeOK
    <2>2. evt[p] = "none" /\ UNCHANGED <<evt, root, cache, redis, domainLog>>
      BY <1>1, <1>3 DEF Fetch, TypeInv, ControlOK, repoVars, logVars
    <2> QED
      BY <1>1, <2>1, <2>2, PreparedQuiet
  <1>4. ASSUME NEW p \in Proc, RepositoryFails(p) PROVE PreparedCore'
    <2>1. \A r \in Proc : pc'[r] = "store" => pc[r] = "store"
      BY <1>1, <1>4 DEF RepositoryFails, TypeInv, TypeOK
    <2> QED
      BY <1>1, <1>4, <2>1, PreparedQuiet DEF RepositoryFails, logVars
  <1>5. ASSUME NEW p \in Proc, Ack(p) \/ AckFails(p) \/ Crash(p) PROVE PreparedCore'
    <2>1. PICK step \in {"idle", "halted"} : LetGo(p, step)
      BY <1>1, <1>5, LetGoShape
    <2>2. \A r \in Proc : /\ r = p => evt'[r] = "none" /\ pc'[r] = step
                          /\ r # p => /\ evt'[r] = evt[r] /\ cur'[r] = cur[r]
                                      /\ pc'[r] = pc[r] /\ root'[r] = root[r]
      BY <1>1, <2>1 DEF LetGo, TypeInv, TypeOK
    <2>3. UNCHANGED <<redis, domainLog>>
      BY <1>1, <1>5, LetGoShape
    <2>4. \/ cache' = cache /\ evt[p] = "none"
          \/ cache' = [cache EXCEPT ![p] = [t \in Transfer |-> Absent]]
      BY <1>1, <1>5, LetGoShape
    <2>5. /\ \A r \in Proc, t \in Transfer : cache'[r][t] \in {cache[r][t], Absent}
          /\ evt[p] = "none" \/ \A t \in Transfer : cache'[p][t] = Absent
      <3> DEFINE none == [t \in Transfer |-> Absent]
      <3>1. cache \in [Proc -> [Transfer -> MaybeStatus]]
        BY <1>1 DEF TypeInv, TypeOK
      <3>2. CASE cache' = cache /\ evt[p] = "none"
        BY <3>2
      <3>3. CASE cache' = [cache EXCEPT ![p] = none]
        <4>1. \A r \in Proc : cache'[r] = IF r = p THEN none ELSE cache[r]
          BY <3>1, <3>3
        <4>2. \A t \in Transfer : none[t] = Absent
          OBVIOUS
        <4> HIDE DEF none
        <4> QED
          BY <4>1, <4>2
      <3> QED
        BY <2>4, <3>2, <3>3
    <2> QED
      BY <1>1, <2>2, <2>3, <2>5, PreparedQuiet
  <1>6. ASSUME NEW p \in Proc, NEW t \in Transfer, CacheExpires(p, t) PROVE PreparedCore'
    <2>1. \A r \in Proc, u \in Transfer : cache'[r][u] \in {cache[r][u], Absent}
      BY <1>1, <1>6 DEF CacheExpires, TypeInv, TypeOK
    <2> QED
      BY <1>1, <1>6, <2>1, PreparedQuiet DEF CacheExpires, handVars, logVars
  <1>7. ASSUME NEW p \in Proc, NEW q \in Partition, Rebalance(q, p) PROVE PreparedCore'
    BY <1>1, <1>7, PreparedQuiet DEF Rebalance, handVars, repoVars, logVars
  <1>8. ASSUME NEW t \in Transfer, RedisExpires(t) PROVE PreparedCore'
    <2>1. \A u \in Transfer : redis'[u] \in {redis[u], Absent}
      BY <1>1, <1>8 DEF RedisExpires, TypeInv, TypeOK
    <2> QED
      BY <1>1, <1>8, <2>1, PreparedQuiet DEF RedisExpires, handVars, logVars
  <1>9. CASE UNCHANGED vars
    BY <1>1, <1>9, PreparedQuiet DEF vars
  <1> QED
    BY <1>1, <1>2, <1>3, <1>4, <1>5, <1>6, <1>7, <1>8, <1>9,
       PreparedHandle, PreparedPublish, PreparedStore DEF Next, Work, Fail

LEMMA InitPreparedInv == Init => PreparedInv
  <1> SUFFICES ASSUME Init PROVE PreparedInv
    OBVIOUS
  <1>1. TypeInv
    BY InitTypeInv
  <1>2. ~Beyond(Absent)
    BY ConstantTypes DEF Beyond
  <1>3. PreparedCore
    BY <1>2 DEF Init, PreparedCore, Published, EventName, StepEvent
  <1> QED
    BY <1>1, <1>3 DEF PreparedInv

\* As long as no publication failed, a fulfilment is accepted only of a transfer
\* whose reservation was announced, although processFulfilTransferCommand trusts
\* a cached status that is set before the events go out.
THEOREM PreparedFirst == Spec => []FulfilOnlyIfPrepared
  <1>1. Spec => []PreparedInv
    BY InitPreparedInv, PreparedStep, PTL DEF Spec
  <1>2. PreparedInv => FulfilOnlyIfPrepared
    BY DEF PreparedInv, PreparedCore, Prepared, FulfilOnlyIfPrepared
  <1> QED
    BY <1>1, <1>2, PTL

--------------------------------------------------------------------------------
(* No store takes a transfer back *)

\* The process that takes the commands of a transfer while no partition moves.
Home(t) == InitialOwner[KeyPartition[t]]
Busy(p) == pc[p] \notin {"idle", "halted"}
Storing(p) == pc[p] = "store" \/ stateEvt[p]

\* Status s is not behind r, what redis holds of the transfer.
NotBehind(s, r) == r # Absent => Rank(r) <= Rank(s)

\* Every command of a transfer reaches the same process, whose cached copy is
\* never behind redis, and redis knows only transfers of the duplicate set.
RegressCore ==
    /\ owner = InitialOwner
    /\ \A q \in Partition : \A i \in 1..Len(topic[q]) : KeyPartition[topic[q][i].t] = q
    /\ \A p \in Proc : Busy(p) => Home(cur[p].t) = p
    /\ \A p \in Proc, t \in Transfer : cache[p][t] # Absent =>
           Home(t) = p /\ t \in seen /\ NotBehind(cache[p][t], redis[t])
    /\ \A p \in Proc : Storing(p) => cur[p].t \in seen /\ NotBehind(root[p], redis[cur[p].t])
    /\ \A t \in Transfer : redis[t] # Absent => t \in seen

RegressInv == TypeInv /\ ("rebalance" \notin failed => RegressCore)

LEMMA MovesForward ==
    ASSUME NEW e, NEW a, NEW b, <<e, a, b>> \in Moves
    PROVE  a # Absent /\ b # Absent /\ Rank(a) <= Rank(b)
  BY ConstantTypes DEF Moves, Rank, Status

LEMMA RankNat == \A s : Rank(s) \in Nat
  BY DEF Rank

LEMMA StoringBusy ==
    ASSUME TypeInv, NEW p \in Proc, Storing(p)
    PROVE  Busy(p) /\ cur[p].t \in Transfer
  <1>1. Busy(p)
    BY DEF TypeInv, ControlOK, Storing, Busy
  <1> QED
    BY <1>1, CommandFields DEF TypeInv, TypeOK, Busy

\* Steps that neither take, rule nor store leave it alone.
LEMMA RegressQuiet ==
    ASSUME RegressCore, UNCHANGED <<topic, owner>>, seen \subseteq seen',
           \A t \in Transfer : redis'[t] \in {redis[t], Absent},
           \A p \in Proc, t \in Transfer : cache'[p][t] \in {cache[p][t], Absent},
           \A p \in Proc : \/ cur'[p] = cur[p] /\ root'[p] = root[p]
                              /\ (Busy(p)' => Busy(p)) /\ (Storing(p)' => Storing(p))
                           \/ ~Busy(p)' /\ ~Storing(p)',
           TypeInv
    PROVE  RegressCore'
  <1>1. \A t \in Transfer : \A s : NotBehind(s, redis[t]) => NotBehind(s, redis'[t])
    BY DEF NotBehind
  <1>2. \A p \in Proc, t \in Transfer : cache'[p][t] # Absent =>
            Home(t) = p /\ t \in seen' /\ NotBehind(cache'[p][t], redis'[t])
    BY <1>1 DEF RegressCore, NotBehind
  <1>3. \A p \in Proc : Storing(p)' =>
            cur'[p].t \in seen' /\ NotBehind(root'[p], redis'[cur'[p].t])
    <2> SUFFICES ASSUME NEW p \in Proc, Storing(p)'
                 PROVE  cur'[p].t \in seen' /\ NotBehind(root'[p], redis'[cur'[p].t])
      OBVIOUS
    <2>1. Storing(p) /\ cur'[p] = cur[p] /\ root'[p] = root[p]
      OBVIOUS
    <2>2. cur[p].t \in Transfer
      BY <2>1, StoringBusy
    <2> QED
      BY <2>1, <2>2 DEF RegressCore, NotBehind
  <1>4. \A p \in Proc : Busy(p)' => Home(cur'[p].t) = p
    BY DEF RegressCore
  <1> QED
    BY <1>2, <1>3, <1>4 DEF RegressCore, Home

LEMMA RegressProduce ==
    ASSUME TypeInv, RegressCore, NEW c \in Command, Produce(c)
    PROVE  RegressCore'
  <1>1. KeyPartition[c.t] \in Partition
    BY CommandFields
  <1>2. \A q \in Partition : \A i \in 1..Len(topic'[q]) : KeyPartition[topic'[q][i].t] = q
    <2> SUFFICES ASSUME NEW q \in Partition, NEW i \in 1..Len(topic'[q])
                 PROVE  KeyPartition[topic'[q][i].t] = q
      OBVIOUS
    <2>1. topic[q] \in Seq(Command)
      BY DEF TypeInv, TypeOK
    <2>2. topic'[q] = IF q = KeyPartition[c.t] THEN Append(topic[q], c) ELSE topic[q]
      BY <1>1 DEF Produce, TypeInv, TypeOK
    <2>3. CASE i \in 1..Len(topic[q])
      BY <2>1, <2>2, <2>3 DEF RegressCore
    <2>4. CASE i \notin 1..Len(topic[q])
      BY <2>1, <2>2, <2>4
    <2> QED
      BY <2>3, <2>4
  <1>3. UNCHANGED <<owner, pc, cur, root, stateEvt, seen, cache, redis>>
    BY DEF Produce, handVars, repoVars
  <1> QED
    BY <1>2, <1>3 DEF RegressCore, Busy, Storing, NotBehind, Home

LEMMA RegressFetch ==
    ASSUME TypeInv, RegressCore, NEW p \in Proc, NEW q \in Partition, Fetch(p, q)
    PROVE  RegressCore'
  <1>1. owner[q] = p /\ next[q] + 1 \in 1..Len(topic[q])
    BY DEF Fetch, TypeInv, TypeOK
  <1>2. Home(topic[q][next[q] + 1].t) = p
    BY <1>1 DEF RegressCore, Home
  <1>3. \A r \in Proc : /\ r = p => cur'[r] = topic[q][next[q] + 1] /\ pc'[r] = "handle"
                        /\ r # p => cur'[r] = cur[r] /\ pc'[r] = pc[r]
    BY DEF Fetch, TypeInv, TypeOK
  <1>4. UNCHANGED <<topic, owner, root, stateEvt, seen, cache, redis>> /\ ~stateEvt[p]
    BY DEF Fetch, repoVars, TypeInv, ControlOK
  <1>5. \A r \in Proc : Busy(r)' => Home(cur'[r].t) = r
    BY <1>2, <1>3 DEF RegressCore, Busy
  <1>6. \A r \in Proc : Storing(r)' => Storing(r) /\ r # p
    BY <1>3, <1>4 DEF Storing
  <1> QED
    BY <1>3, <1>4, <1>5, <1>6 DEF RegressCore, NotBehind, Home

LEMMA RegressHandle ==
    ASSUME TypeInv, RegressCore, NEW p \in Proc, Handle(p)
    PROVE  RegressCore'
  <1> DEFINE t == cur[p].t
  <1>1. /\ pc[p] = "handle" /\ t \in Transfer
        /\ pc' = [pc EXCEPT ![p] = "publish"]
        /\ UNCHANGED <<topic, owner, cur, redis>>
    BY HandleShape
  <1>2. PICK e, s, ok : Rules(p, e, s, ok)
    BY HandleShape
  <1>3. \A r \in Proc :
           /\ r = p => root'[r] = s /\ stateEvt'[r] = ok /\ pc'[r] = "publish"
           /\ r # p => root'[r] = root[r] /\ stateEvt'[r] = stateEvt[r] /\ pc'[r] = pc[r]
    BY <1>1, <1>2 DEF Rules, TypeInv, TypeOK
  <1>4. seen \subseteq seen' /\ Home(t) = p
    BY <1>1, <1>2 DEF Rules, Accepts, Answers, RegressCore, Busy
  <1>5. Loaded(p) # Absent => t \in seen /\ NotBehind(Loaded(p), redis[t])
    BY <1>1, RankNat DEF Loaded, RegressCore, NotBehind
  <1>6. CASE Accepts(p, e, s, ok)
    <2>1. ok => t \in seen' /\ NotBehind(s, redis[t])
      BY <1>1, <1>6 DEF Accepts, RegressCore, NotBehind
    <2>2. \A r \in Proc : Storing(r)' => cur[r].t \in seen' /\ NotBehind(root'[r], redis[cur[r].t])
      BY <1>3, <1>4, <2>1 DEF Storing, RegressCore
    <2>3. \A r \in Proc, u \in Transfer : cache'[r][u] # Absent =>
             Home(u) = r /\ u \in seen' /\ NotBehind(cache'[r][u], redis[u])
      BY <1>4, <1>6 DEF Accepts, RegressCore
    <2>4. \A r \in Proc : Busy(r)' => Home(cur[r].t) = r
      BY <1>1, <1>3, <1>4 DEF Busy, RegressCore
    <2> QED
      BY <1>1, <1>4, <2>2, <2>3, <2>4 DEF RegressCore, NotBehind, Home
  <1>7. CASE Answers(p, e, s, ok)
    <2>1. ok => s # Absent
      BY <1>7, MovesForward DEF Answers
    <2>2. s # Absent => t \in seen /\ NotBehind(s, redis[t])
      <3>1. CASE ok
        <4>1. Loaded(p) # Absent /\ Rank(Loaded(p)) <= Rank(s)
          BY <1>7, <3>1, MovesForward DEF Answers
        <4> QED
          BY <1>5, <4>1, RankNat DEF NotBehind
      <3>2. CASE s = Loaded(p)
        BY <1>5, <3>2
      <3>3. CASE Loaded(p) = "RESERVED" /\ s = "RECEIVED_ERROR"
        <4>1. Loaded(p) # Absent /\ Rank(Loaded(p)) <= Rank(s)
          BY <3>3, ConstantTypes DEF Rank, Status
        <4> QED
          BY <1>5, <4>1, RankNat DEF NotBehind
      <3> QED
        BY <1>7, <3>1, <3>2, <3>3 DEF Answers
    <2>3. \A r \in Proc : Storing(r)' => cur[r].t \in seen' /\ NotBehind(root'[r], redis[cur[r].t])
      BY <1>3, <1>4, <2>1, <2>2 DEF Storing, RegressCore
    <2>4. \A r \in Proc, u \in Transfer :
             cache'[r][u] = IF r = p /\ u = t THEN s ELSE cache[r][u]
      BY <1>1, <1>7 DEF Answers, TypeInv, TypeOK
    <2>5. \A r \in Proc, u \in Transfer : cache'[r][u] # Absent =>
             Home(u) = r /\ u \in seen' /\ NotBehind(cache'[r][u], redis[u])
      BY <1>4, <2>2, <2>4 DEF RegressCore
    <2>6. \A r \in Proc : Busy(r)' => Home(cur[r].t) = r
      BY <1>1, <1>3, <1>4 DEF Busy, RegressCore
    <2> QED
      BY <1>1, <1>4, <2>3, <2>5, <2>6 DEF RegressCore, NotBehind, Home
  <1> QED
    BY <1>2, <1>6, <1>7 DEF Rules

LEMMA RegressPublish ==
    ASSUME TypeInv, RegressCore, NEW p \in Proc,
           Publish(p) \/ PublishFails(p) \/ Republish(p) \/ RepublishFails(p)
    PROVE  RegressCore'
  <1>1. PICK D \in SUBSET {"domain", "state"}, step \in {"republish", "store", "commit"} :
             Publishes(p, D, step)
    BY PublishShape
  <1>2. /\ pc' = [pc EXCEPT ![p] = step] /\ pc[p] \in {"publish", "republish"}
        /\ UNCHANGED <<topic, owner, cur, root, seen, cache, redis>>
    BY <1>1 DEF Publishes, PublishTo, groupVars, repoVars
  <1>3. stateEvt' = stateEvt \/ stateEvt' = [stateEvt EXCEPT ![p] = FALSE]
    BY <1>1 DEF Publishes, Committed
  <1>4. \A r \in Proc : (Busy(r)' => Busy(r)) /\ (Storing(r)' => Storing(r))
    BY <1>1, <1>2, <1>3 DEF Publishes, Busy, Storing, TypeInv, TypeOK
  <1> QED
    BY <1>2, <1>4, RegressQuiet

LEMMA RegressStore ==
    ASSUME TypeInv, RegressCore, NEW p \in Proc, Store(p) \/ StoreFails(p)
    PROVE  /\ RegressCore'
           /\ \A t \in Transfer : redis[t] # Absent /\ redis'[t] # Absent =>
                  Rank(redis[t]) <= Rank(redis'[t])
  <1> DEFINE t == cur[p].t
  <1>1. /\ pc[p] = "store" /\ t \in Transfer
        /\ cache' = [cache EXCEPT ![p][t] = root[p]]
        /\ redis' = redis \/ redis' = [redis EXCEPT ![t] = root[p]]
        /\ pc' = [pc EXCEPT ![p] = "commit"]
        /\ UNCHANGED <<topic, owner, cur, root, stateEvt, seen>>
    BY StoreShape
  <1>2. Home(t) = p /\ t \in seen /\ NotBehind(root[p], redis[t])
    BY <1>1 DEF RegressCore, Storing, Busy
  <1>3. \A u \in Transfer : \/ redis'[u] = redis[u]
                            \/ u = t /\ redis'[u] = root[p]
    BY <1>1 DEF TypeInv, TypeOK
  <1>4. \A r \in Proc, u \in Transfer :
           cache'[r][u] = IF r = p /\ u = t THEN root[p] ELSE cache[r][u]
    BY <1>1 DEF TypeInv, TypeOK
  <1>5. NotBehind(root'[p], redis'[t])
    BY <1>1, <1>2, <1>3, RankNat DEF NotBehind
  <1>6. \A u \in Transfer : \A s : u # t /\ NotBehind(s, redis[u]) => NotBehind(s, redis'[u])
    BY <1>3 DEF NotBehind
  <1>7. ASSUME NEW r \in Proc, NEW u \in Transfer, cache'[r][u] # Absent
        PROVE  Home(u) = r /\ u \in seen /\ NotBehind(cache'[r][u], redis'[u])
    <2>1. CASE u = t
      <3>1. r = p
        BY <1>2, <1>4, <1>7, <2>1 DEF RegressCore
      <3>2. cache'[r][u] = root[p]
        BY <1>4, <2>1, <3>1
      <3> QED
        BY <1>1, <1>2, <1>5, <2>1, <3>1, <3>2 DEF NotBehind
    <2>2. CASE u # t
      <3>1. cache'[r][u] = cache[r][u]
        BY <1>4, <2>2
      <3>2. Home(u) = r /\ u \in seen /\ NotBehind(cache[r][u], redis[u])
        BY <1>7, <3>1 DEF RegressCore
      <3> QED
        BY <1>3, <2>2, <3>1, <3>2 DEF NotBehind
    <2> QED
      BY <2>1, <2>2
  <1>8. ASSUME NEW r \in Proc, Storing(r)'
        PROVE  cur[r].t \in seen /\ NotBehind(root'[r], redis'[cur[r].t])
    <2>1. Storing(r)
      BY <1>1, <1>8 DEF Storing, TypeInv, TypeOK
    <2>2. cur[r].t \in Transfer /\ Home(cur[r].t) = r
      BY <2>1, StoringBusy DEF RegressCore
    <2>3. CASE r = p
      BY <1>1, <1>2, <1>5, <2>3 DEF NotBehind
    <2>4. CASE r # p
      <3>1. cur[r].t # t
        BY <1>2, <2>2, <2>4
      <3>2. cur[r].t \in seen /\ NotBehind(root[r], redis[cur[r].t])
        BY <2>1 DEF RegressCore
      <3> QED
        BY <1>1, <1>3, <2>2, <3>1, <3>2 DEF NotBehind
    <2> QED
      BY <2>3, <2>4
  <1>9. \A r \in Proc : Busy(r)' => Home(cur[r].t) = r
    BY <1>1, <1>2 DEF Busy, RegressCore, TypeInv, TypeOK
  <1>10. \A u \in Transfer : redis'[u] # Absent => u \in seen
    BY <1>2, <1>3 DEF RegressCore
  <1>11. RegressCore'
    BY <1>1, <1>7, <1>8, <1>9, <1>10 DEF RegressCore, Home, NotBehind
  <1>12. \A u \in Transfer : redis[u] # Absent /\ redis'[u] # Absent =>
             Rank(redis[u]) <= Rank(redis'[u])
    BY <1>2, <1>3, RankNat DEF NotBehind
  <1> QED
    BY <1>11, <1>12

\* What a step does while no partition has moved.
StoreGoesOn == \A t \in Transfer :
    redis[t] # Absent /\ redis'[t] # Absent => Rank(redis[t]) <= Rank(redis'[t])

LEMMA Forgets ==
    ASSUME \A t \in Transfer : redis'[t] \in {redis[t], Absent}
    PROVE  StoreGoesOn
  BY RankNat DEF StoreGoesOn

LEMMA RegressStep ==
    ASSUME RegressInv, [Next]_vars, "rebalance" \notin failed'
    PROVE  RegressCore' /\ StoreGoesOn
  <1>1. TypeInv /\ RegressCore
    BY FailedKept DEF RegressInv
  <1> DEFINE Goal == RegressCore' /\ StoreGoesOn
  <1>2. ASSUME NEW c \in Command, Produce(c) PROVE Goal
    BY <1>1, <1>2, RegressProduce, Forgets DEF Produce, repoVars
  <1>3. ASSUME NEW p \in Proc, NEW q \in Partition, Fetch(p, q) PROVE Goal
    BY <1>1, <1>3, RegressFetch, Forgets DEF Fetch, repoVars
  <1>4. ASSUME NEW p \in Proc, Handle(p) PROVE Goal
    <2>1. redis' = redis
      BY <1>1, <1>4, HandleShape
    <2> QED
      BY <1>1, <1>4, <2>1, RegressHandle, Forgets
  <1>5. ASSUME NEW p \in Proc, Publish(p) \/ PublishFails(p) \/ Republish(p) \/ RepublishFails(p)
        PROVE  Goal
    <2>1. redis' = redis
      BY <1>5 DEF Publish, PublishFails, Republish, RepublishFails, PublishTo, repoVars
    <2> QED
      BY <1>1, <1>5, <2>1, RegressPublish, Forgets
  <1>6. ASSUME NEW p \in Proc, Store(p) \/ StoreFails(p) PROVE Goal
    BY <1>1, <1>6, RegressStore DEF StoreGoesOn
  <1>7. ASSUME NEW p \in Proc, RepositoryFails(p) PROVE Goal
    <2>1. UNCHANGED <<topic, owner, cur, root, stateEvt, cache, redis>> /\ seen \subseteq seen'
      BY <1>7 DEF RepositoryFails, groupVars
    <2>2. \A r \in Proc : (Busy(r)' => Busy(r)) /\ (Storing(r)' => Storing(r))
      BY <1>1, <1>7, <2>1 DEF RepositoryFails, Busy, Storing, TypeInv, TypeOK
    <2> QED
      BY <1>1, <2>1, <2>2, RegressQuiet, Forgets
  <1>8. ASSUME NEW p \in Proc, Ack(p) \/ AckFails(p) \/ Crash(p) PROVE Goal
    <2>1. PICK step \in {"idle", "halted"} : LetGo(p, step)
      BY <1>1, <1>8, LetGoShape
    <2>2. UNCHANGED <<topic, owner, seen, redis>>
      BY <1>1, <1>8, LetGoShape
    <2>3. \A r \in Proc : /\ r = p => ~Busy(r)' /\ ~Storing(r)'
                          /\ r # p => /\ cur'[r] = cur[r] /\ root'[r] = root[r]
                                      /\ (Busy(r)' => Busy(r)) /\ (Storing(r)' => Storing(r))
      BY <1>1, <2>1 DEF LetGo, Busy, Storing, TypeInv, TypeOK
    <2>4. \A r \in Proc, t \in Transfer : cache'[r][t] \in {cache[r][t], Absent}
      <3>1. cache \in [Proc -> [Transfer -> MaybeStatus]]
        BY <1>1 DEF TypeInv, TypeOK
      <3>2. \/ cache' = cache
            \/ cache' = [cache EXCEPT ![p] = [t \in Transfer |-> Absent]]
        BY <1>1, <1>8, LetGoShape
      <3> QED
        BY <3>1, <3>2
    <2> QED
      BY <1>1, <2>2, <2>3, <2>4, RegressQuiet, Forgets
  <1>9. ASSUME NEW p \in Proc, NEW t \in Transfer, CacheExpires(p, t) PROVE Goal
    <2>1. \A r \in Proc, u \in Transfer : cache'[r][u] \in {cache[r][u], Absent}
      BY <1>1, <1>9 DEF CacheExpires, TypeInv, TypeOK
    <2>2. UNCHANGED <<topic, owner, pc, cur, root, stateEvt, seen, redis>>
      BY <1>9 DEF CacheExpires, groupVars, handVars
    <2> QED
      BY <1>1, <2>1, <2>2, RegressQuiet, Forgets DEF Busy, Storing
  <1>10. ASSUME NEW t \in Transfer, RedisExpires(t) PROVE Goal
    <2>1. \A u \in Transfer : redis'[u] \in {redis[u], Absent}
      BY <1>1, <1>10 DEF RedisExpires, TypeInv, TypeOK
    <2>2. UNCHANGED <<topic, owner, pc, cur, root, stateEvt, seen, cache>>
      BY <1>10 DEF RedisExpires, groupVars, handVars
    <2> QED
      BY <1>1, <2>1, <2>2, RegressQuiet, Forgets DEF Busy, Storing
  <1>11. ASSUME NEW p \in Proc, NEW q \in Partition, Rebalance(q, p) PROVE FALSE
    BY <1>11 DEF Rebalance, Failure
  <1>12. CASE UNCHANGED vars
    BY <1>1, <1>12, RegressQuiet, Forgets DEF vars, Busy, Storing
  <1> QED
    BY <1>2, <1>3, <1>4, <1>5, <1>6, <1>7, <1>8, <1>9, <1>10, <1>11, <1>12
       DEF Next, Work, Fail

LEMMA InitRegressInv == Init => RegressInv
  <1> SUFFICES ASSUME Init PROVE RegressInv
    OBVIOUS
  <1>1. TypeInv
    BY InitTypeInv
  <1>2. RegressCore
    BY DEF Init, RegressCore, Busy, Storing
  <1> QED
    BY <1>1, <1>2 DEF RegressInv

\* As long as no partition changes hands, no store takes a transfer back: the
\* cachedpersistedredis repository never overwrites redis with an older status.
THEOREM NeverTakenBack == Spec => StoredNeverRegresses
  <1>1. RegressInv /\ [Next]_vars => RegressInv'
    BY TypeStep, RegressStep DEF RegressInv
  <1>2. Spec => []RegressInv
    BY <1>1, InitRegressInv, PTL DEF Spec
  <1>3. RegressInv /\ [Next]_vars =>
          [ "rebalance" \notin failed' =>
              \A t \in Transfer :
                redis[t] # Absent /\ redis'[t] # Absent => Rank(redis[t]) <= Rank(redis'[t])
          ]_vars
    BY RegressStep DEF StoreGoesOn
  <1> QED
    BY <1>2, <1>3, PTL DEF Spec, StoredNeverRegresses

--------------------------------------------------------------------------------
(* The lifecycle is implemented *)

\* The failures that leave a transfer where the event stream says it is: not a
\* crash, a partition that moves, or a lost publication or store.
Harmless == {"add", "read", "commit", "expiry"}

At(p, step, t) == pc[p] = step /\ cur[p].t = t

\* What a cache and redis know of a transfer is its last announced status, apart
\* from a refused fulfilment, which only the cache remembers, and from the
\* command in hand, which moves the cache, the event stream and redis in turn.
LifecycleCore ==
    /\ \A t \in Transfer : t \notin seen => stateLog[t] = <<>>
    /\ \A p \in Proc : pc[p] # "republish"
    /\ \A p \in Proc : pc[p] = "publish" /\ ~stateEvt[p] => evt[p] \notin StepEvent
    /\ \A p \in Proc, t \in Transfer : At(p, "publish", t) /\ stateEvt[p] =>
           /\ LastStatus(t) # "COMMITTED"
           /\ root[p] = Lifecycle!Successor(LastStatus(t))
           /\ cache[p][t] \in {Absent, root[p]}
    /\ \A p \in Proc, t \in Transfer : At(p, "store", t) => root[p] = LastStatus(t)
    /\ \A p \in Proc, t \in Transfer : cache[p][t] # Absent =>
           \/ cache[p][t] = LastStatus(t)
           \/ cache[p][t] = "RECEIVED_ERROR" /\ LastStatus(t) = "RESERVED"
           \/ At(p, "publish", t) /\ stateEvt[p]
    /\ \A t \in Transfer : redis[t] # Absent =>
           redis[t] = LastStatus(t) \/ \E p \in Proc : At(p, "store", t)

LifecycleInv ==
    /\ RegressInv
    /\ failed \subseteq FaultKinds
    /\ LifecycleCore

LEMMA FailedAllowed ==
    ASSUME failed \subseteq FaultKinds, [Next]_vars
    PROVE  failed' \subseteq FaultKinds
  BY DEF Next, Produce, Work, Fetch, Handle, HandlePrepare, RefuseUnknown, RefuseStatus,
         HandleAckReserved, HandleFulfil, HandleAckCommitted, Decide, Publish, Republish,
         Store, Ack, Fail, RepositoryFails, PublishFails, RepublishFails, StoreFails,
         AckFails, CacheExpires, Crash, Rebalance, RedisExpires, Failure, faultVars, vars

LEMMA Successors ==
    /\ Lifecycle!Successor(Absent) = "RECEIVED_PREPARE"
    /\ Lifecycle!Successor("RECEIVED_PREPARE") = "RESERVED"
    /\ Lifecycle!Successor("RESERVED") = "RECEIVED_FULFIL"
    /\ Lifecycle!Successor("RECEIVED_FULFIL") = "COMMITTED"
  BY ConstantTypes DEF Lifecycle!Successor, Status

\* Steps that only take a command, let it go or forget.
LEMMA LifecycleQuiet ==
    ASSUME LifecycleCore, stateLog' = stateLog, seen \subseteq seen',
           \A t \in Transfer : redis'[t] \in {redis[t], Absent},
           \A p \in Proc, t \in Transfer : cache'[p][t] \in {cache[p][t], Absent},
           \A p \in Proc :
               \/ /\ pc'[p] = pc[p] /\ cur'[p] = cur[p] /\ root'[p] = root[p]
                  /\ evt'[p] = evt[p] /\ stateEvt'[p] = stateEvt[p]
               \/ pc[p] \notin {"publish", "store"} /\ pc'[p] \notin {"publish", "republish", "store"}
    PROVE  LifecycleCore'
  <1>1. \A t \in Transfer : LastStatus(t)' = LastStatus(t)
    BY DEF LastStatus
  <1>2. \A p \in Proc, t \in Transfer :
            /\ At(p, "publish", t)' => /\ At(p, "publish", t) /\ root'[p] = root[p]
                                       /\ stateEvt'[p] = stateEvt[p]
            /\ At(p, "publish", t) => At(p, "publish", t)' /\ stateEvt'[p] = stateEvt[p]
            /\ At(p, "store", t)' => At(p, "store", t) /\ root'[p] = root[p]
            /\ At(p, "store", t) => At(p, "store", t)'
    BY DEF At
  <1>3. \A t \in Transfer : t \notin seen' => stateLog'[t] = <<>>
    BY DEF LifecycleCore
  <1>4. \A p \in Proc : /\ pc'[p] # "republish"
                        /\ pc'[p] = "publish" /\ ~stateEvt'[p] => evt'[p] \notin StepEvent
    BY DEF LifecycleCore
  <1>5. \A p \in Proc, t \in Transfer : At(p, "publish", t)' /\ stateEvt'[p] =>
            /\ LastStatus(t)' # "COMMITTED"
            /\ root'[p] = Lifecycle!Successor(LastStatus(t))
            /\ cache'[p][t] \in {Absent, root'[p]}
    BY <1>1, <1>2 DEF LifecycleCore
  <1>6. \A p \in Proc, t \in Transfer : At(p, "store", t)' => root'[p] = LastStatus(t)'
    BY <1>1, <1>2 DEF LifecycleCore
  <1>7. \A p \in Proc, t \in Transfer : cache'[p][t] # Absent =>
            \/ cache'[p][t] = LastStatus(t)'
            \/ cache'[p][t] = "RECEIVED_ERROR" /\ LastStatus(t)' = "RESERVED"
            \/ At(p, "publish", t)' /\ stateEvt'[p]
    BY <1>1, <1>2 DEF LifecycleCore
  <1>8. \A t \in Transfer : redis'[t] # Absent =>
            redis'[t] = LastStatus(t)' \/ \E p \in Proc : At(p, "store", t)'
    BY <1>1, <1>2 DEF LifecycleCore
  <1>9. \A t \in Transfer : (Lifecycle!Successor(LastStatus(t)))' = Lifecycle!Successor(LastStatus(t))
    BY <1>1 DEF Lifecycle!Successor
  <1> QED
    BY <1>3, <1>4, <1>5, <1>6, <1>7, <1>8, <1>9 DEF LifecycleCore

\* A ruling is the step the lifecycle takes next, or none.
LEMMA LifecycleHandle ==
    ASSUME TypeInv, RegressCore, LifecycleCore, NEW p \in Proc, Handle(p)
    PROVE  LifecycleCore'
  <1> DEFINE t == cur[p].t
  <1>1. /\ pc[p] = "handle" /\ cur[p].t \in Transfer /\ Home(cur[p].t) = p
        /\ pc' = [pc EXCEPT ![p] = "publish"]
        /\ UNCHANGED <<cur, redis, stateLog, domainLog>>
    BY HandleShape DEF RegressCore, Busy
  <1>2. PICK e, s, ok : Rules(p, e, s, ok)
    BY HandleShape
  <1>3. \A r \in Proc :
           /\ r = p => /\ root'[r] = s /\ stateEvt'[r] = ok /\ evt'[r] = e /\ pc'[r] = "publish"
           /\ r # p => /\ root'[r] = root[r] /\ stateEvt'[r] = stateEvt[r]
                       /\ evt'[r] = evt[r] /\ pc'[r] = pc[r]
    BY <1>1, <1>2 DEF Rules, TypeInv, TypeOK
  <1>4. \A u \in Transfer : LastStatus(u)' = LastStatus(u)
    BY <1>1 DEF LastStatus
  <1>5. \A r \in Proc, u \in Transfer, step \in {"publish", "store"} :
            /\ r # p => (At(r, step, u)' <=> At(r, step, u))
            /\ r = p => (At(r, step, u)' <=> step = "publish" /\ u = cur[p].t) /\ ~At(r, step, u)
    BY <1>1, <1>3 DEF At
  <1>6. \A r \in Proc, u \in Transfer, step \in {"publish", "store"} :
            At(r, step, u) => Home(u) = r
    BY DEF RegressCore, Busy, At
  <1>7. \A u \in Transfer : (Lifecycle!Successor(LastStatus(u)))' = Lifecycle!Successor(LastStatus(u))
    BY <1>4 DEF Lifecycle!Successor
  <1>8. ~ok => e \notin StepEvent
    BY <1>2 DEF Rules, Accepts, Answers, StepEvent
  <1>9. /\ seen \subseteq seen'
        /\ \A r \in Proc, u \in Transfer : r # p \/ u # cur[p].t => cache'[r][u] = cache[r][u]
    BY <1>1, <1>2 DEF Rules, Accepts, Answers, TypeInv, TypeOK
  <1>10. Loaded(p) # Absent => \/ Loaded(p) = LastStatus(cur[p].t)
                               \/ Loaded(p) = "RECEIVED_ERROR" /\ LastStatus(cur[p].t) = "RESERVED"
    <2>1. \A r \in Proc : ~At(r, "store", cur[p].t)
      BY <1>1, <1>5, <1>6
    <2>2. ~At(p, "publish", cur[p].t)
      BY <1>1 DEF At
    <2> QED
      BY <1>1, <2>1, <2>2 DEF Loaded, LifecycleCore
  <1>11. ok => /\ LastStatus(cur[p].t) # "COMMITTED"
               /\ s = Lifecycle!Successor(LastStatus(cur[p].t))
               /\ cache'[p][cur[p].t] \in {Absent, s}
    <2> SUFFICES ASSUME ok
                 PROVE  /\ LastStatus(cur[p].t) # "COMMITTED"
                        /\ s = Lifecycle!Successor(LastStatus(cur[p].t))
                        /\ cache'[p][cur[p].t] \in {Absent, s}
      OBVIOUS
    <2>1. CASE Accepts(p, e, s, ok)
      <3>1. cur[p].t \notin seen /\ s = "RECEIVED_PREPARE" /\ cache' = cache
        BY <2>1 DEF Accepts
      <3>2. LastStatus(cur[p].t) = Absent
        BY <1>1, <3>1 DEF LifecycleCore, LastStatus
      <3>3. cache[p][cur[p].t] = Absent
        BY <1>1, <3>1 DEF RegressCore
      <3> QED
        BY <3>1, <3>2, <3>3, Successors, ConstantTypes DEF Status
    <2>2. CASE Answers(p, e, s, ok)
      <3>1. <<e, Loaded(p), s>> \in Moves
        BY <2>2 DEF Answers
      <3>2. Loaded(p) # Absent /\ Loaded(p) # "RECEIVED_ERROR"
        BY <3>1, ConstantTypes DEF Moves, Status
      <3>3. Loaded(p) = LastStatus(cur[p].t)
        BY <1>10, <3>2
      <3>4. Loaded(p) # "COMMITTED" /\ s = Lifecycle!Successor(Loaded(p))
        BY <3>1, Successors DEF Moves
      <3>5. cache'[p][cur[p].t] = s
        BY <1>1, <2>2 DEF Answers, TypeInv, TypeOK
      <3> QED
        BY <3>3, <3>4, <3>5
    <2> QED
      BY <1>2, <2>1, <2>2 DEF Rules
  <1>12. ~ok /\ cache'[p][cur[p].t] # Absent =>
            \/ cache'[p][cur[p].t] = LastStatus(cur[p].t)
            \/ cache'[p][cur[p].t] = "RECEIVED_ERROR" /\ LastStatus(cur[p].t) = "RESERVED"
    <2> SUFFICES ASSUME ~ok, cache'[p][cur[p].t] # Absent
                 PROVE  \/ cache'[p][cur[p].t] = LastStatus(cur[p].t)
                        \/ cache'[p][cur[p].t] = "RECEIVED_ERROR" /\ LastStatus(cur[p].t) = "RESERVED"
      OBVIOUS
    <2>1. CASE Accepts(p, e, s, ok)
      <3>1. cache' = cache /\ ~At(p, "publish", cur[p].t)
        BY <1>1, <2>1 DEF Accepts, At
      <3> QED
        BY <1>1, <3>1 DEF LifecycleCore
    <2>2. CASE Answers(p, e, s, ok)
      <3>1. cache'[p][cur[p].t] = s
        BY <1>1, <2>2 DEF Answers, TypeInv, TypeOK
      <3>2. s = Loaded(p) \/ (Loaded(p) = "RESERVED" /\ s = "RECEIVED_ERROR")
        BY <2>2 DEF Answers
      <3>3. "RESERVED" # Absent
        BY ConstantTypes DEF Status
      <3> QED
        BY <1>10, <3>1, <3>2, <3>3
    <2> QED
      BY <1>2, <2>1, <2>2 DEF Rules
  <1>13. \A r \in Proc, u \in Transfer : At(r, "publish", u)' /\ stateEvt'[r] =>
            /\ LastStatus(u)' # "COMMITTED"
            /\ root'[r] = Lifecycle!Successor(LastStatus(u))
            /\ cache'[r][u] \in {Absent, root'[r]}
    <2> SUFFICES ASSUME NEW r \in Proc, NEW u \in Transfer, At(r, "publish", u)', stateEvt'[r]
                 PROVE  /\ LastStatus(u)' # "COMMITTED"
                        /\ root'[r] = Lifecycle!Successor(LastStatus(u))
                        /\ cache'[r][u] \in {Absent, root'[r]}
      OBVIOUS
    <2>1. CASE r = p
      <3>1. u = cur[p].t /\ ok /\ root'[r] = s
        BY <1>3, <1>5, <2>1
      <3> QED
        BY <1>4, <1>11, <2>1, <3>1
    <2>2. CASE r # p
      <3>1. At(r, "publish", u) /\ stateEvt[r] /\ root'[r] = root[r] /\ cache'[r][u] = cache[r][u]
        BY <1>3, <1>5, <1>9, <2>2
      <3> QED
        BY <1>4, <3>1 DEF LifecycleCore
    <2> QED
      BY <2>1, <2>2
  <1>14. \A r \in Proc, u \in Transfer : At(r, "store", u)' => root'[r] = LastStatus(u)'
    <2> SUFFICES ASSUME NEW r \in Proc, NEW u \in Transfer, At(r, "store", u)'
                 PROVE  root'[r] = LastStatus(u)'
      OBVIOUS
    <2>1. r # p /\ At(r, "store", u)
      BY <1>5
    <2> QED
      BY <1>3, <1>4, <2>1 DEF LifecycleCore
  <1>15. \A r \in Proc, u \in Transfer : cache'[r][u] # Absent =>
            \/ cache'[r][u] = LastStatus(u)'
            \/ cache'[r][u] = "RECEIVED_ERROR" /\ LastStatus(u)' = "RESERVED"
            \/ At(r, "publish", u)' /\ stateEvt'[r]
    <2> SUFFICES ASSUME NEW r \in Proc, NEW u \in Transfer, cache'[r][u] # Absent
                 PROVE  \/ cache'[r][u] = LastStatus(u)
                        \/ cache'[r][u] = "RECEIVED_ERROR" /\ LastStatus(u) = "RESERVED"
                        \/ At(r, "publish", u)' /\ stateEvt'[r]
      BY <1>4
    <2>1. CASE r = p /\ u = cur[p].t
      <3>1. At(r, "publish", u)'
        BY <1>5, <2>1
      <3>2. stateEvt'[r] <=> ok
        BY <1>3, <2>1
      <3> QED
        BY <1>12, <2>1, <3>1, <3>2
    <2>2. CASE ~(r = p /\ u = cur[p].t)
      <3>1. cache'[r][u] = cache[r][u]
        BY <1>9, <2>2
      <3>2. At(r, "publish", u) /\ stateEvt[r] => At(r, "publish", u)' /\ stateEvt'[r]
        BY <1>3, <1>5
      <3> QED
        BY <3>1, <3>2 DEF LifecycleCore
    <2> QED
      BY <2>1, <2>2
  <1>16. \A u \in Transfer : redis'[u] # Absent =>
            redis'[u] = LastStatus(u)' \/ \E r \in Proc : At(r, "store", u)'
    <2>1. \A r \in Proc, u \in Transfer : At(r, "store", u) => At(r, "store", u)'
      BY <1>5
    <2> QED
      BY <1>1, <1>4, <2>1 DEF LifecycleCore
  <1>17. \A r \in Proc : /\ pc'[r] # "republish"
                         /\ pc'[r] = "publish" /\ ~stateEvt'[r] => evt'[r] \notin StepEvent
    BY <1>3, <1>8 DEF LifecycleCore
  <1>18. \A u \in Transfer : u \notin seen' => stateLog'[u] = <<>>
    BY <1>1, <1>9 DEF LifecycleCore
  <1> QED
    BY <1>7, <1>13, <1>14, <1>15, <1>16, <1>17, <1>18 DEF LifecycleCore

\* A publication that succeeds is a step of the lifecycle when the command did,
\* and no step otherwise.
LEMMA LifecyclePublish ==
    ASSUME TypeInv, RegressCore, LifecycleCore, NEW p \in Proc, Publish(p)
    PROVE  LifecycleCore' /\ [Lifecycle!Next]_(Lifecycle!vars)
  <1> DEFINE step == IF stateEvt[p] THEN "store" ELSE "commit"
  <1>1. /\ pc[p] = "publish" /\ cur[p].t \in Transfer /\ evt[p] \in EventName
        /\ Home(cur[p].t) = p
    BY PublishShape DEF Publish, RegressCore, Busy
  <1>2. Publishes(p, {"domain", "state"}, step)
    BY DEF Publish, Publishes
  <1>3. /\ domainLog' \in [Transfer -> [EventName -> Nat]]
        /\ stateLog' \in [Transfer -> Seq(Status)]
        /\ \A u \in Transfer, n \in EventName :
              domainLog'[u][n] = IF u = cur[p].t /\ n = evt[p]
                                 THEN domainLog[u][n] + 1 ELSE domainLog[u][n]
        /\ \A u \in Transfer :
              stateLog'[u] = IF u = cur[p].t /\ stateEvt[p]
                             THEN Append(stateLog[u], root[p]) ELSE stateLog[u]
    BY <1>1, <1>2, DeliverEffect
  <1>4. \A r \in Proc :
           /\ r = p => pc'[r] = step /\ evt'[r] = "none" /\ stateEvt'[r] = FALSE
           /\ r # p => pc'[r] = pc[r] /\ evt'[r] = evt[r] /\ stateEvt'[r] = stateEvt[r]
    BY DEF Publish, PublishTo, Committed, TypeInv, TypeOK
  <1>5. UNCHANGED <<cur, root, seen, cache, redis>>
    BY DEF Publish, PublishTo, repoVars
  <1>6. \A u \in Transfer :
           LastStatus(u)' = IF u = cur[p].t /\ stateEvt[p] THEN root[p] ELSE LastStatus(u)
    <2> SUFFICES ASSUME NEW u \in Transfer
                 PROVE  LastStatus(u)' = IF u = cur[p].t /\ stateEvt[p] THEN root[p] ELSE LastStatus(u)
      OBVIOUS
    <2>1. stateLog[u] \in Seq(Status) /\ (stateEvt[p] => root[p] \in Status)
      BY DEF TypeInv, TypeOK
    <2> QED
      BY <1>3, <2>1 DEF LastStatus
  <1>7. stateEvt[p] => /\ LastStatus(cur[p].t) # "COMMITTED"
                       /\ root[p] = Lifecycle!Successor(LastStatus(cur[p].t))
                       /\ cache[p][cur[p].t] \in {Absent, root[p]}
    BY <1>1 DEF LifecycleCore, At
  <1>8. \A r \in Proc, u \in Transfer, at \in {"publish", "store"} :
            /\ r # p => (At(r, at, u)' <=> At(r, at, u))
            /\ r = p => (At(r, at, u)' <=> at = "store" /\ stateEvt[p] /\ u = cur[p].t)
            /\ r = p => (At(r, at, u) <=> at = "publish" /\ u = cur[p].t)
    BY <1>1, <1>4, <1>5 DEF At
  <1>9. \A r \in Proc, u \in Transfer, at \in {"publish", "store"} :
            At(r, at, u) => Home(u) = r
    BY DEF RegressCore, Busy, At
  <1>10. \A r \in Proc, u \in Transfer : cache[r][u] # Absent => Home(u) = r
    BY DEF RegressCore
  <1>11. \A u \in Transfer : u # cur[p].t \/ ~stateEvt[p] =>
             (Lifecycle!Successor(LastStatus(u)))' = Lifecycle!Successor(LastStatus(u))
    BY <1>6 DEF Lifecycle!Successor
  <1>12. \A u \in Transfer : u \notin seen' => stateLog'[u] = <<>>
    <2>1. stateEvt[p] => cur[p].t \in seen
      BY DEF RegressCore, Storing
    <2> QED
      BY <1>3, <1>5, <2>1 DEF LifecycleCore
  <1>13. \A r \in Proc : /\ pc'[r] # "republish"
                         /\ pc'[r] = "publish" /\ ~stateEvt'[r] => evt'[r] \notin StepEvent
    BY <1>4 DEF LifecycleCore
  <1>14. ASSUME NEW r \in Proc, NEW u \in Transfer, At(r, "publish", u)', stateEvt'[r]
         PROVE  /\ LastStatus(u)' # "COMMITTED"
                /\ root'[r] = (Lifecycle!Successor(LastStatus(u)))'
                /\ cache'[r][u] \in {Absent, root'[r]}
    <2>1. r # p /\ At(r, "publish", u) /\ stateEvt[r]
      BY <1>4, <1>8, <1>14
    <2>2. u # cur[p].t
      BY <1>1, <1>9, <2>1
    <2> QED
      BY <1>5, <1>6, <1>11, <2>1, <2>2 DEF LifecycleCore
  <1>15. ASSUME NEW r \in Proc, NEW u \in Transfer, At(r, "store", u)'
         PROVE  root'[r] = LastStatus(u)'
    <2>1. CASE r = p
      BY <1>5, <1>6, <1>8, <1>15, <2>1
    <2>2. CASE r # p
      <3>1. At(r, "store", u)
        BY <1>8, <1>15, <2>2
      <3>2. u # cur[p].t
        BY <1>1, <1>9, <2>2, <3>1
      <3> QED
        BY <1>5, <1>6, <3>1, <3>2 DEF LifecycleCore
    <2> QED
      BY <2>1, <2>2
  <1>16. ASSUME NEW r \in Proc, NEW u \in Transfer, cache'[r][u] # Absent
         PROVE  \/ cache'[r][u] = LastStatus(u)'
                \/ cache'[r][u] = "RECEIVED_ERROR" /\ LastStatus(u)' = "RESERVED"
                \/ At(r, "publish", u)' /\ stateEvt'[r]
    <2>1. cache[r][u] # Absent /\ cache'[r][u] = cache[r][u] /\ Home(u) = r
      BY <1>5, <1>10, <1>16
    <2>2. CASE u = cur[p].t /\ stateEvt[p]
      BY <1>1, <1>6, <1>7, <2>1, <2>2
    <2>3. CASE ~(u = cur[p].t /\ stateEvt[p])
      <3>1. At(r, "publish", u) /\ stateEvt[r] => At(r, "publish", u)' /\ stateEvt'[r]
        BY <1>4, <1>8, <2>3
      <3> QED
        BY <1>6, <2>1, <2>3, <3>1 DEF LifecycleCore
    <2> QED
      BY <2>2, <2>3
  <1>17. ASSUME NEW u \in Transfer, redis'[u] # Absent
         PROVE  redis'[u] = LastStatus(u)' \/ \E r \in Proc : At(r, "store", u)'
    <2>1. CASE u = cur[p].t /\ stateEvt[p]
      BY <1>8, <2>1
    <2>2. CASE ~(u = cur[p].t /\ stateEvt[p])
      <3>1. \A r \in Proc : At(r, "store", u) => At(r, "store", u)'
        BY <1>8
      <3> QED
        BY <1>5, <1>6, <1>17, <2>2, <3>1 DEF LifecycleCore
    <2> QED
      BY <2>1, <2>2
  <1>18. LifecycleCore'
    BY <1>12, <1>13, <1>14, <1>15, <1>16, <1>17 DEF LifecycleCore
  <1>19. CASE stateEvt[p]
    <2>1. \A u \in Transfer :
             Announcements(u)' = IF u = cur[p].t THEN Announcements(u) + 1 ELSE Announcements(u)
      <3> SUFFICES ASSUME NEW u \in Transfer
                   PROVE  Announcements(u)' = IF u = cur[p].t THEN Announcements(u) + 1
                                                              ELSE Announcements(u)
        OBVIOUS
      <3>1. evt[p] \in StepEvent
        BY <1>19 DEF TypeInv, ControlOK
      <3>2. domainLog[u] \in [EventName -> Nat]
        BY DEF TypeInv, TypeOK
      <3>3. \A n \in StepEvent : n \in EventName /\ domainLog[u][n] \in Nat
        BY <3>2 DEF EventName
      <3>4. \A n \in StepEvent :
               domainLog'[u][n] = IF u = cur[p].t /\ n = evt[p]
                                  THEN domainLog[u][n] + 1 ELSE domainLog[u][n]
        BY <1>3, <3>3
      <3> QED
        BY <3>1, <3>3, <3>4 DEF Announcements, StepEvent
    <2>2. PICK t \in Transfer : t = cur[p].t
      BY <1>1
    <2>3. Lifecycle!Advance(t)
      BY <1>6, <1>7, <1>19, <2>1, <2>2 DEF Lifecycle!Advance
    <2>4. Lifecycle!Next
      BY <2>3 DEF Lifecycle!Next
    <2> QED
      BY <1>18, <2>4
  <1>20. CASE ~stateEvt[p]
    <2>1. \A u \in Transfer : Announcements(u)' = Announcements(u)
      <3>1. evt[p] \notin StepEvent
        BY <1>1, <1>20 DEF LifecycleCore
      <3> QED
        BY <1>3, <3>1 DEF Announcements, StepEvent, EventName
    <2>2. \A u \in Transfer : LastStatus(u)' = LastStatus(u)
      BY <1>6, <1>20
    <2>3. UNCHANGED Lifecycle!vars
      BY <2>1, <2>2 DEF Lifecycle!vars, LastStatus
    <2> QED
      BY <1>18, <2>3
  <1> QED
    BY <1>19, <1>20

LEMMA LifecycleStore ==
    ASSUME TypeInv, RegressCore, LifecycleCore, NEW p \in Proc, Store(p)
    PROVE  LifecycleCore'
  <1>1. /\ pc[p] = "store" /\ cur[p].t \in Transfer /\ Home(cur[p].t) = p
        /\ root[p] = LastStatus(cur[p].t)
    BY StoreShape DEF RegressCore, Busy, LifecycleCore, At
  <1>2. UNCHANGED <<cur, root, evt, stateEvt, seen, stateLog>>
    BY StoreShape
  <1>3. \A r \in Proc : pc'[r] = IF r = p THEN "commit" ELSE pc[r]
    BY StoreShape DEF TypeInv, TypeOK
  <1>4. \A r \in Proc, u \in Transfer :
           cache'[r][u] = IF r = p /\ u = cur[p].t THEN root[p] ELSE cache[r][u]
    BY <1>1, StoreShape DEF TypeInv, TypeOK
  <1>5. \A u \in Transfer : redis'[u] = IF u = cur[p].t THEN root[p] ELSE redis[u]
    BY <1>1 DEF Store, Stored, TypeInv, TypeOK
  <1>6. \A u \in Transfer : LastStatus(u)' = LastStatus(u)
    BY <1>2 DEF LastStatus
  <1>7. \A u \in Transfer : (Lifecycle!Successor(LastStatus(u)))' = Lifecycle!Successor(LastStatus(u))
    BY <1>6 DEF Lifecycle!Successor
  <1>8. \A r \in Proc, u \in Transfer, at \in {"publish", "store"} :
            /\ At(r, at, u) => Home(u) = r
            /\ At(r, at, u)' <=> r # p /\ At(r, at, u)
    BY <1>2, <1>3 DEF RegressCore, Busy, At
  <1>9. \A r \in Proc : /\ pc'[r] # "republish"
                        /\ pc'[r] = "publish" /\ ~stateEvt'[r] => evt'[r] \notin StepEvent
    BY <1>2, <1>3 DEF LifecycleCore
  <1>10. ASSUME NEW r \in Proc, NEW u \in Transfer, At(r, "publish", u)', stateEvt'[r]
         PROVE  /\ LastStatus(u)' # "COMMITTED"
                /\ root'[r] = (Lifecycle!Successor(LastStatus(u)))'
                /\ cache'[r][u] \in {Absent, root'[r]}
    <2>1. r # p /\ At(r, "publish", u) /\ stateEvt[r] /\ cache'[r][u] = cache[r][u]
      BY <1>2, <1>4, <1>8, <1>10
    <2> QED
      BY <1>2, <1>6, <1>7, <2>1 DEF LifecycleCore
  <1>11. ASSUME NEW r \in Proc, NEW u \in Transfer, At(r, "store", u)'
         PROVE  root'[r] = LastStatus(u)'
    BY <1>2, <1>6, <1>8, <1>11 DEF LifecycleCore
  <1>12. ASSUME NEW r \in Proc, NEW u \in Transfer, cache'[r][u] # Absent
         PROVE  \/ cache'[r][u] = LastStatus(u)'
                \/ cache'[r][u] = "RECEIVED_ERROR" /\ LastStatus(u)' = "RESERVED"
                \/ At(r, "publish", u)' /\ stateEvt'[r]
    <2>1. CASE r = p /\ u = cur[p].t
      BY <1>1, <1>4, <1>6, <2>1
    <2>2. CASE ~(r = p /\ u = cur[p].t)
      <3>1. cache'[r][u] = cache[r][u]
        BY <1>4, <2>2
      <3>2. At(r, "publish", u) => At(r, "publish", u)'
        BY <1>1, <1>8 DEF At
      <3> QED
        BY <1>2, <1>6, <1>12, <3>1, <3>2 DEF LifecycleCore
    <2> QED
      BY <2>1, <2>2
  <1>13. ASSUME NEW u \in Transfer, redis'[u] # Absent
         PROVE  redis'[u] = LastStatus(u)' \/ \E r \in Proc : At(r, "store", u)'
    <2>1. CASE u = cur[p].t
      BY <1>1, <1>5, <1>6, <2>1
    <2>2. CASE u # cur[p].t
      <3>1. \A r \in Proc : At(r, "store", u) => At(r, "store", u)'
        BY <1>8, <2>2 DEF At
      <3> QED
        BY <1>5, <1>6, <1>13, <2>2, <3>1 DEF LifecycleCore
    <2> QED
      BY <2>1, <2>2
  <1>14. \A u \in Transfer : u \notin seen' => stateLog'[u] = <<>>
    BY <1>2 DEF LifecycleCore
  <1> QED
    BY <1>9, <1>10, <1>11, <1>12, <1>13, <1>14 DEF LifecycleCore

LEMMA LogsStand ==
    ASSUME UNCHANGED <<stateLog, domainLog>>
    PROVE  UNCHANGED Lifecycle!vars
  BY DEF Lifecycle!vars, LastStatus, Announcements

LEMMA LifecycleStep ==
    ASSUME FaultKinds \subseteq Harmless, LifecycleInv, [Next]_vars
    PROVE  LifecycleInv' /\ [Lifecycle!Next]_(Lifecycle!vars)
  <1>1. TypeInv /\ RegressCore /\ LifecycleCore /\ failed \subseteq FaultKinds
    BY DEF LifecycleInv, RegressInv, Harmless
  <1>2. failed' \subseteq FaultKinds
    BY <1>1, FailedAllowed
  <1>3. RegressInv'
    BY <1>2, TypeStep, RegressStep DEF LifecycleInv, RegressInv, Harmless
  <1>4. ~Failure("crash") /\ ~Failure("rebalance") /\ ~Failure("publish") /\ ~Failure("store")
    BY DEF Failure, Harmless
  <1> DEFINE Goal == LifecycleCore' /\ [Lifecycle!Next]_(Lifecycle!vars)
  <1>5. ASSUME NEW c \in Command, Produce(c) PROVE Goal
    <2>1. UNCHANGED <<pc, cur, root, evt, stateEvt, seen, cache, redis, stateLog, domainLog>>
      BY <1>5 DEF Produce, handVars, repoVars, logVars
    <2> QED
      BY <1>1, <2>1, LifecycleQuiet, LogsStand
  <1>6. ASSUME NEW p \in Proc, NEW q \in Partition, Fetch(p, q) PROVE Goal
    <2>1. UNCHANGED <<root, evt, stateEvt, seen, cache, redis, stateLog, domainLog>>
      BY <1>6 DEF Fetch, repoVars, logVars
    <2>2. \A r \in Proc : /\ r # p => pc'[r] = pc[r] /\ cur'[r] = cur[r]
                          /\ r = p => pc[r] = "idle" /\ pc'[r] = "handle"
      BY <1>1, <1>6 DEF Fetch, TypeInv, TypeOK
    <2> QED
      BY <1>1, <2>1, <2>2, LifecycleQuiet, LogsStand
  <1>7. ASSUME NEW p \in Proc, Handle(p) PROVE Goal
    <2>1. UNCHANGED <<stateLog, domainLog>>
      BY <1>1, <1>7, HandleShape
    <2> QED
      BY <1>1, <1>7, <2>1, LifecycleHandle, LogsStand
  <1>8. ASSUME NEW p \in Proc, Publish(p) PROVE Goal
    BY <1>1, <1>8, LifecyclePublish
  <1>9. ASSUME NEW p \in Proc, Republish(p) PROVE FALSE
    BY <1>1, <1>9 DEF Republish, LifecycleCore
  <1>10. ASSUME NEW p \in Proc, Store(p) PROVE Goal
    <2>1. UNCHANGED <<stateLog, domainLog>>
      BY <1>1, <1>10, StoreShape
    <2> QED
      BY <1>1, <1>10, <2>1, LifecycleStore, LogsStand
  <1>11. ASSUME NEW p \in Proc, RepositoryFails(p) PROVE Goal
    <2>1. /\ UNCHANGED <<cur, root, evt, stateEvt, cache, redis, stateLog, domainLog>>
          /\ seen \subseteq seen'
      BY <1>11 DEF RepositoryFails, logVars
    <2>2. \A r \in Proc : /\ r # p => pc'[r] = pc[r]
                          /\ r = p => pc[r] = "handle" /\ pc'[r] = "commit"
      BY <1>1, <1>11 DEF RepositoryFails, TypeInv, TypeOK
    <2> QED
      BY <1>1, <2>1, <2>2, LifecycleQuiet, LogsStand
  <1>12. ASSUME NEW p \in Proc, Ack(p) \/ AckFails(p) PROVE Goal
    <2>1. PICK step \in {"idle", "halted"} : LetGo(p, step)
      BY <1>1, <1>12, LetGoShape
    <2>2. UNCHANGED <<seen, cache, redis, stateLog, domainLog>>
      BY <1>12 DEF Ack, AckFails, repoVars, logVars
    <2>3. \A r \in Proc : /\ r # p => /\ pc'[r] = pc[r] /\ cur'[r] = cur[r] /\ root'[r] = root[r]
                                      /\ evt'[r] = evt[r] /\ stateEvt'[r] = stateEvt[r]
                          /\ r = p => pc[r] = "commit" /\ pc'[r] \in {"idle", "halted"}
      BY <1>1, <1>12, <2>1 DEF Ack, AckFails, LetGo, TypeInv, TypeOK
    <2> QED
      BY <1>1, <2>2, <2>3, LifecycleQuiet, LogsStand
  <1>13. ASSUME NEW p \in Proc, NEW t \in Transfer, CacheExpires(p, t) PROVE Goal
    <2>1. \A r \in Proc, u \in Transfer : cache'[r][u] \in {cache[r][u], Absent}
      BY <1>1, <1>13 DEF CacheExpires, TypeInv, TypeOK
    <2>2. UNCHANGED <<pc, cur, root, evt, stateEvt, seen, redis, stateLog, domainLog>>
      BY <1>13 DEF CacheExpires, handVars, logVars
    <2> QED
      BY <1>1, <2>1, <2>2, LifecycleQuiet, LogsStand
  <1>14. ASSUME NEW t \in Transfer, RedisExpires(t) PROVE Goal
    <2>1. \A u \in Transfer : redis'[u] \in {redis[u], Absent}
      BY <1>1, <1>14 DEF RedisExpires, TypeInv, TypeOK
    <2>2. UNCHANGED <<pc, cur, root, evt, stateEvt, seen, cache, stateLog, domainLog>>
      BY <1>14 DEF RedisExpires, handVars, logVars
    <2> QED
      BY <1>1, <2>1, <2>2, LifecycleQuiet, LogsStand
  <1>15. ASSUME NEW p \in Proc, \/ PublishFails(p) \/ RepublishFails(p) \/ StoreFails(p)
                                \/ Crash(p) \/ \E q \in Partition : Rebalance(q, p)
         PROVE  FALSE
    BY <1>4, <1>15 DEF PublishFails, RepublishFails, StoreFails, Crash, Rebalance
  <1>16. ASSUME UNCHANGED vars PROVE Goal
    <2>1. UNCHANGED <<pc, cur, root, evt, stateEvt, seen, cache, redis, stateLog, domainLog>>
      BY <1>16 DEF vars
    <2> QED
      BY <1>1, <2>1, LifecycleQuiet, LogsStand
  <1>17. Goal
    BY <1>5, <1>6, <1>7, <1>8, <1>9, <1>10, <1>11, <1>12, <1>13, <1>14, <1>15, <1>16
       DEF Next, Work, Fail
  <1> QED
    BY <1>2, <1>3, <1>17 DEF LifecycleInv

LEMMA LifecycleInit == Init => LifecycleInv /\ Lifecycle!Init
  <1> SUFFICES ASSUME Init PROVE LifecycleInv /\ Lifecycle!Init
    OBVIOUS
  <1>1. RegressInv
    BY InitRegressInv
  <1>2. failed \subseteq FaultKinds
    BY DEF Init
  <1>3. LifecycleCore
    BY DEF Init, LifecycleCore, At
  <1>4. \A t \in Transfer : LastStatus(t) = Absent /\ Announcements(t) = 0
    BY DEF Init, LastStatus, Announcements, EventName, StepEvent
  <1>5. Lifecycle!Init
    BY <1>4 DEF Lifecycle!Init
  <1> QED
    BY <1>1, <1>2, <1>3, <1>5 DEF LifecycleInv

\* The refinement: with repeated requests, failing reads, halted processes and
\* entities that expire, any number of processes of transferCmdHandler announce
\* the steps of every transfer in order and once.
THEOREM LifecycleImplemented ==
    ASSUME FaultKinds \subseteq Harmless
    PROVE  Spec => ImplementsLifecycle
  <1>1. LifecycleInv /\ [Next]_vars => LifecycleInv' /\ [Lifecycle!Next]_(Lifecycle!vars)
    BY LifecycleStep
  <1>2. Init => LifecycleInv /\ Lifecycle!Init
    BY LifecycleInit
  <1> QED
    BY <1>1, <1>2, PTL DEF Spec, ImplementsLifecycle, Lifecycle!Spec

================================================================================
