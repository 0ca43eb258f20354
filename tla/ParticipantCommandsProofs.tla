----------------------- MODULE ParticipantCommandsProofs -----------------------
(******************************************************************************)
(* Proofs about ParticipantCommands, for every value of its constants:        *)
(* type correctness, that no copy of a position exceeds the cap, that redis   *)
(* holds only positions the event stream holds too, and that a command whose  *)
(* offset was committed was answered.                                         *)
(******************************************************************************)
EXTENDS ParticipantCommands, TLAPS

--------------------------------------------------------------------------------
(* The inductive invariants *)

\* A process that awaits or loads a command has nothing to publish; what it
\* publishes or stores comes with a loaded or created entity.
ControlOK ==
    \A p \in Proc :
        /\ pc[p] \in {"idle", "load"} => evt[p] = "none" /\ stateEvt[p] = "none"
                                         /\ root[p] = Absent
        /\ stateEvt[p] # "none" \/ pc[p] = "store" => root[p] \in Int

TypeInv == TypeOK /\ ControlOK

\* Only transfers with a positive amount are ever reserved, so only such
\* transfers are committed, and a commitment cannot raise a position.
PositiveReserved ==
    /\ \A t \in Transfer :
          domainLog[<<Cmd("Reserve", t), "PayerFundsReserved">>] > 0 => Amount[t] > 0
    /\ \A p \in Proc :
          evt[p] = "PayerFundsReserved" => Amount[cur[p].t] > 0

PositiveCommits ==
    /\ \A q \in Partition : \A i \in DOMAIN topic[q] :
          topic[q][i].op = "Commit" => Amount[topic[q][i].t] > 0
    /\ \A p \in Proc :
          cur[p] # NoCmd /\ cur[p].op = "Commit" => Amount[cur[p].t] > 0

RootsCapped ==
    \A p \in Proc :
        pc[p] \notin {"idle", "load", "halted"} /\ root[p] # Absent
            => Capped(Root(cur[p]), root[p])

CapInv == /\ TypeInv
          /\ PositiveReserved
          /\ PositiveCommits
          /\ RootsCapped
          /\ PositionsCapped

\* A process about to store has published; one about to handle a command of a
\* participant that redis knows has it in its Map, so no replay is pending.
StoresPublished ==
    \A p \in Proc : pc[p] = "store" => root[p] \in PublishedPositions(Root(cur[p]))

NoReplayPending ==
    \A p \in Proc : pc[p] = "handle" /\ Root(cur[p]) \in Registered => ~Replayed(p)

StreamInv == TypeInv /\ PersistedWasPublished /\ StoresPublished /\ NoReplayPending

--------------------------------------------------------------------------------
(* Facts about commands and amounts *)

LEMMA ConstantTypes ==
    /\ Payer \in [Transfer -> Participant]
    /\ Payee \in [Transfer -> Participant]
    /\ Amount \in [Transfer -> Int]
    /\ Limit \in [Participant -> Int \union {Absent}]
    /\ InitialPosition \in [Participant -> Int]
    /\ FundsPartition \in [Participant -> Partition]
    /\ KeyPartition \in [Participant -> Partition]
    /\ InitialOwner \in [Partition -> Proc]
    /\ Absent \notin Int
    /\ NoCmd \notin Command
  BY ConstantsAssumption DEF ConstantsAssumption, MaybePos, Pos

LEMMA CommandFields ==
    ASSUME NEW c \in Command
    PROVE  /\ c.op \in {"Reserve", "Commit", "Create", "Snapshot"}
           /\ c.op \in {"Reserve", "Commit"} => c.t \in Transfer /\ c = Cmd(c.op, c.t)
           /\ c.op \in {"Create", "Snapshot"} => c.id \in Participant
  BY DEF Command, FundsOp, ManageOp, Cmd

LEMMA RootType ==
    ASSUME NEW c \in Command
    PROVE  Root(c) \in Participant
  BY CommandFields, ConstantTypes DEF Root

LEMMA CounterpartyType ==
    ASSUME NEW c \in Command, c.op \in {"Reserve", "Commit"}
    PROVE  Counterparty(c) \in Participant
  BY CommandFields, ConstantTypes DEF Counterparty

LEMMA PartitionOfType ==
    ASSUME NEW c \in Command
    PROVE  PartitionOf(c) \in Partition
  BY RootType, ConstantTypes DEF PartitionOf

\* A reservation that is granted has a positive amount and stays under the cap.
LEMMA GrantedRuling ==
    ASSUME NEW t \in Transfer, NEW x \in Participant, NEW pos \in Int,
           ReserveRuling(x, t, pos) = "PayerFundsReserved"
    PROVE  Amount[t] > 0 /\ Capped(x, pos + Amount[t])
  BY ConstantTypes DEF ReserveRuling, Capped

\* A smaller position is capped too.
LEMMA CappedDown ==
    ASSUME NEW x \in Participant, NEW v \in Int, NEW w \in Int, w <= v, Capped(x, v)
    PROVE  Capped(x, w)
  BY ConstantTypes DEF Capped

\* Writing one position into one process's Map.
LEMMA MapUpdate ==
    ASSUME NEW m \in [Proc -> [Participant -> MaybePos]],
           NEW p \in Proc, NEW x \in Participant, NEW v \in MaybePos
    PROVE  [m EXCEPT ![p][x] = v] \in [Proc -> [Participant -> MaybePos]]
  OBVIOUS

LEMMA InitTypeInv == Init => TypeInv
  <1> SUFFICES ASSUME Init PROVE TypeInv
    OBVIOUS
  <1> USE ConstantTypes DEF Init
  <1>0. faults \in FaultRecord
    BY DEF FaultRecord
  <1>1. TypeOK
    BY <1>0, ConstantsAssumption DEF TypeOK, ConstantsAssumption, MaybePos, Pos
  <1>2. ControlOK
    BY DEF ControlOK
  <1> QED
    BY <1>1, <1>2 DEF TypeInv

LEMMA ProduceType ==
    ASSUME TypeInv, NEW c \in Command, Produce(c)
    PROVE  TypeInv'
  <1> USE DEF TypeInv
  <1>1. topic' \in [Partition -> Seq(Command)]
    BY PartitionOfType DEF Produce, TypeOK
  <1>2. TypeOK'
    BY <1>1 DEF TypeOK, Produce, handVars, logVars
  <1>3. ControlOK'
    BY DEF ControlOK, Produce, handVars
  <1> QED
    BY <1>2, <1>3

LEMMA FetchType ==
    ASSUME TypeInv, NEW p \in Proc, NEW q \in Partition, Fetch(p, q)
    PROVE  TypeInv'
  <1> USE DEF TypeInv
  <1>1. topic[q][next[q] + 1] \in Command
    BY DEF Fetch, TypeOK
  <1>2. TypeOK'
    BY <1>1 DEF TypeOK, Fetch, logVars
  <1>3. ControlOK'
    BY DEF ControlOK, TypeOK, Fetch
  <1> QED
    BY <1>2, <1>3

LEMMA LoadRootType ==
    ASSUME TypeInv, NEW p \in Proc, LoadRoot(p)
    PROVE  TypeInv'
  <1> USE DEF TypeInv
  <1> DEFINE x == Root(cur[p])
  <1>1. x \in Participant
    BY RootType DEF LoadRoot, TypeOK
  <1>2. \A v \in PublishedPositions(x) : v \in Int
    BY <1>1 DEF PublishedPositions, TypeOK, Pos
  <1>3. PICK v \in MaybePos : /\ root' = [root EXCEPT ![p] = v]
                              /\ memory' \in {memory, [memory EXCEPT ![p][x] = v]}
    <2>1. /\ memory[p][x] \in MaybePos
          /\ redis[x] \in MaybePos
          /\ \A v \in PublishedPositions(x) \union {Absent} : v \in MaybePos
      BY <1>1, <1>2 DEF TypeOK, MaybePos, Pos
    <2> QED
      BY <2>1 DEF LoadRoot
  <1>4. TypeOK'
    <2>1. memory' \in [Proc -> [Participant -> MaybePos]]
      <3>1. [memory EXCEPT ![p][x] = v] \in [Proc -> [Participant -> MaybePos]]
        BY <1>1, MapUpdate DEF TypeOK
      <3> QED
        BY <1>3, <3>1 DEF TypeOK
    <2>2. root' \in [Proc -> MaybePos]
      BY <1>3 DEF TypeOK
    <2> QED
      BY <2>1, <2>2 DEF TypeOK, LoadRoot, groupVars, logVars
  <1>5. ControlOK'
    BY DEF ControlOK, TypeOK, LoadRoot
  <1> QED
    BY <1>4, <1>5

\* What SetRoot, SetPositions and the next tick do keeps the types.
LEMMA SetRootType ==
    ASSUME TypeOK, NEW p \in Proc, cur[p] \in Command, NEW pos \in MaybePos,
           SetRoot(p, pos)
    PROVE  /\ root' \in [Proc -> MaybePos]
           /\ memory' \in [Proc -> [Participant -> MaybePos]]
           /\ redis' \in [Participant -> MaybePos]
  <1>1. Root(cur[p]) \in Participant
    BY RootType
  <1>2. memory' \in [Proc -> [Participant -> MaybePos]]
    BY <1>1, MapUpdate DEF SetRoot, TypeOK
  <1>3. redis' \in [Participant -> MaybePos]
    BY <1>1 DEF SetRoot, NextTick, TypeOK
  <1> QED
    BY <1>2, <1>3 DEF SetRoot, TypeOK

LEMMA SetPositionsType ==
    ASSUME TypeOK, NEW p \in Proc, cur[p] \in Command, NEW pos \in MaybePos,
           SetPositions(p, pos), cur[p].op \in {"Reserve", "Commit"}
    PROVE  /\ root' \in [Proc -> MaybePos]
           /\ memory' \in [Proc -> [Participant -> MaybePos]]
           /\ redis' \in [Participant -> MaybePos]
  <1>1. Root(cur[p]) \in Participant /\ Counterparty(cur[p]) \in Participant
    BY RootType, CounterpartyType
  <1>2. LookUp(p, Counterparty(cur[p])) \in MaybePos
    BY <1>1 DEF LookUp, TypeOK
  <1>3. memory' \in [Proc -> [Participant -> MaybePos]]
    BY <1>1, <1>2 DEF SetPositions, TypeOK
  <1>4. root[p] \in MaybePos
    BY DEF TypeOK
  <1>5. redis' \in [Participant -> MaybePos]
    BY <1>1, <1>4 DEF SetPositions, NextTick, TypeOK
  <1> QED
    BY <1>3, <1>5 DEF SetPositions, TypeOK

\* A handler that leaves an event of the right kind keeps TypeInv.
LEMMA DecideType ==
    ASSUME TypeInv, NEW p \in Proc, cur[p] \in Command,
           NEW e \in EventName \union {"none"}, NEW s \in StateEventName \union {"none"},
           Decide(p, e, s),
           /\ root' \in [Proc -> MaybePos]
           /\ memory' \in [Proc -> [Participant -> MaybePos]]
           /\ redis' \in [Participant -> MaybePos],
           \A r \in Proc \ {p} : root'[r] = root[r],
           s # "none" => root'[p] \in Int
    PROVE  TypeInv'
  <1>1. TypeOK'
    BY DEF TypeInv, TypeOK, Decide, groupVars, logVars
  <1>2. ControlOK'
    BY DEF TypeInv, TypeOK, ControlOK, Decide
  <1> QED
    BY <1>1, <1>2 DEF TypeInv

LEMMA HandleCreateType ==
    ASSUME TypeInv, NEW p \in Proc, HandleCreate(p)
    PROVE  TypeInv'
  <1>1. cur[p] \in Command /\ cur[p].id \in Participant /\ root[p] \in MaybePos
    BY CommandFields DEF TypeInv, TypeOK, HandleCreate
  <1>2. CASE root[p] # Absent /\ SetRoot(p, root[p]) /\ Decide(p, "DuplicateParticipant", "none")
    <2>1. /\ root' \in [Proc -> MaybePos]
          /\ memory' \in [Proc -> [Participant -> MaybePos]]
          /\ redis' \in [Participant -> MaybePos]
      BY <1>1, <1>2, SetRootType DEF TypeInv
    <2>2. \A r \in Proc \ {p} : root'[r] = root[r]
      BY <1>2 DEF SetRoot, TypeInv, TypeOK
    <2> QED
      BY <1>1, <1>2, <2>1, <2>2, DecideType DEF EventName
  <1>3. CASE /\ root' = [root EXCEPT ![p] = InitialPosition[cur[p].id]]
             /\ Decide(p, "ParticipantCreated", "CreatedState")
             /\ UNCHANGED <<memory, redis>>
    <2>1. InitialPosition[cur[p].id] \in Int
      BY <1>1, ConstantTypes
    <2>2. /\ root' \in [Proc -> MaybePos]
          /\ memory' \in [Proc -> [Participant -> MaybePos]]
          /\ redis' \in [Participant -> MaybePos]
          /\ \A r \in Proc \ {p} : root'[r] = root[r]
          /\ root'[p] \in Int
      BY <1>3, <2>1 DEF TypeInv, TypeOK, MaybePos, Pos
    <2> QED
      BY <1>1, <1>3, <2>2, DecideType DEF EventName, StateEventName
  <1> QED
    BY <1>2, <1>3 DEF HandleCreate

LEMMA RefuseUnknownType ==
    ASSUME TypeInv, NEW p \in Proc, RefuseUnknown(p)
    PROVE  TypeInv'
  <1>1. cur[p] \in Command
    BY DEF TypeInv, TypeOK, RefuseUnknown
  <1> QED
    BY <1>1, DecideType DEF RefuseUnknown, TypeInv, TypeOK, EventName

\* A ruling on a funds command: it moves the position by an integer or refuses.
LEMMA RulingType ==
    ASSUME TypeInv, NEW p \in Proc, cur[p] \in Command,
           cur[p].op \in {"Reserve", "Commit"}, NEW pos \in Int,
           NEW e \in EventName, NEW s \in StateEventName \union {"none"},
           SetPositions(p, pos) \/ SetRoot(p, pos), Decide(p, e, s)
    PROVE  TypeInv'
  <1>1. pos \in MaybePos
    BY DEF MaybePos, Pos
  <1>2. /\ root' \in [Proc -> MaybePos]
        /\ memory' \in [Proc -> [Participant -> MaybePos]]
        /\ redis' \in [Participant -> MaybePos]
    BY <1>1, SetPositionsType, SetRootType DEF TypeInv
  <1>3. root' = [root EXCEPT ![p] = pos]
    BY DEF SetPositions, SetRoot
  <1> QED
    BY <1>2, <1>3, DecideType DEF TypeInv, TypeOK

LEMMA HandleReserveType ==
    ASSUME TypeInv, NEW p \in Proc, HandleReserve(p)
    PROVE  TypeInv'
  <1> DEFINE t == cur[p].t
             ruling == IF LookUp(p, Payee[t]) = Absent \/ ~HasAccount(Payee[t], t)
                       THEN "InvalidParticipant"
                       ELSE ReserveRuling(Payer[t], t, root[p])
  <1>1. /\ cur[p] \in Command /\ cur[p].op \in {"Reserve", "Commit"}
        /\ root[p] \in Int /\ Amount[t] \in Int
    BY CommandFields, ConstantTypes DEF TypeInv, TypeOK, HandleReserve, MaybePos, Pos
  <1>2. ruling \in EventName
    BY DEF ReserveRuling, EventName
  <1>3. CASE /\ SetPositions(p, root[p] + Amount[t])
             /\ Decide(p, ruling, "PositionChangedState")
    <2>1. root[p] + Amount[t] \in Int
      BY <1>1
    <2> HIDE DEF ruling
    <2> QED
      BY <1>1, <1>2, <1>3, <2>1, RulingType DEF StateEventName
  <1>4. CASE SetPositions(p, root[p]) /\ Decide(p, ruling, "none")
    <2> HIDE DEF ruling
    <2> QED
      BY <1>1, <1>2, <1>4, RulingType
  <1> QED
    BY <1>3, <1>4 DEF HandleReserve

LEMMA HandleCommitType ==
    ASSUME TypeInv, NEW p \in Proc, HandleCommit(p)
    PROVE  TypeInv'
  <1> DEFINE t == cur[p].t
  <1>1. /\ cur[p] \in Command /\ cur[p].op \in {"Reserve", "Commit"}
        /\ root[p] \in Int /\ root[p] - Amount[t] \in Int
    <2>1. /\ cur[p] \in Command /\ cur[p].op = "Commit" /\ root[p] \in Int
      BY DEF TypeInv, TypeOK, HandleCommit, MaybePos, Pos
    <2>2. Amount[t] \in Int
      BY <2>1, CommandFields, ConstantTypes
    <2> QED
      BY <2>1, <2>2
  <1>2. CASE /\ SetRoot(p, root[p]) \/ SetPositions(p, root[p])
             /\ Decide(p, "InvalidParticipant", "none")
    BY <1>1, <1>2, RulingType DEF EventName
  <1>3. CASE /\ SetPositions(p, root[p] - Amount[t])
             /\ Decide(p, "PayeeFundsCommitted", "PositionChangedState")
    BY <1>1, <1>3, RulingType DEF EventName, StateEventName
  <1> QED
    BY <1>2, <1>3 DEF HandleCommit

LEMMA HandleSnapshotType ==
    ASSUME TypeInv, NEW p \in Proc, HandleSnapshot(p)
    PROVE  TypeInv'
  <1>1. cur[p] \in Command /\ root[p] \in MaybePos
    BY DEF TypeInv, TypeOK, HandleSnapshot
  <1>2. CASE root[p] # Absent /\ SetRoot(p, root[p]) /\ Decide(p, "none", "StateSnapshot")
    <2>1. /\ root' \in [Proc -> MaybePos]
          /\ memory' \in [Proc -> [Participant -> MaybePos]]
          /\ redis' \in [Participant -> MaybePos]
      BY <1>1, <1>2, SetRootType DEF TypeInv
    <2>2. (\A r \in Proc \ {p} : root'[r] = root[r]) /\ root'[p] \in Int
      BY <1>1, <1>2 DEF SetRoot, TypeInv, TypeOK, MaybePos, Pos
    <2> QED
      BY <1>1, <1>2, <2>1, <2>2, DecideType DEF StateEventName
  <1>3. CASE /\ pc' = [pc EXCEPT ![p] = "commit"]
             /\ UNCHANGED <<groupVars, cur, off, root, evt, stateEvt, memory, redis,
                            logVars, faults>>
    <2>1. TypeOK'
      BY <1>1, <1>3 DEF TypeInv, TypeOK, groupVars, logVars
    <2>2. ControlOK'
      BY <1>3 DEF TypeInv, TypeOK, ControlOK
    <2> QED
      BY <2>1, <2>2 DEF TypeInv
  <1> QED
    BY <1>2, <1>3 DEF HandleSnapshot

\* Events that reach the topics keep their types: what is delivered was decided.
LEMMA DeliverType ==
    ASSUME TypeInv, NEW p \in Proc, cur[p] \in Command, NEW D, Deliver(p, D)
    PROVE  /\ domainLog' \in [Command \X EventName -> Nat]
           /\ stateLog' \in [Participant -> Seq(Pos)]
           /\ snapshots' \in [Participant -> Seq(Pos)]
  <1>1. Root(cur[p]) \in Participant
    BY RootType
  <1>2. evt[p] # "none" => <<cur[p], evt[p]>> \in Command \X EventName
    BY DEF TypeInv, TypeOK
  <1>3. domainLog' \in [Command \X EventName -> Nat]
    BY <1>2 DEF Deliver, TypeInv, TypeOK
  <1>4. stateEvt[p] # "none" => root[p] \in Pos
    BY DEF TypeInv, ControlOK, Pos
  <1>5. stateEvt[p] # "none" =>
            /\ Append(stateLog[Root(cur[p])], root[p]) \in Seq(Pos)
            /\ Append(snapshots[Root(cur[p])], root[p]) \in Seq(Pos)
    BY <1>1, <1>4 DEF TypeInv, TypeOK
  <1>6. stateLog' \in [Participant -> Seq(Pos)]
    BY <1>1, <1>5 DEF Deliver, TypeInv, TypeOK
  <1>7. snapshots' \in [Participant -> Seq(Pos)]
    BY <1>1, <1>5 DEF Deliver, TypeInv, TypeOK
  <1> QED
    BY <1>3, <1>6, <1>7

LEMMA PublishToType ==
    ASSUME TypeInv, NEW p \in Proc, pc[p] \in {"publish", "republish"},
           NEW D, Deliver(p, D), NEW step \in {"republish", "store", "commit"},
           PublishTo(p, step), step = "store" => stateEvt[p] # "none",
           evt' \in {evt, [evt EXCEPT ![p] = "none"]}, faults' \in FaultRecord
    PROVE  TypeInv'
  <1>1. cur[p] \in Command
    BY DEF TypeInv, TypeOK
  <1>2. TypeOK'
    BY <1>1, DeliverType DEF TypeInv, TypeOK, PublishTo, groupVars
  <1>3. ControlOK'
    BY DEF TypeInv, TypeOK, ControlOK, PublishTo
  <1> QED
    BY <1>2, <1>3 DEF TypeInv

LEMMA FailureType ==
    ASSUME faults \in FaultRecord, NEW kind, Failure(kind)
    PROVE  faults' \in FaultRecord
  <1>1. kind \in Fault
    BY ConstantsAssumption DEF Failure
  <1>2. faults.count \in Nat /\ faults.kinds \in SUBSET Fault
    BY DEF FaultRecord
  <1>3. faults.count + 1 \in Nat /\ faults.kinds \union {kind} \in SUBSET Fault
    BY <1>1, <1>2
  <1> QED
    BY <1>3 DEF Failure, FaultRecord

LEMMA PublishingType ==
    ASSUME TypeInv, NEW p \in Proc,
           \/ Publish(p)
           \/ PublishFails(p)
           \/ Republish(p)
           \/ RepublishFails(p)
    PROVE  TypeInv'
  <1>1. faults \in FaultRecord
    BY DEF TypeInv, TypeOK
  <1>2. CASE Publish(p)
    BY <1>1, <1>2, PublishToType DEF Publish
  <1>3. CASE PublishFails(p)
    <2>1. PICK D \in SUBSET {"domain", "state"} : Deliver(p, D)
      BY <1>3 DEF PublishFails
    <2>2. /\ pc[p] = "publish"
          /\ PublishTo(p, IF evt[p] = "none" THEN "commit" ELSE "republish")
          /\ evt' = evt /\ faults' \in FaultRecord
      BY <1>1, <1>3, FailureType DEF PublishFails
    <2>3. CASE evt[p] = "none"
      <3>1. PublishTo(p, "commit")
        BY <2>2, <2>3
      <3> QED
        BY <2>1, <2>2, <3>1, PublishToType
    <2>4. CASE evt[p] # "none"
      <3>1. PublishTo(p, "republish")
        BY <2>2, <2>4
      <3> QED
        BY <2>1, <2>2, <3>1, PublishToType
    <2> QED
      BY <2>3, <2>4
  <1>4. CASE Republish(p)
    BY <1>1, <1>4, PublishToType DEF Republish
  <1>5. CASE RepublishFails(p)
    <2>1. PICK D \in SUBSET {"domain"} : Deliver(p, D)
      BY <1>5 DEF RepublishFails
    <2>2. /\ pc[p] = "republish" /\ PublishTo(p, "commit")
          /\ evt' = [evt EXCEPT ![p] = "none"] /\ faults' \in FaultRecord
      BY <1>1, <1>5, FailureType DEF RepublishFails
    <2> QED
      BY <2>1, <2>2, PublishToType
  <1> QED
    BY <1>2, <1>3, <1>4, <1>5

LEMMA StoringType ==
    ASSUME TypeInv, NEW p \in Proc, Store(p) \/ StoreFails(p)
    PROVE  TypeInv'
  <1>1. /\ StoreStep(p) /\ redis' \in {redis, Stored(p)} /\ faults' \in FaultRecord
    BY FailureType DEF Store, StoreFails, TypeInv, TypeOK
  <1>2. /\ cur[p] \in Command /\ root[p] \in MaybePos
        /\ Root(cur[p]) \in Participant
    BY <1>1, RootType DEF TypeInv, TypeOK, StoreStep
  <1>3. memory' \in [Proc -> [Participant -> MaybePos]]
    BY <1>1, <1>2, MapUpdate DEF StoreStep, TypeInv, TypeOK
  <1>4. redis' \in [Participant -> MaybePos]
    BY <1>1, <1>2 DEF Stored, TypeInv, TypeOK
  <1>5. TypeOK'
    BY <1>1, <1>3, <1>4 DEF StoreStep, TypeInv, TypeOK, groupVars, logVars
  <1>6. ControlOK'
    BY <1>1 DEF StoreStep, TypeInv, TypeOK, ControlOK
  <1> QED
    BY <1>5, <1>6 DEF TypeInv

LEMMA ReadFailsType ==
    ASSUME TypeInv, NEW p \in Proc, ReadFails(p)
    PROVE  TypeInv'
  <1>1. /\ cur[p] \in Command /\ root[p] \in MaybePos /\ faults' \in FaultRecord
    <2>1. pc[p] \in {"load", "handle"} /\ Failure("read")
      BY DEF ReadFails
    <2>2. faults' \in FaultRecord
      BY <2>1, FailureType DEF TypeInv, TypeOK
    <2>3. cur[p] \in Command /\ root[p] \in MaybePos
      BY <2>1 DEF TypeInv, TypeOK
    <2> QED
      BY <2>2, <2>3
  <1>2. /\ root' \in [Proc -> MaybePos]
        /\ memory' \in [Proc -> [Participant -> MaybePos]]
        /\ redis' \in [Participant -> MaybePos]
    BY <1>1, SetRootType DEF ReadFails, TypeInv, TypeOK
  <1>3. TypeOK'
    BY <1>1, <1>2 DEF ReadFails, TypeInv, TypeOK, groupVars, logVars
  <1>4. root' = root
    BY DEF ReadFails, SetRoot, TypeInv, TypeOK
  <1>5. ControlOK'
    BY <1>4 DEF ReadFails, TypeInv, TypeOK, ControlOK
  <1> QED
    BY <1>3, <1>5 DEF TypeInv

LEMMA LetGoType ==
    ASSUME TypeInv, NEW p \in Proc, NEW step \in {"idle", "halted"}, LetGo(p, step),
           /\ topic' = topic /\ owner' = owner
           /\ committed' \in [Partition -> Nat]
           /\ next' \in [Partition -> Nat]
           /\ memory' \in [Proc -> [Participant -> MaybePos]]
           /\ redis' = redis /\ UNCHANGED logVars
           /\ faults' \in FaultRecord
    PROVE  TypeInv'
  <1>1. TypeOK'
    BY DEF LetGo, TypeInv, TypeOK, logVars, MaybePos
  <1>2. ControlOK'
    BY DEF LetGo, TypeInv, TypeOK, ControlOK
  <1> QED
    BY <1>1, <1>2 DEF TypeInv

LEMMA AckType ==
    ASSUME TypeInv, NEW p \in Proc, Ack(p) \/ AckFails(p)
    PROVE  TypeInv'
  <1>1. cur[p] \in Command
    BY DEF Ack, AckFails, TypeInv, TypeOK
  <1>2. CASE Ack(p)
    <2>1. committed' \in [Partition -> Nat]
      BY <1>1, <1>2, PartitionOfType DEF Ack, TypeInv, TypeOK
    <2> QED
      BY <1>2, <2>1, LetGoType DEF Ack, TypeInv, TypeOK
  <1>3. CASE AckFails(p)
    <2>1. faults' \in FaultRecord
      BY <1>3, FailureType DEF AckFails, TypeInv, TypeOK
    <2>2. LetGo(p, "halted") /\ UNCHANGED <<groupVars, memory, redis, logVars>>
      BY <1>3 DEF AckFails
    <2> QED
      BY <2>1, <2>2, LetGoType DEF groupVars, TypeInv, TypeOK
  <1> QED
    BY <1>2, <1>3

LEMMA CrashType ==
    ASSUME TypeInv, NEW p \in Proc, Crash(p)
    PROVE  TypeInv'
  <1>1. memory' \in [Proc -> [Participant -> MaybePos]]
    BY DEF Crash, TypeInv, TypeOK, MaybePos
  <1>2. next' \in [Partition -> Nat] /\ faults' \in FaultRecord
    BY FailureType DEF Crash, TypeInv, TypeOK
  <1> QED
    BY <1>1, <1>2, LetGoType DEF Crash, TypeInv, TypeOK

LEMMA RebalanceType ==
    ASSUME TypeInv, NEW p \in Proc, NEW q \in Partition, Rebalance(q, p)
    PROVE  TypeInv'
  <1>1. TypeOK'
    BY FailureType DEF Rebalance, TypeInv, TypeOK, handVars, logVars
  <1>2. ControlOK'
    BY DEF Rebalance, TypeInv, TypeOK, ControlOK, handVars
  <1> QED
    BY <1>1, <1>2 DEF TypeInv

LEMMA TypeStep == TypeInv /\ [Next]_vars => TypeInv'
  <1> SUFFICES ASSUME TypeInv, [Next]_vars PROVE TypeInv'
    OBVIOUS
  <1>1. ASSUME NEW c \in Command, Produce(c) PROVE TypeInv'
    BY <1>1, ProduceType
  <1>2. ASSUME NEW p \in Proc, Work(p) PROVE TypeInv'
    BY <1>2, FetchType, LoadRootType, HandleCreateType, RefuseUnknownType,
       HandleReserveType, HandleCommitType, HandleSnapshotType, PublishingType,
       StoringType, AckType
       DEF Work, Handle
  <1>3. ASSUME NEW p \in Proc, Fail(p) PROVE TypeInv'
    BY <1>3, ReadFailsType, PublishingType, StoringType, AckType, CrashType,
       RebalanceType
       DEF Fail
  <1>4. CASE UNCHANGED vars
    BY <1>4 DEF vars, TypeInv, TypeOK, ControlOK
  <1> QED
    BY <1>1, <1>2, <1>3, <1>4 DEF Next

\* Every variable keeps its type, and a process that is neither idle nor halted
\* has a command in hand, whatever fails: participantCmdHandler and
\* BaseEventSourcingAggregate.processCommand.
THEOREM TypeCorrect == Spec => []TypeOK
  <1>1. Spec => []TypeInv
    BY InitTypeInv, TypeStep, PTL DEF Spec
  <1>2. TypeInv => TypeOK
    BY DEF TypeInv
  <1> QED
    BY <1>1, <1>2, PTL

--------------------------------------------------------------------------------
(* The net debit cap *)

LEMMA InitCapInv == Init => CapInv
  <1> SUFFICES ASSUME Init PROVE CapInv
    OBVIOUS
  <1>1. TypeInv
    BY InitTypeInv
  <1>2. PositiveReserved
    <2>1. \A t \in Transfer :
             <<Cmd("Reserve", t), "PayerFundsReserved">> \in Command \X EventName
      BY DEF Cmd, Command, FundsOp, EventName
    <2> QED
      BY <2>1 DEF Init, PositiveReserved
  <1>3. PositiveCommits
    BY DEF Init, PositiveCommits
  <1>4. RootsCapped
    BY DEF Init, RootsCapped
  <1>5. PositionsCapped
    <2>1. \A x \in Participant : InitialPosition[x] \in Int /\ Absent \notin Int
      BY ConstantTypes
    <2> QED
      BY <2>1 DEF Init, PositionsCapped, Capped
  <1> QED
    BY <1>1, <1>2, <1>3, <1>4, <1>5 DEF CapInv

\* What is granted was positive: only handlers of Reserve grant, only Deliver
\* records.
LEMMA ReservedStep ==
    ASSUME TypeInv, TypeInv', PositiveReserved, [Next]_vars
    PROVE  PositiveReserved'
  <1> DEFINE Granted(t) == <<Cmd("Reserve", t), "PayerFundsReserved">>
  <1> USE DEF PositiveReserved
  <1>1. ASSUME UNCHANGED <<domainLog, cur, evt>> PROVE PositiveReserved'
    BY <1>1
  <1>2. ASSUME NEW p \in Proc, UNCHANGED <<domainLog, cur>>, NEW e,
               evt' = [evt EXCEPT ![p] = e],
               e = "PayerFundsReserved" => Amount[cur[p].t] > 0
        PROVE  PositiveReserved'
    BY <1>2 DEF TypeInv, TypeOK
  <1>3. ASSUME NEW p \in Proc, NEW step, LetGo(p, step), UNCHANGED domainLog
        PROVE  PositiveReserved'
    BY <1>3 DEF LetGo, TypeInv, TypeOK
  <1>4. ASSUME NEW p \in Proc, NEW D, Deliver(p, D), UNCHANGED cur,
               pc[p] \in {"publish", "republish"},
               evt' \in {evt, [evt EXCEPT ![p] = "none"]}
        PROVE  PositiveReserved'
    <2>1. ASSUME NEW t \in Transfer, domainLog'[Granted(t)] > 0
          PROVE  Amount[t] > 0
      <3>1. cur[p] \in Command
        BY <1>4 DEF TypeInv, TypeOK
      <3>2. CASE <<cur[p], evt[p]>> = Granted(t)
        BY <1>4, <3>2 DEF Cmd
      <3>3. CASE <<cur[p], evt[p]>> # Granted(t)
        <4>1. Granted(t) \in Command \X EventName
          BY DEF Cmd, Command, FundsOp, EventName
        <4>2. evt[p] # "none" => <<cur[p], evt[p]>> \in Command \X EventName
          BY <3>1 DEF TypeInv, TypeOK
        <4>3. domainLog'[Granted(t)] = domainLog[Granted(t)]
          <5> HIDE DEF Granted
          <5> QED
            BY <1>4, <3>3, <4>1, <4>2 DEF Deliver, TypeInv, TypeOK
        <4> QED
          BY <2>1, <4>3
      <3> QED
        BY <3>2, <3>3
    <2>2. \A r \in Proc : evt'[r] = "PayerFundsReserved" => Amount[cur'[r].t] > 0
      BY <1>4 DEF TypeInv, TypeOK
    <2> QED
      BY <2>1, <2>2
  <1>5. ASSUME NEW c \in Command, Produce(c) PROVE PositiveReserved'
    BY <1>1, <1>5 DEF Produce, handVars, logVars
  <1>6. ASSUME NEW p \in Proc, Work(p) PROVE PositiveReserved'
    <2>1. ASSUME NEW q \in Partition, Fetch(p, q) PROVE PositiveReserved'
      <3>1. evt[p] = "none"
        BY <2>1 DEF Fetch, TypeInv, ControlOK
      <3>2. evt' = evt /\ domainLog' = domainLog /\ \A r \in Proc \ {p} : cur'[r] = cur[r]
        BY <2>1 DEF Fetch, logVars, TypeInv, TypeOK
      <3> QED
        BY <3>1, <3>2
    <2>2. CASE LoadRoot(p)
      BY <1>1, <2>2 DEF LoadRoot, logVars
    <2>3. CASE HandleCreate(p)
      BY <1>2, <2>3 DEF HandleCreate, Decide, logVars
    <2>4. CASE RefuseUnknown(p)
      BY <1>2, <2>4 DEF RefuseUnknown, Decide, logVars
    <2>5. CASE HandleReserve(p)
      <3> DEFINE t == cur[p].t
                 ruling == IF LookUp(p, Payee[t]) = Absent \/ ~HasAccount(Payee[t], t)
                           THEN "InvalidParticipant"
                           ELSE ReserveRuling(Payer[t], t, root[p])
      <3>1. /\ t \in Transfer /\ Payer[t] \in Participant /\ root[p] \in Int
        BY <2>5, CommandFields, ConstantTypes
           DEF HandleReserve, TypeInv, TypeOK, MaybePos, Pos
      <3>2. ruling = "PayerFundsReserved" => Amount[t] > 0
        BY <3>1, GrantedRuling
      <3>3. PICK s : Decide(p, ruling, s)
        BY <2>5 DEF HandleReserve
      <3> HIDE DEF ruling
      <3> QED
        BY <1>2, <3>2, <3>3 DEF Decide, logVars
    <2>6. CASE HandleCommit(p)
      BY <1>2, <2>6 DEF HandleCommit, Decide, logVars
    <2>7. CASE HandleSnapshot(p)
      BY <1>1, <1>2, <2>7 DEF HandleSnapshot, Decide, logVars
    <2>8. CASE Publish(p)
      BY <1>4, <2>8 DEF Publish, PublishTo
    <2>9. CASE Republish(p)
      BY <1>4, <2>9 DEF Republish, PublishTo
    <2>10. CASE Store(p)
      BY <1>1, <2>10 DEF Store, StoreStep, logVars
    <2>11. CASE Ack(p)
      BY <1>3, <2>11 DEF Ack, logVars
    <2> QED
      BY <1>6, <2>1, <2>2, <2>3, <2>4, <2>5, <2>6, <2>7, <2>8, <2>9, <2>10, <2>11
         DEF Work, Handle
  <1>7. ASSUME NEW p \in Proc, Fail(p) PROVE PositiveReserved'
    <2>1. CASE ReadFails(p)
      BY <1>1, <2>1 DEF ReadFails, logVars
    <2>2. CASE PublishFails(p)
      BY <1>4, <2>2 DEF PublishFails, PublishTo
    <2>3. CASE RepublishFails(p)
      BY <1>4, <2>3 DEF RepublishFails, PublishTo
    <2>4. CASE StoreFails(p)
      BY <1>1, <2>4 DEF StoreFails, StoreStep, logVars
    <2>5. CASE AckFails(p) \/ Crash(p)
      BY <1>3, <2>5 DEF AckFails, Crash, logVars
    <2>6. ASSUME NEW q \in Partition, Rebalance(q, p) PROVE PositiveReserved'
      BY <1>1, <2>6 DEF Rebalance, handVars, logVars
    <2> QED
      BY <1>7, <2>1, <2>2, <2>3, <2>4, <2>5, <2>6 DEF Fail
  <1>8. CASE UNCHANGED vars
    BY <1>1, <1>8 DEF vars
  <1> QED
    BY <1>5, <1>6, <1>7, <1>8 DEF Next

\* A commit command was appended for a positive transfer, and a process has in
\* hand only what it took from the topic.
LEMMA CommitsStep ==
    ASSUME TypeInv, TypeInv', PositiveReserved, PositiveCommits, [Next]_vars
    PROVE  PositiveCommits'
  <1> USE DEF PositiveCommits
  <1>1. ASSUME UNCHANGED <<topic, cur>> PROVE PositiveCommits'
    BY <1>1
  <1>2. ASSUME NEW p \in Proc, NEW step, LetGo(p, step), UNCHANGED topic
        PROVE  PositiveCommits'
    BY <1>2 DEF LetGo, TypeInv, TypeOK
  <1>3. ASSUME NEW c \in Command, Produce(c) PROVE PositiveCommits'
    <2> DEFINE q == PartitionOf(c)
    <2>1. q \in Partition
      BY PartitionOfType
    <2>2. c.op = "Commit" => Amount[c.t] > 0
      <3>1. CASE c \in Direct
        BY <3>1, ConstantsAssumption DEF ConstantsAssumption
      <3>2. CASE c \notin Direct /\ c.op = "Commit"
        <4>1. c.t \in Transfer
          BY <3>2, CommandFields
        <4>2. domainLog[<<Cmd("Reserve", c.t), "PayerFundsReserved">>] > 0
          BY <1>3, <3>2 DEF Produce, CanProduce
        <4> QED
          BY <4>1, <4>2 DEF PositiveReserved
      <3> QED
        BY <3>1, <3>2
    <2>3. topic' = [topic EXCEPT ![q] = Append(@, c)] /\ cur' = cur
      BY <1>3 DEF Produce, handVars
    <2>4. ASSUME NEW r \in Partition, NEW i \in DOMAIN topic'[r],
                 topic'[r][i].op = "Commit"
          PROVE  Amount[topic'[r][i].t] > 0
      <3> HIDE DEF q
      <3>1. CASE r # q
        BY <2>3, <2>4, <3>1 DEF TypeInv, TypeOK
      <3>2. CASE r = q
        <4>1. topic[q] \in Seq(Command) /\ topic'[q] = Append(topic[q], c)
          BY <2>1, <2>3 DEF TypeInv, TypeOK
        <4>2. CASE i \in DOMAIN topic[q]
          BY <2>1, <2>4, <3>2, <4>1, <4>2
        <4>3. CASE i = Len(topic[q]) + 1
          BY <2>2, <2>4, <3>2, <4>1, <4>3
        <4> QED
          BY <3>2, <4>1, <4>2, <4>3
      <3> QED
        BY <3>1, <3>2
    <2> QED
      BY <2>3, <2>4
  <1>4. ASSUME NEW p \in Proc, Work(p) PROVE PositiveCommits'
    <2>1. ASSUME NEW q \in Partition, Fetch(p, q) PROVE PositiveCommits'
      <3>1. /\ next[q] + 1 \in DOMAIN topic[q]
            /\ cur'[p] = topic[q][next[q] + 1]
            /\ topic' = topic /\ \A r \in Proc \ {p} : cur'[r] = cur[r]
        BY <2>1 DEF Fetch, TypeInv, TypeOK
      <3> QED
        BY <3>1
    <2>2. CASE LoadRoot(p)
      BY <1>1, <2>2 DEF LoadRoot, groupVars
    <2>3. CASE Handle(p)
      BY <1>1, <2>3 DEF Handle, HandleCreate, RefuseUnknown, HandleReserve,
                        HandleCommit, HandleSnapshot, Decide, groupVars
    <2>4. CASE Publish(p) \/ Republish(p)
      BY <1>1, <2>4 DEF Publish, Republish, PublishTo, groupVars
    <2>5. CASE Store(p)
      BY <1>1, <2>5 DEF Store, StoreStep, groupVars
    <2>6. CASE Ack(p)
      BY <1>2, <2>6 DEF Ack
    <2> QED
      BY <1>4, <2>1, <2>2, <2>3, <2>4, <2>5, <2>6 DEF Work
  <1>5. ASSUME NEW p \in Proc, Fail(p) PROVE PositiveCommits'
    <2>1. CASE ReadFails(p) \/ PublishFails(p) \/ RepublishFails(p) \/ StoreFails(p)
      BY <1>1, <2>1 DEF ReadFails, PublishFails, RepublishFails, PublishTo,
                        StoreFails, StoreStep, groupVars
    <2>2. CASE AckFails(p) \/ Crash(p)
      BY <1>2, <2>2 DEF AckFails, Crash, groupVars
    <2>3. ASSUME NEW q \in Partition, Rebalance(q, p) PROVE PositiveCommits'
      BY <1>1, <2>3 DEF Rebalance, handVars
    <2> QED
      BY <1>5, <2>1, <2>2, <2>3 DEF Fail
  <1>6. CASE UNCHANGED vars
    BY <1>1, <1>6 DEF vars
  <1> QED
    BY <1>3, <1>4, <1>5, <1>6 DEF Next

\* The cap on the copies a process can see, split for the steps that follow.
CopiesCapped ==
    /\ \A x \in Participant : redis[x] # Absent => Capped(x, redis[x])
    /\ \A p \in Proc, x \in Participant :
          memory[p][x] # Absent => Capped(x, memory[p][x])

LogsCapped ==
    \A x \in Participant : \A v \in PublishedPositions(x) : Capped(x, v)

LEMMA CapSplit == PositionsCapped <=> CopiesCapped /\ LogsCapped
  BY DEF PositionsCapped, CopiesCapped, LogsCapped, PublishedPositions

\* Setting the root of the command in hand to a capped position caps its copies.
LEMMA SetCapped ==
    ASSUME TypeInv, CopiesCapped, RootsCapped, NEW p \in Proc,
           cur[p] \in Command, pc[p] = "handle", root[p] # Absent, NEW pos \in Int,
           Capped(Root(cur[p]), pos),
           \/ SetRoot(p, pos)
           \/ cur[p].op \in {"Reserve", "Commit"} /\ SetPositions(p, pos)
    PROVE  CopiesCapped' /\ root'[p] = pos /\ \A r \in Proc \ {p} : root'[r] = root[r]
  <1> DEFINE x == Root(cur[p])
  <1>1. x \in Participant /\ Capped(x, root[p])
    BY RootType DEF RootsCapped
  <1>2. PICK v \in {root[p], pos} : redis' \in {redis, [redis EXCEPT ![x] = v]}
    BY DEF SetRoot, SetPositions, NextTick
  <1>3. \A z \in Participant : redis'[z] # Absent => Capped(z, redis'[z])
    BY <1>1, <1>2 DEF CopiesCapped, TypeInv, TypeOK
  <1>4. \A r \in Proc, z \in Participant :
            memory'[r][z] # Absent => Capped(z, memory'[r][z])
    <2>1. CASE SetRoot(p, pos)
      BY <1>1, <2>1 DEF SetRoot, CopiesCapped, TypeInv, TypeOK
    <2>2. CASE cur[p].op \in {"Reserve", "Commit"} /\ SetPositions(p, pos)
      <3> DEFINE y == Counterparty(cur[p])
      <3>1. y \in Participant /\ (LookUp(p, y) # Absent => Capped(y, LookUp(p, y)))
        BY <2>2, CounterpartyType DEF LookUp, CopiesCapped
      <3>2. memory' = [memory EXCEPT ![p] = [z \in Participant |->
                          IF z = x THEN pos ELSE IF z = y THEN LookUp(p, y)
                                            ELSE memory[p][z]]]
        BY <2>2 DEF SetPositions
      <3> HIDE DEF x, y
      <3> QED
        BY <1>1, <3>1, <3>2 DEF x, CopiesCapped, TypeInv, TypeOK
    <2> QED
      BY <2>1, <2>2
  <1>5. root' = [root EXCEPT ![p] = pos]
    BY DEF SetRoot, SetPositions
  <1>6. CopiesCapped'
    BY <1>3, <1>4 DEF CopiesCapped
  <1> QED
    BY <1>5, <1>6 DEF TypeInv, TypeOK

\* Delivered state events and snapshots carry the root's position.
LEMMA DeliverCapped ==
    ASSUME TypeInv, LogsCapped, RootsCapped, NEW p \in Proc, NEW D, Deliver(p, D),
           pc[p] \in {"publish", "republish"}
    PROVE  LogsCapped'
  <1> DEFINE x == Root(cur[p])
  <1>1. x \in Participant
    BY RootType DEF TypeInv, TypeOK
  <1>2. stateEvt[p] # "none" => root[p] \in Int /\ Capped(x, root[p])
    BY ConstantTypes DEF TypeInv, ControlOK, RootsCapped
  <1>3. ASSUME NEW z \in Participant, NEW i \in DOMAIN stateLog'[z]
        PROVE  Capped(z, stateLog'[z][i])
    <2>1. \A j \in DOMAIN stateLog[z] : Capped(z, stateLog[z][j])
      BY DEF LogsCapped, PublishedPositions
    <2>2. stateLog[z] \in Seq(Int)
      BY DEF TypeInv, TypeOK, Pos
    <2>3. CASE stateLog'[z] = stateLog[z]
      BY <1>3, <2>1, <2>3
    <2>4. CASE /\ z = x /\ stateEvt[p] # "none"
               /\ stateLog'[z] = Append(stateLog[z], root[p])
      BY <1>2, <1>3, <2>1, <2>2, <2>4
    <2>5. \/ stateLog'[z] = stateLog[z]
          \/ /\ z = x /\ stateEvt[p] # "none"
             /\ stateLog'[z] = Append(stateLog[z], root[p])
      BY <1>1 DEF Deliver, TypeInv, TypeOK
    <2> QED
      BY <2>3, <2>4, <2>5
  <1>4. ASSUME NEW z \in Participant, NEW i \in DOMAIN snapshots'[z]
        PROVE  Capped(z, snapshots'[z][i])
    <2>1. \A j \in DOMAIN snapshots[z] : Capped(z, snapshots[z][j])
      BY DEF LogsCapped, PublishedPositions
    <2>2. snapshots[z] \in Seq(Int)
      BY DEF TypeInv, TypeOK, Pos
    <2>3. CASE snapshots'[z] = snapshots[z]
      BY <1>4, <2>1, <2>3
    <2>4. CASE /\ z = x /\ stateEvt[p] # "none"
               /\ snapshots'[z] = Append(snapshots[z], root[p])
      BY <1>2, <1>4, <2>1, <2>2, <2>4
    <2>5. \/ snapshots'[z] = snapshots[z]
          \/ /\ z = x /\ stateEvt[p] # "none"
             /\ snapshots'[z] = Append(snapshots[z], root[p])
      BY <1>1 DEF Deliver, TypeInv, TypeOK
    <2> QED
      BY <2>3, <2>4, <2>5
  <1> QED
    BY <1>3, <1>4 DEF LogsCapped, PublishedPositions

\* The handlers rule on the copy they then publish.
LEMMA HandleCapped ==
    ASSUME CapInv, CopiesCapped, LogsCapped, NEW p \in Proc, Handle(p)
    PROVE  RootsCapped' /\ CopiesCapped' /\ LogsCapped'
  <1> USE DEF CapInv
  <1> DEFINE x == Root(cur[p])
             t == cur[p].t
  <1>1. pc[p] = "handle" /\ cur[p] \in Command /\ x \in Participant
    BY RootType DEF Handle, HandleCreate, RefuseUnknown, HandleReserve, HandleCommit,
                    HandleSnapshot, TypeInv, TypeOK
  <1>2. cur' = cur /\ \A r \in Proc \ {p} : pc'[r] = pc[r]
    BY DEF Handle, HandleCreate, RefuseUnknown, HandleReserve, HandleCommit,
           HandleSnapshot, Decide, TypeInv, TypeOK
  <1>3. LogsCapped'
    BY DEF Handle, HandleCreate, RefuseUnknown, HandleReserve, HandleCommit,
           HandleSnapshot, Decide, logVars, LogsCapped, PublishedPositions
  <1>4. root[p] # Absent => root[p] \in Int /\ Capped(x, root[p])
    BY <1>1 DEF RootsCapped, TypeInv, TypeOK, MaybePos, Pos
  <1>5. ASSUME CopiesCapped', root'[p] # Absent => Capped(x, root'[p]),
               \A r \in Proc \ {p} : root'[r] = root[r]
        PROVE  RootsCapped' /\ CopiesCapped' /\ LogsCapped'
    BY <1>2, <1>3, <1>5 DEF RootsCapped
  <1>6. ASSUME NEW pos \in Int, Capped(x, pos), root[p] # Absent,
               \/ SetRoot(p, pos)
               \/ cur[p].op \in {"Reserve", "Commit"} /\ SetPositions(p, pos)
        PROVE  RootsCapped' /\ CopiesCapped' /\ LogsCapped'
    BY <1>1, <1>5, <1>6, SetCapped
  <1>7. CASE HandleCreate(p)
    <2>1. CASE root[p] # Absent
      BY <1>4, <1>6, <1>7, <2>1 DEF HandleCreate
    <2>2. CASE root[p] = Absent
      <3>1. /\ root' = [root EXCEPT ![p] = InitialPosition[cur[p].id]]
            /\ UNCHANGED <<memory, redis>> /\ cur[p].op = "Create"
        BY <1>7, <2>2 DEF HandleCreate, SetRoot
      <3>2. x = cur[p].id /\ root'[p] = InitialPosition[x]
        BY <3>1 DEF Root, TypeInv, TypeOK
      <3>3. Capped(x, root'[p])
        BY <1>1, <3>2, ConstantTypes DEF Capped
      <3>4. \A r \in Proc \ {p} : root'[r] = root[r]
        BY <3>1 DEF TypeInv, TypeOK
      <3>5. CopiesCapped'
        BY <3>1 DEF CopiesCapped
      <3> QED
        BY <1>5, <3>3, <3>4, <3>5
    <2> QED
      BY <2>1, <2>2
  <1>8. CASE RefuseUnknown(p)
    <2>1. CopiesCapped' /\ root' = root
      BY <1>8 DEF RefuseUnknown, CopiesCapped
    <2> QED
      BY <1>4, <1>5, <2>1
  <1>9. CASE HandleReserve(p)
    <2>1. /\ t \in Transfer /\ x = Payer[t] /\ Amount[t] \in Int
          /\ cur[p].op \in {"Reserve", "Commit"} /\ root[p] # Absent
      BY <1>1, <1>9, CommandFields, ConstantTypes DEF HandleReserve, Root
    <2>2. CASE SetPositions(p, root[p])
      BY <1>4, <1>6, <2>1, <2>2
    <2>3. CASE /\ ReserveRuling(x, t, root[p]) = "PayerFundsReserved"
               /\ SetPositions(p, root[p] + Amount[t])
      <3>1. Capped(x, root[p] + Amount[t]) /\ root[p] + Amount[t] \in Int
        BY <1>1, <1>4, <2>1, <2>3, GrantedRuling
      <3> QED
        BY <1>6, <2>1, <2>3, <3>1
    <2> QED
      BY <1>9, <2>1, <2>2, <2>3 DEF HandleReserve
  <1>10. CASE HandleCommit(p)
    <2>1. /\ t \in Transfer /\ Amount[t] \in Int
          /\ cur[p].op = "Commit" /\ root[p] # Absent
      BY <1>1, <1>10, CommandFields, ConstantTypes DEF HandleCommit
    <2>2. CASE SetRoot(p, root[p]) \/ SetPositions(p, root[p])
      BY <1>4, <1>6, <2>1, <2>2
    <2>3. CASE SetPositions(p, root[p] - Amount[t])
      <3>1. Amount[t] > 0
        BY <1>1, <2>1, ConstantTypes DEF PositiveCommits
      <3>2. root[p] - Amount[t] \in Int /\ root[p] - Amount[t] <= root[p]
        BY <1>4, <2>1, <3>1
      <3>3. Capped(x, root[p] - Amount[t])
        BY <1>1, <1>4, <2>1, <3>2, CappedDown
      <3> QED
        BY <1>6, <2>1, <2>3, <3>2, <3>3
    <2> QED
      BY <1>10, <2>2, <2>3 DEF HandleCommit
  <1>11. CASE HandleSnapshot(p)
    <2>1. CASE root[p] # Absent
      BY <1>4, <1>6, <1>11, <2>1 DEF HandleSnapshot
    <2>2. CASE root[p] = Absent
      <3>1. UNCHANGED <<root, memory, redis>>
        BY <1>11, <2>2 DEF HandleSnapshot
      <3>2. CopiesCapped'
        BY <3>1 DEF CopiesCapped
      <3> QED
        BY <1>4, <1>5, <3>1, <3>2
    <2> QED
      BY <2>1, <2>2
  <1> QED
    BY <1>7, <1>8, <1>9, <1>10, <1>11 DEF Handle

LEMMA CapStep ==
    ASSUME CapInv, [Next]_vars
    PROVE  CapInv'
  <1> DEFINE Cap == RootsCapped /\ CopiesCapped /\ LogsCapped
  <1>1. TypeInv /\ TypeInv' /\ PositiveReserved' /\ PositiveCommits'
    BY TypeStep, ReservedStep, CommitsStep DEF CapInv
  <1>2. RootsCapped /\ CopiesCapped /\ LogsCapped
    BY CapSplit DEF CapInv
  <1>3. ASSUME UNCHANGED <<memory, redis>> PROVE CopiesCapped'
    BY <1>2, <1>3 DEF CopiesCapped
  <1>4. ASSUME UNCHANGED logVars PROVE LogsCapped'
    BY <1>2, <1>4 DEF LogsCapped, PublishedPositions, logVars
  <1>5. ASSUME NEW p \in Proc, NEW step, pc' = [pc EXCEPT ![p] = step],
               UNCHANGED <<cur, root>>,
               pc[p] \notin {"idle", "load", "halted"}
        PROVE  RootsCapped'
    BY <1>1, <1>2, <1>5 DEF RootsCapped, TypeInv, TypeOK
  <1>6. ASSUME NEW p \in Proc, NEW step \in {"idle", "halted"}, LetGo(p, step)
        PROVE  RootsCapped'
    BY <1>1, <1>2, <1>6 DEF LetGo, RootsCapped, TypeInv, TypeOK
  <1>7. ASSUME NEW c \in Command, Produce(c) PROVE Cap'
    <2>1. RootsCapped'
      BY <1>2, <1>7 DEF Produce, handVars, RootsCapped
    <2> QED
      BY <1>3, <1>4, <1>7, <2>1 DEF Produce
  <1>8. ASSUME NEW p \in Proc, NEW q \in Partition, Fetch(p, q) PROVE Cap'
    <2>1. RootsCapped'
      BY <1>1, <1>2, <1>8 DEF Fetch, RootsCapped, TypeInv, TypeOK
    <2> QED
      BY <1>3, <1>4, <1>8, <2>1 DEF Fetch
  <1>9. ASSUME NEW p \in Proc, LoadRoot(p) PROVE Cap'
    <2> DEFINE x == Root(cur[p])
    <2>1. x \in Participant
      BY <1>1, <1>9, RootType DEF LoadRoot, TypeInv, TypeOK
    <2>2. PICK v : /\ v # Absent => Capped(x, v)
                   /\ root' = [root EXCEPT ![p] = v]
                   /\ memory' \in {memory, [memory EXCEPT ![p][x] = v]}
      <3>1. \A v \in PublishedPositions(x) : Capped(x, v)
        BY <1>2, <2>1 DEF LogsCapped
      <3>2. /\ memory[p][x] # Absent => Capped(x, memory[p][x])
            /\ redis[x] # Absent => Capped(x, redis[x])
        BY <1>2, <2>1 DEF CopiesCapped
      <3> QED
        BY <1>9, <3>1, <3>2 DEF LoadRoot
    <2>3. /\ pc' = [pc EXCEPT ![p] = "handle"]
          /\ UNCHANGED <<cur, redis, logVars>>
      BY <1>9 DEF LoadRoot
    <2>4. RootsCapped'
      BY <1>1, <1>2, <2>2, <2>3 DEF RootsCapped, TypeInv, TypeOK
    <2>5. CopiesCapped'
      <3>1. \A r \in Proc, z \in Participant :
                memory'[r][z] # Absent => Capped(z, memory'[r][z])
        <4> HIDE DEF x
        <4>1. CASE memory' = memory
          BY <1>2, <4>1 DEF CopiesCapped
        <4>2. CASE memory' = [memory EXCEPT ![p][x] = v]
          BY <1>1, <1>2, <2>1, <2>2, <4>2 DEF CopiesCapped, TypeInv, TypeOK
        <4> QED
          BY <2>2, <4>1, <4>2
      <3> QED
        BY <1>2, <2>3, <3>1 DEF CopiesCapped
    <2> QED
      BY <1>4, <2>3, <2>4, <2>5
  <1>10. ASSUME NEW p \in Proc, Handle(p) PROVE Cap'
    BY <1>2, <1>10, HandleCapped
  <1>11. ASSUME NEW p \in Proc, NEW D, NEW step, Deliver(p, D), PublishTo(p, step),
                pc[p] \in {"publish", "republish"}
         PROVE  Cap'
    <2>1. LogsCapped'
      BY <1>1, <1>2, <1>11, DeliverCapped
    <2> QED
      BY <1>3, <1>5, <1>11, <2>1 DEF PublishTo
  <1>12. ASSUME NEW p \in Proc, \/ Publish(p)
                                \/ Republish(p)
                                \/ PublishFails(p)
                                \/ RepublishFails(p)
         PROVE  Cap'
    BY <1>11, <1>12 DEF Publish, Republish, PublishFails, RepublishFails
  <1>13. ASSUME NEW p \in Proc, Store(p) \/ StoreFails(p) PROVE Cap'
    <2> DEFINE x == Root(cur[p])
    <2>1. StoreStep(p) /\ redis' \in {redis, Stored(p)}
      BY <1>13 DEF Store, StoreFails
    <2>2. x \in Participant /\ root[p] \in Int /\ Capped(x, root[p])
      <3>1. pc[p] = "store" /\ cur[p] \in Command /\ root[p] \in Int
        BY <1>1, <2>1 DEF StoreStep, TypeInv, TypeOK, ControlOK
      <3>2. root[p] # Absent
        BY <3>1, ConstantTypes
      <3> QED
        BY <1>2, <3>1, <3>2, RootType DEF RootsCapped
    <2>3. CopiesCapped'
      <3>1. \A z \in Participant : redis'[z] # Absent => Capped(z, redis'[z])
        BY <1>1, <1>2, <2>1, <2>2 DEF Stored, CopiesCapped, TypeInv, TypeOK
      <3>2. memory' = [memory EXCEPT ![p][x] = root[p]]
        BY <2>1 DEF StoreStep
      <3>3. \A r \in Proc, z \in Participant :
                memory'[r][z] # Absent => Capped(z, memory'[r][z])
        BY <1>1, <1>2, <2>2, <3>2 DEF CopiesCapped, TypeInv, TypeOK
      <3> QED
        BY <3>1, <3>3 DEF CopiesCapped
    <2> QED
      BY <1>4, <1>5, <2>1, <2>3 DEF StoreStep
  <1>14. ASSUME NEW p \in Proc, ReadFails(p) PROVE Cap'
    <2>1. /\ pc' = [pc EXCEPT ![p] = "commit"] /\ UNCHANGED <<cur, logVars>>
          /\ cur[p] \in Command
      BY <1>1, <1>14 DEF ReadFails, TypeInv, TypeOK
    <2>2. CASE pc[p] = "load" /\ UNCHANGED <<root, memory, redis>>
      <3>1. root[p] = Absent
        BY <1>1, <2>2 DEF TypeInv, ControlOK
      <3>2. RootsCapped'
        BY <1>1, <1>2, <2>1, <2>2, <3>1 DEF RootsCapped, TypeInv, TypeOK
      <3> QED
        BY <1>3, <1>4, <2>1, <2>2, <3>2
    <2>3. CASE pc[p] = "handle" /\ root[p] # Absent /\ SetRoot(p, root[p])
      <3>1. root[p] \in Int /\ Capped(Root(cur[p]), root[p])
        <4>1. root[p] \in Int
          BY <1>1, <2>3 DEF TypeInv, TypeOK, MaybePos, Pos
        <4> QED
          BY <1>2, <2>3, <4>1 DEF RootsCapped
      <3>2. CopiesCapped'
        BY <1>1, <1>2, <2>1, <2>3, <3>1, SetCapped
      <3>3. root' = root
        BY <1>1, <2>3 DEF SetRoot, TypeInv, TypeOK
      <3> QED
        BY <1>4, <1>5, <2>1, <2>3, <3>2, <3>3
    <2> QED
      BY <1>14, <2>2, <2>3 DEF ReadFails
  <1>15. ASSUME NEW p \in Proc, Ack(p) \/ AckFails(p) PROVE Cap'
    BY <1>3, <1>4, <1>6, <1>15 DEF Ack, AckFails
  <1>16. ASSUME NEW p \in Proc, Crash(p) PROVE Cap'
    <2>1. CopiesCapped'
      BY <1>1, <1>2, <1>16 DEF Crash, CopiesCapped, TypeInv, TypeOK
    <2> QED
      BY <1>4, <1>6, <1>16, <2>1 DEF Crash
  <1>17. ASSUME NEW p \in Proc, NEW q \in Partition, Rebalance(q, p) PROVE Cap'
    <2>1. RootsCapped'
      BY <1>2, <1>17 DEF Rebalance, handVars, RootsCapped
    <2> QED
      BY <1>3, <1>4, <1>17, <2>1 DEF Rebalance
  <1>18. ASSUME UNCHANGED vars PROVE Cap'
    <2>1. RootsCapped'
      BY <1>2, <1>18 DEF vars, RootsCapped
    <2> QED
      BY <1>3, <1>4, <1>18, <2>1 DEF vars, logVars
  <1>19. Cap'
    BY <1>7, <1>8, <1>9, <1>10, <1>12, <1>13, <1>14, <1>15, <1>16, <1>17, <1>18
       DEF Next, Work, Fail
  <1> QED
    BY <1>1, <1>19, CapSplit DEF CapInv, PositionsCapped, CopiesCapped, LogsCapped,
                                PublishedPositions

\* No copy of a position - in the memory of a process, in redis, in a state event
\* or in a snapshot - ever exceeds the net debit cap, whatever fails and however
\* stale the copy that ParticipantEntity.canReserveFunds rules on.
THEOREM CapHolds == Spec => []PositionsCapped
  <1>1. CapInv /\ [Next]_vars => CapInv'
    BY CapStep
  <1>2. CapInv => PositionsCapped
    BY DEF CapInv
  <1> QED
    BY InitCapInv, <1>1, <1>2, PTL DEF Spec

--------------------------------------------------------------------------------
(* redis against the event stream *)

LEMMA RegisteredType == Registered \subseteq Participant
  BY ConstantsAssumption DEF ConstantsAssumption

LEMMA InitStreamInv == Init => StreamInv
  <1> SUFFICES ASSUME Init PROVE StreamInv
    OBVIOUS
  <1>1. TypeInv
    BY InitTypeInv
  <1>2. ASSUME NEW x \in Registered PROVE redis[x] \in PublishedPositions(x)
    <2>1. x \in Participant
      BY RegisteredType
    <2>2. redis[x] = InitialPosition[x] /\ stateLog[x] = <<InitialPosition[x]>>
      BY <2>1 DEF Init
    <2>3. 1 \in DOMAIN stateLog[x] /\ stateLog[x][1] = redis[x]
      BY <2>2
    <2> QED
      BY <2>3 DEF PublishedPositions
  <1>3. StoresPublished /\ NoReplayPending
    BY DEF Init, StoresPublished, NoReplayPending
  <1> QED
    BY <1>1, <1>2, <1>3 DEF StreamInv, PersistedWasPublished

LEMMA AppendKeeps ==
    ASSUME NEW s \in Seq(Int), NEW v \in Int, NEW s2, s2 = s \/ s2 = Append(s, v)
    PROVE  \A i \in DOMAIN s : i \in DOMAIN s2 /\ s2[i] = s[i]
  OBVIOUS

\* Positions are only ever added to the stream.
LEMMA DeliverGrows ==
    ASSUME TypeInv, NEW p \in Proc, cur[p] \in Command, NEW D, Deliver(p, D),
           NEW x \in Participant
    PROVE  PublishedPositions(x) \subseteq PublishedPositions(x)'
  <1>1. Root(cur[p]) \in Participant
    BY RootType
  <1>2. stateEvt[p] # "none" => root[p] \in Int
    BY DEF TypeInv, ControlOK
  <1>3. stateLog[x] \in Seq(Int) /\ snapshots[x] \in Seq(Int)
    BY DEF TypeInv, TypeOK, Pos
  <1>4. \A i \in DOMAIN stateLog[x] :
            i \in DOMAIN stateLog'[x] /\ stateLog'[x][i] = stateLog[x][i]
    <2>1. \/ stateLog'[x] = stateLog[x]
          \/ root[p] \in Int /\ stateLog'[x] = Append(stateLog[x], root[p])
      BY <1>1, <1>2 DEF Deliver, TypeInv, TypeOK
    <2> QED
      BY <1>3, <2>1, AppendKeeps
  <1>5. \A i \in DOMAIN snapshots[x] :
            i \in DOMAIN snapshots'[x] /\ snapshots'[x][i] = snapshots[x][i]
    <2>1. \/ snapshots'[x] = snapshots[x]
          \/ root[p] \in Int /\ snapshots'[x] = Append(snapshots[x], root[p])
      BY <1>1, <1>2 DEF Deliver, TypeInv, TypeOK
    <2> QED
      BY <1>3, <2>1, AppendKeeps
  <1> QED
    BY <1>4, <1>5 DEF PublishedPositions

\* A publication without failure puts the root's position into the stream.
LEMMA DeliverPublishes ==
    ASSUME TypeInv, NEW p \in Proc, cur[p] \in Command,
           Deliver(p, {"domain", "state"}), stateEvt[p] # "none",
           NEW x, x = Root(cur[p])
    PROVE  root[p] \in PublishedPositions(x)'
  <1>1. x \in Participant /\ root[p] \in Int
    BY RootType DEF TypeInv, ControlOK
  <1>2. stateLog[x] \in Seq(Int) /\ snapshots[x] \in Seq(Int)
    BY <1>1 DEF TypeInv, TypeOK, Pos
  <1>3. \/ stateLog'[x] = Append(stateLog[x], root[p])
        \/ snapshots'[x] = Append(snapshots[x], root[p])
    BY <1>1 DEF Deliver, TypeInv, TypeOK, StateEventName
  <1>4. CASE stateLog'[x] = Append(stateLog[x], root[p])
    <2>1. /\ Len(stateLog[x]) + 1 \in DOMAIN stateLog'[x]
          /\ stateLog'[x][Len(stateLog[x]) + 1] = root[p]
      BY <1>1, <1>2, <1>4
    <2>2. root[p] \in {stateLog'[x][i] : i \in DOMAIN stateLog'[x]}
      BY <2>1
    <2> QED
      BY <2>2 DEF PublishedPositions
  <1>5. CASE snapshots'[x] = Append(snapshots[x], root[p])
    <2>1. /\ Len(snapshots[x]) + 1 \in DOMAIN snapshots'[x]
          /\ snapshots'[x][Len(snapshots[x]) + 1] = root[p]
      BY <1>1, <1>2, <1>5
    <2>2. root[p] \in {snapshots'[x][i] : i \in DOMAIN snapshots'[x]}
      BY <2>1
    <2> QED
      BY <2>2 DEF PublishedPositions
  <1> QED
    BY <1>3, <1>4, <1>5

LEMMA StreamStep ==
    ASSUME StreamInv, [Next]_vars
    PROVE  StreamInv'
  <1> DEFINE Str == PersistedWasPublished /\ StoresPublished /\ NoReplayPending
  <1>1. TypeInv /\ TypeInv'
    BY TypeStep DEF StreamInv
  <1>2. PersistedWasPublished /\ StoresPublished /\ NoReplayPending
    BY DEF StreamInv
  <1>3. \A x \in Registered : redis[x] # Absent
    <2> SUFFICES ASSUME NEW x \in Registered PROVE redis[x] # Absent
      OBVIOUS
    <2>1. x \in Participant /\ redis[x] \in PublishedPositions(x)
      BY <1>2, RegisteredType DEF PersistedWasPublished
    <2>2. \A v \in PublishedPositions(x) : v \in Int
      BY <1>1, <2>1 DEF PublishedPositions, TypeInv, TypeOK, Pos
    <2> QED
      BY <2>1, <2>2, ConstantTypes
  \* The three parts from what a step does to the variables they read.
  <1>4. ASSUME UNCHANGED <<redis, logVars>> PROVE PersistedWasPublished'
    BY <1>2, <1>4 DEF PersistedWasPublished, PublishedPositions, logVars
  <1>5. ASSUME NEW p \in Proc, NEW step, pc' = [pc EXCEPT ![p] = step],
               step \notin {"handle", "store"}, UNCHANGED logVars,
               \A r \in Proc \ {p} : /\ cur'[r] = cur[r]
                                     /\ root'[r] = root[r]
                                     /\ memory'[r] = memory[r]
        PROVE  StoresPublished' /\ NoReplayPending'
    <2>1. ASSUME NEW r \in Proc, pc'[r] \in {"handle", "store"}
          PROVE  r # p /\ pc'[r] = pc[r]
      BY <1>1, <1>5, <2>1 DEF TypeInv, TypeOK
    <2>2. StoresPublished'
      BY <1>2, <1>5, <2>1 DEF StoresPublished, PublishedPositions, logVars
    <2>3. NoReplayPending'
      BY <1>2, <1>5, <2>1 DEF NoReplayPending, Replayed
    <2> QED
      BY <2>2, <2>3
  <1>6. ASSUME NEW p \in Proc, NEW step \in {"idle", "halted"}, LetGo(p, step),
               UNCHANGED <<logVars, redis>>,
               \A r \in Proc \ {p} : memory'[r] = memory[r]
        PROVE  Str'
    <2>1. /\ pc' = [pc EXCEPT ![p] = step]
          /\ \A r \in Proc \ {p} : cur'[r] = cur[r] /\ root'[r] = root[r]
      BY <1>1, <1>6 DEF LetGo, TypeInv, TypeOK
    <2> QED
      BY <1>4, <1>5, <1>6, <2>1
  <1>7. ASSUME UNCHANGED <<pc, cur, root, memory, redis, logVars>> PROVE Str'
    BY <1>2, <1>7 DEF PersistedWasPublished, StoresPublished, NoReplayPending,
                      Replayed, PublishedPositions, logVars
  <1>8. ASSUME NEW c \in Command, Produce(c) PROVE Str'
    BY <1>7, <1>8 DEF Produce, handVars
  <1>9. ASSUME NEW p \in Proc, NEW q \in Partition, Fetch(p, q) PROVE Str'
    <2>1. /\ pc' = [pc EXCEPT ![p] = "load"] /\ UNCHANGED <<root, memory, redis, logVars>>
          /\ \A r \in Proc \ {p} : cur'[r] = cur[r]
      BY <1>1, <1>9 DEF Fetch, TypeInv, TypeOK
    <2> QED
      BY <1>4, <1>5, <2>1
  <1>10. ASSUME NEW p \in Proc, LoadRoot(p) PROVE Str'
    <2> DEFINE x == Root(cur[p])
    <2>1. /\ pc' = [pc EXCEPT ![p] = "handle"] /\ UNCHANGED <<cur, redis, logVars>>
          /\ x \in Participant
      BY <1>1, <1>10, RootType DEF LoadRoot, TypeInv, TypeOK
    <2>2. ASSUME NEW r \in Proc \ {p}
          PROVE  root'[r] = root[r] /\ memory'[r] = memory[r] /\ pc'[r] = pc[r]
      BY <1>1, <1>10, <2>1 DEF LoadRoot, TypeInv, TypeOK
    <2>3. x \in Registered => memory'[p][x] # Absent
      <3>1. ASSUME x \in Registered
            PROVE  \E v \in {memory[p][x], redis[x]} :
                      v # Absent /\ memory' = [memory EXCEPT ![p][x] = v]
        BY <1>3, <1>10, <3>1 DEF LoadRoot
      <3> QED
        BY <1>1, <2>1, <3>1 DEF TypeInv, TypeOK
    <2>4. StoresPublished'
      <3>1. ASSUME NEW r \in Proc, pc'[r] = "store"
            PROVE  /\ pc[r] = "store" /\ root'[r] = root[r] /\ cur'[r] = cur[r]
                   /\ UNCHANGED <<stateLog, snapshots>>
        <4>1. r # p
          BY <1>1, <2>1, <3>1 DEF TypeInv, TypeOK
        <4> QED
          BY <2>1, <2>2, <3>1, <4>1 DEF logVars
      <3> QED
        BY <1>2, <3>1 DEF StoresPublished, PublishedPositions
    <2>5. NoReplayPending'
      BY <1>2, <2>1, <2>2, <2>3 DEF NoReplayPending, Replayed
    <2> QED
      BY <1>4, <2>1, <2>4, <2>5
  <1>11. ASSUME NEW p \in Proc, pc[p] = "handle", NEW step \in {"publish", "commit"},
                pc' = [pc EXCEPT ![p] = step], UNCHANGED <<cur, logVars>>,
                \/ \E pos : SetRoot(p, pos) \/ SetPositions(p, pos)
                \/ UNCHANGED <<memory, redis>> /\ \E v : root' = [root EXCEPT ![p] = v]
         PROVE  Str'
    <2>1. \A r \in Proc \ {p} : root'[r] = root[r] /\ memory'[r] = memory[r]
      BY <1>1, <1>11 DEF SetRoot, SetPositions, TypeInv, TypeOK
    <2>2. ASSUME NEW z \in Registered PROVE redis'[z] = redis[z]
      <3>1. \/ redis' = redis
            \/ Replayed(p) /\ \E v : redis' = [redis EXCEPT ![Root(cur[p])] = v]
        BY <1>11 DEF SetRoot, SetPositions, NextTick
      <3>2. z # Root(cur[p]) \/ ~Replayed(p)
        BY <1>2, <1>11 DEF NoReplayPending
      <3> QED
        BY <1>1, <3>1, <3>2, RegisteredType DEF TypeInv, TypeOK
    <2>3. PersistedWasPublished'
      BY <1>2, <1>11, <2>2 DEF PersistedWasPublished, PublishedPositions, logVars
    <2> QED
      BY <1>5, <1>11, <2>1, <2>3
  <1>12. ASSUME NEW p \in Proc, Handle(p) PROVE Str'
    <2>1. CASE HandleCreate(p)
      BY <1>11, <2>1 DEF HandleCreate, Decide
    <2>2. CASE RefuseUnknown(p)
      <3>1. root' = [root EXCEPT ![p] = root[p]]
        BY <1>1, <2>2 DEF RefuseUnknown, TypeInv, TypeOK
      <3> QED
        BY <1>11, <2>2, <3>1 DEF RefuseUnknown, Decide
    <2>3. CASE HandleReserve(p)
      BY <1>11, <2>3 DEF HandleReserve, Decide
    <2>4. CASE HandleCommit(p)
      BY <1>11, <2>4 DEF HandleCommit, Decide
    <2>5. CASE HandleSnapshot(p)
      <3>1. root = [root EXCEPT ![p] = root[p]]
        BY <1>1 DEF TypeInv, TypeOK
      <3> QED
        BY <1>11, <2>5, <3>1 DEF HandleSnapshot, Decide
    <2> QED
      BY <1>12, <2>1, <2>2, <2>3, <2>4, <2>5 DEF Handle
  <1>13. ASSUME NEW p \in Proc, NEW D, Deliver(p, D), pc[p] \in {"publish", "republish"},
                NEW step \in {"republish", "store", "commit"}, PublishTo(p, step),
                step = "store" => D = {"domain", "state"} /\ stateEvt[p] # "none"
         PROVE  Str'
    <2>1. cur[p] \in Command /\ UNCHANGED <<cur, root, memory, redis>>
          /\ pc' = [pc EXCEPT ![p] = step]
      BY <1>1, <1>13 DEF PublishTo, groupVars, TypeInv, TypeOK
    <2>2. \A x \in Participant : PublishedPositions(x) \subseteq PublishedPositions(x)'
      BY <1>1, <1>13, <2>1, DeliverGrows
    <2>3. PersistedWasPublished'
      <3> SUFFICES ASSUME NEW x \in Registered
                   PROVE  redis'[x] \in PublishedPositions(x)'
        BY DEF PersistedWasPublished
      <3>1. redis[x] \in PublishedPositions(x) /\ x \in Participant /\ redis'[x] = redis[x]
        BY <1>2, <2>1, RegisteredType DEF PersistedWasPublished
      <3> QED
        BY <2>2, <3>1
    <2>4. StoresPublished'
      <3> SUFFICES ASSUME NEW r \in Proc, pc'[r] = "store", NEW x, x = Root(cur[r])
                   PROVE  root[r] \in PublishedPositions(x)'
        BY <2>1 DEF StoresPublished, PublishedPositions
      <3>1. CASE r = p
        <4>1. step = "store"
          BY <1>1, <2>1, <3>1 DEF TypeInv, TypeOK
        <4> QED
          BY <1>1, <1>13, <2>1, <3>1, <4>1, DeliverPublishes
      <3>2. CASE r # p
        <4>1. pc[r] = "store"
          BY <1>1, <2>1, <3>2 DEF TypeInv, TypeOK
        <4>2. x \in Participant
          BY <1>1, <4>1, RootType DEF TypeInv, TypeOK
        <4> QED
          BY <1>2, <2>2, <4>1, <4>2 DEF StoresPublished
      <3> QED
        BY <3>1, <3>2
    <2>5. NoReplayPending'
      BY <1>1, <1>2, <2>1 DEF NoReplayPending, Replayed, TypeInv, TypeOK
    <2> QED
      BY <2>3, <2>4, <2>5
  <1>14. ASSUME NEW p \in Proc, \/ Publish(p)
                                \/ Republish(p)
                                \/ PublishFails(p)
                                \/ RepublishFails(p)
         PROVE  Str'
    <2>1. CASE Publish(p)
      BY <1>13, <2>1 DEF Publish
    <2>2. CASE Republish(p)
      BY <1>13, <2>2 DEF Republish
    <2>3. CASE PublishFails(p)
      BY <1>13, <2>3 DEF PublishFails
    <2>4. CASE RepublishFails(p)
      BY <1>13, <2>4 DEF RepublishFails
    <2> QED
      BY <1>14, <2>1, <2>2, <2>3, <2>4
  <1>15. ASSUME NEW p \in Proc, Store(p) \/ StoreFails(p) PROVE Str'
    <2> DEFINE x == Root(cur[p])
    <2>1. /\ StoreStep(p) /\ redis' \in {redis, Stored(p)}
          /\ UNCHANGED <<cur, root, logVars>>
      BY <1>15 DEF Store, StoreFails, StoreStep
    <2>2. ASSUME NEW z \in Registered PROVE redis'[z] \in PublishedPositions(z)
      <3>1. redis'[z] = redis[z] \/ (z = x /\ redis'[z] = root[p])
        BY <1>1, <2>1, RegisteredType DEF Stored, TypeInv, TypeOK
      <3>2. root[p] \in PublishedPositions(x)
        BY <1>2, <2>1 DEF StoreStep, StoresPublished
      <3> QED
        BY <1>2, <3>1, <3>2 DEF PersistedWasPublished
    <2>3. PersistedWasPublished'
      BY <2>1, <2>2 DEF PersistedWasPublished, PublishedPositions, logVars
    <2>4. /\ \A r \in Proc \ {p} : memory'[r] = memory[r]
          /\ pc' = [pc EXCEPT ![p] = "commit"]
      BY <1>1, <2>1 DEF StoreStep, TypeInv, TypeOK
    <2>5. StoresPublished' /\ NoReplayPending'
      <3> HIDE DEF x
      <3> QED
        BY <1>5, <2>1, <2>4
    <2> QED
      BY <2>3, <2>5
  <1>16. ASSUME NEW p \in Proc, ReadFails(p) PROVE Str'
    <2>1. /\ pc' = [pc EXCEPT ![p] = "commit"] /\ UNCHANGED <<cur, logVars>>
      BY <1>16 DEF ReadFails
    <2>2. CASE UNCHANGED <<root, memory, redis>>
      BY <1>4, <1>5, <2>1, <2>2
    <2>3. CASE pc[p] = "handle" /\ SetRoot(p, root[p])
      BY <1>11, <2>1, <2>3
    <2> QED
      BY <1>16, <2>2, <2>3 DEF ReadFails
  <1>17. ASSUME NEW p \in Proc, Ack(p) \/ AckFails(p) \/ Crash(p) PROVE Str'
    <2>1. \A r \in Proc \ {p} : memory'[r] = memory[r]
      BY <1>1, <1>17 DEF Ack, AckFails, Crash, TypeInv, TypeOK
    <2> QED
      BY <1>6, <1>17, <2>1 DEF Ack, AckFails, Crash
  <1>18. ASSUME NEW p \in Proc, NEW q \in Partition, Rebalance(q, p) PROVE Str'
    BY <1>7, <1>18 DEF Rebalance, handVars
  <1>19. ASSUME UNCHANGED vars PROVE Str'
    BY <1>7, <1>19 DEF vars, logVars
  <1>20. Str'
    BY <1>8, <1>9, <1>10, <1>12, <1>14, <1>15, <1>16, <1>17, <1>18, <1>19
       DEF Next, Work, Fail
  <1> QED
    BY <1>1, <1>20 DEF StreamInv

\* The position redis holds of a participant it has known from the start is in
\* the event stream: BaseEventSourcingAggregate.processCommand stores only after
\* commitEvents, and a replay, which may store earlier, needs an empty redis.
THEOREM StreamAhead == Spec => []PersistedWasPublished
  <1>1. StreamInv /\ [Next]_vars => StreamInv'
    BY StreamStep
  <1>2. StreamInv => PersistedWasPublished
    BY DEF StreamInv
  <1> QED
    BY InitStreamInv, <1>1, <1>2, PTL DEF Spec

--------------------------------------------------------------------------------
(* Committed commands were answered *)

\* A process has a command in hand.
Busy(p) == pc[p] \notin {"idle", "halted"}

NothingLost == faults.kinds \intersect {"read", "publish"} = {}

\* Commands lie in the partition they were sent to, and a process holds the one
\* at its offset.
Placed ==
    /\ \A q \in Partition :
          /\ \A i \in DOMAIN topic[q] : PartitionOf(topic[q][i]) = q
          /\ committed[q] <= Len(topic[q]) /\ next[q] <= Len(topic[q])
    /\ \A p \in Proc : Busy(p) =>
          /\ off[p] \in DOMAIN topic[PartitionOf(cur[p])]
          /\ topic[PartitionOf(cur[p])][off[p]] = cur[p]

\* What a process is about to do with the command in hand answers it.
HandAnswers ==
    \A p \in Proc :
        /\ pc[p] \in {"store", "commit"} => Answered(cur[p])
        /\ pc[p] # "republish"
        /\ pc[p] = "publish" => \/ evt[p] # "none"
                                \/ cur[p].op = "Snapshot" /\ stateEvt[p] = "StateSnapshot"
        /\ pc[p] = "handle" /\ Root(cur[p]) \in Registered => root[p] # Absent

AnsweredAt(q, i) == i \in DOMAIN topic[q] /\ Answered(topic[q][i])

\* The partition's owner has the command at offset i in hand.
Taken(q, i) == Busy(owner[q]) /\ PartitionOf(cur[owner[q]]) = q /\ off[owner[q]] = i

\* What lies before the committed offset, before a command in hand, or before the
\* next fetch is answered, but for the one the partition's owner has in hand.
Behind ==
    /\ \A q \in Partition :
          /\ \A i \in 1..committed[q] : AnsweredAt(q, i)
          /\ \A i \in 1..next[q] : AnsweredAt(q, i) \/ Taken(q, i)
    /\ \A p \in Proc : Busy(p) => \A i \in 1..(off[p] - 1) : AnsweredAt(PartitionOf(cur[p]), i)

AnsweredInv == StreamInv /\ Placed /\ (NothingLost => HandAnswers /\ Behind)

\* The steps within one command, by what they leave alone.
Inside(p) ==
    /\ Busy(p)
    /\ pc'[p] \notin {"idle", "halted"}
    /\ \A r \in Proc \ {p} : pc'[r] = pc[r] /\ evt'[r] = evt[r] /\ stateEvt'[r] = stateEvt[r]
                             /\ root'[r] = root[r]
    /\ UNCHANGED <<groupVars, cur, off>>

LEMMA InsideSteps ==
    ASSUME TypeInv, TypeInv', NEW p \in Proc,
           \/ LoadRoot(p) \/ Handle(p) \/ Publish(p) \/ Republish(p) \/ Store(p) \/ ReadFails(p)
           \/ PublishFails(p) \/ RepublishFails(p) \/ StoreFails(p)
    PROVE  Inside(p)
  <1> USE DEF Inside, Busy, TypeInv, TypeOK
  <1>1. CASE LoadRoot(p)
    BY <1>1 DEF LoadRoot
  <1>2. CASE HandleCreate(p)
    BY <1>2 DEF HandleCreate, Decide, SetRoot
  <1>3. CASE RefuseUnknown(p)
    BY <1>3 DEF RefuseUnknown, Decide
  <1>4. CASE HandleReserve(p)
    BY <1>4 DEF HandleReserve, Decide, SetPositions
  <1>5. CASE HandleCommit(p)
    BY <1>5 DEF HandleCommit, Decide, SetPositions, SetRoot
  <1>6. CASE HandleSnapshot(p)
    BY <1>6 DEF HandleSnapshot, Decide, SetRoot
  <1>7. CASE Publish(p) \/ Republish(p) \/ PublishFails(p) \/ RepublishFails(p)
    BY <1>7 DEF Publish, Republish, PublishFails, RepublishFails, PublishTo
  <1>8. CASE Store(p) \/ StoreFails(p)
    BY <1>8 DEF Store, StoreFails, StoreStep
  <1>9. CASE ReadFails(p)
    BY <1>9 DEF ReadFails, SetRoot
  <1> QED
    BY <1>1, <1>2, <1>3, <1>4, <1>5, <1>6, <1>7, <1>8, <1>9 DEF Handle

\* Only publications change the logs.
LEMMA LogsGrow ==
    ASSUME TypeInv, [Next]_vars
    PROVE  \/ UNCHANGED logVars
           \/ \E p \in Proc : cur[p] \in Command /\ \E D : Deliver(p, D)
  <1>1. ASSUME NEW p \in Proc, \/ Publish(p) \/ Republish(p) \/ PublishFails(p) \/ RepublishFails(p)
        PROVE  cur[p] \in Command /\ \E D : Deliver(p, D)
    BY <1>1 DEF TypeInv, TypeOK, Publish, Republish, PublishFails, RepublishFails
  <1>2. ASSUME NEW c \in Command, Produce(c)
        PROVE  UNCHANGED logVars
    BY <1>2 DEF Produce
  <1>3. ASSUME NEW p \in Proc, \/ LoadRoot(p) \/ Handle(p) \/ Store(p) \/ Ack(p)
                               \/ \E q \in Partition : Fetch(p, q)
        PROVE  UNCHANGED logVars
    BY <1>3 DEF LoadRoot, Handle, HandleCreate, RefuseUnknown, HandleReserve, HandleCommit,
                HandleSnapshot, Decide, Store, StoreStep, Ack, Fetch
  <1>4. ASSUME NEW p \in Proc, \/ ReadFails(p) \/ StoreFails(p) \/ AckFails(p) \/ Crash(p)
                               \/ \E q \in Partition : Rebalance(q, p)
        PROVE  UNCHANGED logVars
    BY <1>4 DEF ReadFails, StoreFails, StoreStep, AckFails, Crash, Rebalance
  <1>5. CASE UNCHANGED vars
    BY <1>5 DEF vars, logVars
  <1> QED
    BY <1>1, <1>2, <1>3, <1>4, <1>5 DEF Next, Work, Fail

\* An answer stays.
LEMMA AnswersStay ==
    ASSUME TypeInv, [Next]_vars, NEW c \in Command, Answered(c)
    PROVE  Answered(c)'
  <1>1. domainLog \in [Command \X EventName -> Nat] /\ snapshots \in [Participant -> Seq(Int)]
    BY DEF TypeInv, TypeOK, Pos
  <1>2. CASE UNCHANGED logVars
    BY <1>2 DEF Answered, logVars
  <1>3. ASSUME NEW p \in Proc, cur[p] \in Command, NEW D, Deliver(p, D)
        PROVE  Answered(c)'
    <2>1. ASSUME NEW n \in EventName, domainLog[<<c, n>>] > 0
          PROVE  domainLog'[<<c, n>>] > 0
      <3>1. PICK k \in Command \X EventName : k = <<c, n>>
        OBVIOUS
      <3>2. PICK e : \/ domainLog' = domainLog
                     \/ domainLog' = [domainLog EXCEPT ![e] = @ + 1]
        BY <1>3 DEF Deliver
      <3>3. domainLog[k] \in Nat /\ domainLog[k] > 0
        BY <1>1, <2>1, <3>1
      <3>4. domainLog'[k] = domainLog[k] \/ domainLog'[k] = domainLog[k] + 1
        BY <1>1, <3>2
      <3> QED
        BY <3>1, <3>3, <3>4
    <2>2. ASSUME NEW x \in Participant, snapshots[x] # <<>>
          PROVE  snapshots'[x] # <<>>
      <3>1. Root(cur[p]) \in Participant
        BY <1>3, RootType
      <3>2. \/ snapshots' = snapshots
            \/ stateEvt[p] = "StateSnapshot" /\
               snapshots' = [snapshots EXCEPT ![Root(cur[p])] = Append(@, root[p])]
        BY <1>3 DEF Deliver
      <3>3. stateEvt[p] = "StateSnapshot" => root[p] \in Int
        BY DEF TypeInv, ControlOK
      <3>4. snapshots[x] \in Seq(Int)
        BY <1>1
      <3>5. root[p] \in Int => Append(snapshots[x], root[p]) # <<>>
        BY <3>4
      <3> QED
        BY <1>1, <2>2, <3>1, <3>2, <3>3, <3>5
    <2>3. c.op = "Snapshot" => c.id \in Participant
      BY CommandFields
    <2> QED
      BY <2>1, <2>2, <2>3 DEF Answered
  <1> QED
    BY <1>2, <1>3, LogsGrow

\* The partitions and offsets fit.
LEMMA PlacedStep ==
    ASSUME TypeInv, TypeInv', Placed, [Next]_vars
    PROVE  Placed'
  <1>1. ASSUME NEW p \in Proc, Busy(p)
        PROVE  cur[p] \in Command /\ PartitionOf(cur[p]) \in Partition
    BY <1>1, PartitionOfType DEF Busy, TypeInv, TypeOK
  <1>2. ASSUME NEW q \in Partition
        PROVE  /\ topic[q] \in Seq(Command) /\ DOMAIN topic[q] = 1..Len(topic[q])
               /\ Len(topic[q]) \in Nat /\ committed[q] \in Nat /\ next[q] \in Nat
    BY DEF TypeInv, TypeOK
  <1>3. ASSUME NEW p \in Proc, Inside(p)
        PROVE  Placed'
    <2>1. \A r \in Proc : Busy(r)' => Busy(r)
      BY <1>3 DEF Inside, Busy
    <2> QED
      BY <1>3, <2>1 DEF Inside, Placed, groupVars
  <1>4. ASSUME NEW c \in Command, Produce(c)
        PROVE  Placed'
    <2>1. PICK q \in Partition : q = PartitionOf(c)
      BY PartitionOfType
    <2>2. topic' = [topic EXCEPT ![q] = Append(@, c)]
          /\ UNCHANGED <<committed, next, pc, cur, off>>
      BY <1>4, <2>1 DEF Produce, handVars
    <2>3. ASSUME NEW x \in Partition
          PROVE  /\ \A i \in DOMAIN topic[x] : i \in DOMAIN topic'[x] /\ topic'[x][i] = topic[x][i]
                 /\ \A i \in DOMAIN topic'[x] : PartitionOf(topic'[x][i]) = x
                 /\ Len(topic[x]) <= Len(topic'[x]) /\ Len(topic'[x]) \in Nat
      <3>1. CASE x = q
        <4>1. topic'[x] = Append(topic[x], c) /\ topic[x] \in Seq(Command)
          BY <2>2, <3>1 DEF TypeInv, TypeOK
        <4>2. /\ DOMAIN topic'[x] = 1..(Len(topic[x]) + 1) /\ Len(topic'[x]) = Len(topic[x]) + 1
              /\ \A i \in 1..Len(topic[x]) : topic'[x][i] = topic[x][i]
              /\ topic'[x][Len(topic[x]) + 1] = c /\ Len(topic[x]) \in Nat
              /\ DOMAIN topic[x] = 1..Len(topic[x])
          BY <4>1
        <4>3. \A i \in DOMAIN topic'[x] : i \in DOMAIN topic[x] \/ i = Len(topic[x]) + 1
          BY <4>2
        <4> QED
          BY <2>1, <3>1, <4>2, <4>3 DEF Placed
      <3>2. CASE x # q
        BY <1>2, <2>2, <3>2 DEF Placed, TypeInv, TypeOK
      <3> QED
        BY <3>1, <3>2
    <2>4. ASSUME NEW r \in Proc, Busy(r)'
          PROVE  /\ off'[r] \in DOMAIN topic'[PartitionOf(cur'[r])]
                 /\ topic'[PartitionOf(cur'[r])][off'[r]] = cur'[r]
      <3>1. Busy(r)
        BY <2>2, <2>4 DEF Busy
      <3> QED
        BY <1>1, <2>2, <2>3, <3>1 DEF Placed
    <2>5. ASSUME NEW x \in Partition
          PROVE  committed'[x] <= Len(topic'[x]) /\ next'[x] <= Len(topic'[x])
      BY <1>2, <2>2, <2>3 DEF Placed
    <2> QED
      BY <2>3, <2>4, <2>5 DEF Placed, Busy
  <1>5. ASSUME NEW p \in Proc, NEW q \in Partition, Fetch(p, q)
        PROVE  Placed'
    <2>1. PICK n \in Nat : n = next[q] + 1 /\ n \in DOMAIN topic[q]
      BY <1>2, <1>5 DEF Fetch
    <2>2. /\ next' = [next EXCEPT ![q] = n] /\ cur' = [cur EXCEPT ![p] = topic[q][n]]
          /\ off' = [off EXCEPT ![p] = n] /\ pc' = [pc EXCEPT ![p] = "load"]
          /\ UNCHANGED <<topic, committed>>
      BY <1>5, <2>1 DEF Fetch
    <2>3. PartitionOf(topic[q][n]) = q
      BY <2>1 DEF Placed
    <2>4. \A r \in Proc : /\ r = p => cur'[r] = topic[q][n] /\ off'[r] = n
                          /\ r # p => cur'[r] = cur[r] /\ off'[r] = off[r] /\ pc'[r] = pc[r]
      BY <2>2 DEF TypeInv, TypeOK
    <2>5. \A r \in Proc : Busy(r)' =>
              /\ off'[r] \in DOMAIN topic[PartitionOf(cur'[r])]
              /\ topic[PartitionOf(cur'[r])][off'[r]] = cur'[r]
      BY <2>1, <2>3, <2>4 DEF Placed, Busy
    <2>6. \A x \in Partition : next'[x] <= Len(topic[x])
      BY <1>2, <2>1, <2>2 DEF Placed, TypeInv, TypeOK
    <2> QED
      BY <2>2, <2>5, <2>6 DEF Placed
  <1>6. ASSUME NEW p \in Proc, NEW step \in {"idle", "halted"}, LetGo(p, step), UNCHANGED topic,
               \A q \in Partition : /\ committed'[q] <= Len(topic[q])
                                    /\ next'[q] <= Len(topic[q])
        PROVE  Placed'
    <2>1. \A r \in Proc : Busy(r)' => Busy(r) /\ cur'[r] = cur[r] /\ off'[r] = off[r]
      BY <1>6 DEF LetGo, Busy, TypeInv, TypeOK
    <2> QED
      BY <1>6, <2>1 DEF Placed
  <1>7. ASSUME NEW p \in Proc, Ack(p)
        PROVE  Placed'
    <2>1. Busy(p) /\ LetGo(p, "idle") /\ UNCHANGED <<topic, next>>
          /\ committed' = [committed EXCEPT ![PartitionOf(cur[p])] = off[p]]
      BY <1>7 DEF Ack, Busy
    <2>2. off[p] \in DOMAIN topic[PartitionOf(cur[p])]
      BY <2>1 DEF Placed
    <2>3. \A q \in Partition : committed'[q] <= Len(topic[q]) /\ next'[q] <= Len(topic[q])
      BY <1>1, <1>2, <2>1, <2>2 DEF Placed, TypeInv, TypeOK
    <2> QED
      BY <1>6, <2>1, <2>3
  <1>8. ASSUME NEW p \in Proc, AckFails(p)
        PROVE  Placed'
    BY <1>6, <1>8 DEF AckFails, groupVars, Placed
  <1>9. ASSUME NEW p \in Proc, Crash(p)
        PROVE  Placed'
    BY <1>6, <1>9 DEF Crash, Placed
  <1>10. ASSUME NEW p \in Proc, NEW q \in Partition, Rebalance(q, p)
         PROVE  Placed'
    <2>1. UNCHANGED <<topic, committed, pc, cur, off>> /\ next' = [next EXCEPT ![q] = committed[q]]
      BY <1>10 DEF Rebalance, handVars
    <2>2. \A x \in Partition : next'[x] <= Len(topic[x])
      BY <2>1 DEF Placed, TypeInv, TypeOK
    <2> QED
      BY <2>1, <2>2 DEF Placed, Busy
  <1>11. CASE UNCHANGED vars
    BY <1>11 DEF vars, Placed, Busy
  <1>12. ASSUME NEW p \in Proc, Work(p) \/ Fail(p)
         PROVE  Placed'
    BY <1>3, <1>5, <1>7, <1>8, <1>9, <1>10, <1>12, InsideSteps DEF Work, Fail
  <1> QED
    BY <1>4, <1>11, <1>12 DEF Next

\* Failures are never forgotten.
LEMMA LossStep ==
    ASSUME TypeInv, [Next]_vars, NothingLost'
    PROVE  /\ NothingLost
           /\ \A p \in Proc : ~ReadFails(p) /\ ~PublishFails(p) /\ ~RepublishFails(p)
  <1>1. ASSUME NEW kind, Failure(kind)
        PROVE  faults'.kinds = faults.kinds \union {kind}
    BY <1>1 DEF Failure
  <1>2. ASSUME NEW kind, Failure(kind)
        PROVE  NothingLost /\ kind \notin {"read", "publish"}
    BY <1>1, <1>2 DEF NothingLost
  <1>3. \A p \in Proc : ~ReadFails(p) /\ ~PublishFails(p) /\ ~RepublishFails(p)
    BY <1>2 DEF ReadFails, PublishFails, RepublishFails
  <1>4. ASSUME UNCHANGED faults
        PROVE  NothingLost
    BY <1>4 DEF NothingLost
  <1>5. UNCHANGED faults \/ \E kind : Failure(kind)
    <2>1. ASSUME NEW p \in Proc, Work(p)
          PROVE  UNCHANGED faults
      BY <2>1 DEF Work, Fetch, LoadRoot, Handle, HandleCreate, RefuseUnknown, HandleReserve,
                  HandleCommit, HandleSnapshot, Decide, Publish, Republish, Store, Ack
    <2>2. ASSUME NEW p \in Proc, Fail(p)
          PROVE  UNCHANGED faults \/ \E kind : Failure(kind)
      BY <2>2 DEF Fail, ReadFails, PublishFails, RepublishFails, StoreFails, AckFails, Crash, Rebalance
    <2>3. ASSUME NEW c \in Command, Produce(c)
          PROVE  UNCHANGED faults
      BY <2>3 DEF Produce
    <2>4. CASE UNCHANGED vars
      BY <2>4 DEF vars
    <2> QED
      BY <2>1, <2>2, <2>3, <2>4 DEF Next
  <1> QED
    BY <1>2, <1>3, <1>4, <1>5

\* A publication answers the command in hand.
LEMMA PublishAnswers ==
    ASSUME TypeInv, NEW p \in Proc, Publish(p),
           evt[p] # "none" \/ (cur[p].op = "Snapshot" /\ stateEvt[p] = "StateSnapshot")
    PROVE  Answered(cur[p])'
  <1>1. cur' = cur /\ cur[p] \in Command /\ evt[p] \in EventName \union {"none"}
        /\ domainLog \in [Command \X EventName -> Nat] /\ snapshots \in [Participant -> Seq(Int)]
    BY DEF Publish, PublishTo, TypeInv, TypeOK, Pos
  <1>2. CASE evt[p] # "none"
    <2>1. PICK k \in Command \X EventName : k = <<cur[p], evt[p]>>
      BY <1>1, <1>2
    <2>2. domainLog' = [domainLog EXCEPT ![k] = @ + 1]
      BY <1>2, <2>1 DEF Publish, Deliver
    <2>3. domainLog[k] \in Nat
      BY <1>1
    <2>4. domainLog'[k] > 0
      BY <1>1, <2>2, <2>3
    <2>5. evt[p] \in EventName /\ domainLog'[<<cur'[p], evt[p]>>] > 0
      BY <1>1, <1>2, <2>1, <2>4
    <2> QED
      BY <2>5 DEF Answered
  <1>3. CASE cur[p].op = "Snapshot" /\ stateEvt[p] = "StateSnapshot"
    <2>1. PICK x \in Participant : x = cur[p].id /\ x = Root(cur[p])
      BY <1>1, <1>3, CommandFields DEF Root
    <2>2. root[p] \in Int /\ snapshots' = [snapshots EXCEPT ![x] = Append(@, root[p])]
      BY <1>3, <2>1 DEF Publish, Deliver, TypeInv, ControlOK
    <2>3. snapshots[x] \in Seq(Int)
      BY <1>1
    <2>4. Append(snapshots[x], root[p]) # <<>>
      BY <2>2, <2>3
    <2>5. snapshots'[x] # <<>>
      BY <1>1, <2>2, <2>4
    <2> QED
      BY <1>1, <1>3, <2>1, <2>5 DEF Answered
  <1> QED
    BY <1>2, <1>3

LEMMA HandAnswersStep ==
    ASSUME StreamInv, TypeInv', HandAnswers, [Next]_vars, NothingLost'
    PROVE  HandAnswers'
  <1>1. TypeInv /\ PersistedWasPublished
    BY DEF StreamInv
  <1>2. ASSUME NEW r \in Proc, Busy(r), Answered(cur[r]), cur'[r] = cur[r]
        PROVE  Answered(cur[r])'
    <2>1. PICK c \in Command : c = cur[r] /\ Answered(c)
      BY <1>1, <1>2 DEF Busy, TypeInv, TypeOK
    <2>2. Answered(c)'
      BY <1>1, <2>1, AnswersStay
    <2> QED
      BY <1>2, <2>1, <2>2 DEF Answered
  \* A process that does nothing keeps what it is about to do.
  <1>3. ASSUME NEW r \in Proc, pc'[r] = pc[r], cur'[r] = cur[r], evt'[r] = evt[r],
               stateEvt'[r] = stateEvt[r], root'[r] = root[r]
        PROVE  /\ pc'[r] \in {"store", "commit"} => Answered(cur[r])'
               /\ pc'[r] # "republish"
               /\ pc'[r] = "publish" =>
                      \/ evt'[r] # "none"
                      \/ cur'[r].op = "Snapshot" /\ stateEvt'[r] = "StateSnapshot"
               /\ pc'[r] = "handle" /\ Root(cur'[r]) \in Registered => root'[r] # Absent
    BY <1>2, <1>3 DEF HandAnswers, Busy
  <1>4. ASSUME NEW p \in Proc,
               \A r \in Proc \ {p} : pc'[r] = pc[r] /\ cur'[r] = cur[r] /\ evt'[r] = evt[r] /\
                                     stateEvt'[r] = stateEvt[r] /\ root'[r] = root[r],
               pc'[p] \in {"store", "commit"} => Answered(cur[p])',
               pc'[p] # "republish",
               pc'[p] = "publish" =>
                      \/ evt'[p] # "none"
                      \/ cur'[p].op = "Snapshot" /\ stateEvt'[p] = "StateSnapshot",
               pc'[p] = "handle" /\ Root(cur'[p]) \in Registered => root'[p] # Absent
        PROVE  HandAnswers'
    BY <1>3, <1>4 DEF HandAnswers
  <1>5. ASSUME UNCHANGED handVars
        PROVE  HandAnswers'
    BY <1>3, <1>5 DEF HandAnswers, handVars
  <1>6. ASSUME NEW p \in Proc, LoadRoot(p)
        PROVE  HandAnswers'
    <2>1. Inside(p) /\ UNCHANGED cur /\ pc'[p] = "handle" /\ cur[p] \in Command
      BY <1>1, <1>6, InsideSteps DEF Inside, LoadRoot, TypeInv, TypeOK
    <2>2. Root(cur[p]) \in Registered => root'[p] # Absent
      <3>1. SUFFICES ASSUME NEW x \in Registered, x = Root(cur[p])
                     PROVE  root'[p] # Absent
        OBVIOUS
      <3>2. x \in Participant /\ redis[x] \in PublishedPositions(x)
        BY <1>1, RegisteredType DEF PersistedWasPublished
      <3>3. \A v \in PublishedPositions(x) : v \in Int
        BY <1>1, <3>2 DEF PublishedPositions, TypeInv, TypeOK, Pos
      <3>4. redis[x] # Absent
        BY <3>2, <3>3, ConstantTypes
      <3> QED
        BY <1>1, <1>6, <3>1, <3>4 DEF LoadRoot, TypeInv, TypeOK
    <2>3. cur'[p] = cur[p] /\ pc'[p] \notin {"store", "commit", "republish", "publish"}
      BY <2>1
    <2> QED
      BY <1>4, <2>1, <2>2, <2>3 DEF Inside
  <1>7. ASSUME NEW p \in Proc, Handle(p)
        PROVE  HandAnswers'
    <2>1. Inside(p) /\ pc[p] = "handle" /\ cur' = cur
      BY <1>1, <1>7, InsideSteps
         DEF Inside, Handle, HandleCreate, RefuseUnknown, HandleReserve, HandleCommit, HandleSnapshot
    <2>2. CASE \E e, s : Decide(p, e, s) /\ (e # "none" \/ (cur[p].op = "Snapshot" /\ s = "StateSnapshot"))
      <3>1. pc'[p] = "publish"
        BY <1>1, <2>2 DEF Decide, TypeInv, TypeOK
      <3>2. evt'[p] # "none" \/ (cur'[p].op = "Snapshot" /\ stateEvt'[p] = "StateSnapshot")
        BY <1>1, <2>1, <2>2 DEF Decide, TypeInv, TypeOK
      <3> QED
        BY <1>4, <2>1, <3>1, <3>2 DEF Inside
    <2>3. CASE cur[p].op = "Snapshot" /\ root[p] = Absent /\ pc' = [pc EXCEPT ![p] = "commit"]
      <3>1. cur[p] \in Command /\ Root(cur[p]) = cur[p].id /\ cur[p].id \notin Registered
        BY <1>1, <2>1, <2>3 DEF HandAnswers, TypeInv, TypeOK, Root
      <3>2. Answered(cur[p])'
        BY <2>1, <2>3, <3>1 DEF Answered
      <3>3. pc'[p] = "commit"
        BY <1>1, <2>3 DEF TypeInv, TypeOK
      <3> QED
        BY <1>4, <2>1, <3>2, <3>3 DEF Inside
    <2> QED
      <3>1. CASE HandleCreate(p)
        BY <2>2, <3>1 DEF HandleCreate
      <3>2. CASE RefuseUnknown(p)
        BY <2>2, <3>2 DEF RefuseUnknown
      <3>3. CASE HandleReserve(p)
        <4>1. \A x, t, v : ReserveRuling(x, t, v) # "none"
          BY DEF ReserveRuling
        <4>2. \E e, s : Decide(p, e, s) /\ e # "none"
          BY <3>3, <4>1 DEF HandleReserve
        <4> QED
          BY <2>2, <4>2
      <3>4. CASE HandleCommit(p)
        BY <2>2, <3>4 DEF HandleCommit
      <3>5. CASE HandleSnapshot(p)
        BY <2>2, <2>3, <3>5 DEF HandleSnapshot
      <3> QED
        BY <1>7, <3>1, <3>2, <3>3, <3>4, <3>5 DEF Handle
  <1>8. ASSUME NEW p \in Proc, Publish(p)
        PROVE  HandAnswers'
    <2>1. Inside(p) /\ pc[p] = "publish" /\ pc'[p] \in {"store", "commit"}
      BY <1>1, <1>8, InsideSteps DEF Publish, PublishTo, TypeInv, TypeOK
    <2>2. Answered(cur[p])'
      BY <1>1, <1>8, <2>1, PublishAnswers DEF HandAnswers
    <2> QED
      BY <1>4, <2>1, <2>2 DEF Inside
  <1>9. ASSUME NEW p \in Proc, Store(p) \/ StoreFails(p)
        PROVE  HandAnswers'
    <2>1. Inside(p) /\ pc[p] = "store" /\ pc'[p] = "commit" /\ cur'[p] = cur[p] /\ Busy(p)
      BY <1>1, <1>9, InsideSteps DEF Inside, Store, StoreFails, StoreStep, TypeInv, TypeOK
    <2>2. Answered(cur[p])'
      BY <1>2, <2>1 DEF HandAnswers
    <2> QED
      BY <1>4, <2>1, <2>2 DEF Inside
  <1>10. ASSUME NEW p \in Proc, Republish(p)
         PROVE  FALSE
    BY <1>10 DEF Republish, HandAnswers
  <1>11. ASSUME NEW p \in Proc, NEW q \in Partition, Fetch(p, q)
         PROVE  HandAnswers'
    <2>1. /\ pc'[p] = "load"
          /\ \A r \in Proc \ {p} : pc'[r] = pc[r] /\ cur'[r] = cur[r] /\ evt'[r] = evt[r] /\
                                   stateEvt'[r] = stateEvt[r] /\ root'[r] = root[r]
      BY <1>1, <1>11 DEF Fetch, TypeInv, TypeOK
    <2> QED
      BY <1>4, <2>1
  <1>12. ASSUME NEW p \in Proc, NEW step \in {"idle", "halted"}, LetGo(p, step)
         PROVE  HandAnswers'
    <2>1. /\ pc'[p] = step
          /\ \A r \in Proc \ {p} : pc'[r] = pc[r] /\ cur'[r] = cur[r] /\ evt'[r] = evt[r] /\
                                   stateEvt'[r] = stateEvt[r] /\ root'[r] = root[r]
      BY <1>1, <1>12 DEF LetGo, TypeInv, TypeOK
    <2>2. pc'[p] \notin {"store", "commit", "republish", "publish", "handle"}
      BY <1>12, <2>1
    <2> QED
      BY <1>4, <2>1, <2>2
  <1>13. ASSUME NEW p \in Proc, Ack(p) \/ AckFails(p) \/ Crash(p)
         PROVE  HandAnswers'
    BY <1>12, <1>13 DEF Ack, AckFails, Crash
  <1>14. ASSUME NEW p \in Proc, NEW q \in Partition, Rebalance(q, p)
         PROVE  HandAnswers'
    BY <1>5, <1>14 DEF Rebalance
  <1>15. ASSUME NEW c \in Command, Produce(c)
         PROVE  HandAnswers'
    BY <1>5, <1>15 DEF Produce
  <1>16. CASE UNCHANGED vars
    BY <1>5, <1>16 DEF vars, handVars
  <1>17. \A p \in Proc : ~ReadFails(p) /\ ~PublishFails(p) /\ ~RepublishFails(p)
    BY <1>1, LossStep
  <1> QED
    BY <1>6, <1>7, <1>8, <1>9, <1>10, <1>11, <1>13, <1>14, <1>15, <1>16, <1>17
       DEF Next, Work, Fail

\* A partition only grows, and what was answered stays so.
LEMMA AnsweredAtStays ==
    ASSUME TypeInv, [Next]_vars, NEW q \in Partition, NEW i, AnsweredAt(q, i)
    PROVE  AnsweredAt(q, i)'
  <1>1. i \in DOMAIN topic[q] /\ Answered(topic[q][i]) /\ topic[q] \in Seq(Command)
    BY DEF AnsweredAt, TypeInv, TypeOK
  <1>2. PICK c \in Command : c = topic[q][i] /\ Answered(c)
    BY <1>1
  <1>3. i \in DOMAIN topic'[q] /\ topic'[q][i] = c
    <2>1. topic'[q] = topic[q] \/ \E d \in Command : topic'[q] = Append(topic[q], d)
      <3>1. ASSUME NEW d \in Command, Produce(d)
            PROVE  topic'[q] = topic[q] \/ topic'[q] = Append(topic[q], d)
        BY <3>1 DEF Produce, TypeInv, TypeOK
      <3>2. ASSUME NEW p \in Proc, Work(p) \/ Fail(p)
            PROVE  topic' = topic
        BY <3>2 DEF Work, Fail, Fetch, LoadRoot, Handle, HandleCreate, RefuseUnknown, HandleReserve,
                    HandleCommit, HandleSnapshot, Decide, Publish, Republish, PublishTo, Store,
                    StoreStep, Ack, ReadFails, PublishFails, RepublishFails, StoreFails, AckFails,
                    Crash, Rebalance, groupVars
      <3>3. CASE UNCHANGED vars
        BY <3>3 DEF vars
      <3> QED
        BY <3>1, <3>2, <3>3 DEF Next
    <2> QED
      BY <1>1, <1>2, <2>1
  <1>4. Answered(c)'
    BY <1>2, AnswersStay
  <1> QED
    BY <1>3, <1>4 DEF AnsweredAt, Answered

LEMMA BehindStep ==
    ASSUME TypeInv, TypeInv', Placed, HandAnswers, Behind, [Next]_vars
    PROVE  Behind'
  <1>1. ASSUME NEW q \in Partition
        PROVE  committed[q] \in Nat /\ next[q] \in Nat /\ Len(topic[q]) \in Nat
               /\ DOMAIN topic[q] = 1..Len(topic[q])
    BY DEF TypeInv, TypeOK
  <1>2. ASSUME NEW p \in Proc, Busy(p)
        PROVE  /\ PartitionOf(cur[p]) \in Partition /\ off[p] \in Nat
               /\ off[p] \in DOMAIN topic[PartitionOf(cur[p])]
               /\ topic[PartitionOf(cur[p])][off[p]] = cur[p]
    BY <1>2, PartitionOfType DEF Placed, Busy, TypeInv, TypeOK
  <1>3. \A q \in Partition : \A i : AnsweredAt(q, i) => AnsweredAt(q, i)'
    BY AnsweredAtStays
  <1>4. ASSUME NEW p \in Proc, Busy(p), NEW i \in 1..(off[p] - 1)
        PROVE  AnsweredAt(PartitionOf(cur[p]), i)
    BY <1>4 DEF Behind
  <1>5. ASSUME UNCHANGED <<committed, next, owner, cur, off>>, \A r \in Proc : Busy(r)' = Busy(r)
        PROVE  Behind'
    <2>1. \A q \in Partition : owner[q] \in Proc
      BY DEF TypeInv, TypeOK
    <2>2. \A q \in Partition : \A i \in 1..next'[q] : AnsweredAt(q, i)' \/ Taken(q, i)'
      BY <1>3, <1>5, <2>1 DEF Behind, Taken
    <2>3. \A q \in Partition : \A i \in 1..committed'[q] : AnsweredAt(q, i)'
      BY <1>3, <1>5 DEF Behind
    <2>4. ASSUME NEW r \in Proc, Busy(r)', NEW i \in 1..(off'[r] - 1), NEW q, q = PartitionOf(cur'[r])
          PROVE  AnsweredAt(q, i)'
      BY <1>2, <1>3, <1>4, <1>5, <2>4
    <2> QED
      BY <2>2, <2>3, <2>4 DEF Behind
  <1>6. ASSUME NEW p \in Proc, Inside(p)
        PROVE  Behind'
    <2>1. \A r \in Proc : Busy(r)' = Busy(r)
      BY <1>6 DEF Inside, Busy
    <2> QED
      BY <1>5, <1>6, <2>1 DEF Inside, groupVars
  <1>7. ASSUME NEW p \in Proc, NEW x \in Partition, Fetch(p, x)
        PROVE  Behind'
    <2>1. PICK n \in Nat : n = next[x]
      BY <1>1
    <2>2. /\ ~Busy(p) /\ owner[x] = p /\ owner' = owner /\ committed' = committed
          /\ next' = [next EXCEPT ![x] = n + 1] /\ cur' = [cur EXCEPT ![p] = topic[x][n + 1]]
          /\ off' = [off EXCEPT ![p] = n + 1] /\ pc' = [pc EXCEPT ![p] = "load"]
          /\ n + 1 \in DOMAIN topic[x]
      BY <1>1, <1>7, <2>1 DEF Fetch, Busy
    <2>3. /\ cur'[p] = topic[x][n + 1] /\ off'[p] = n + 1 /\ Busy(p)' /\ next'[x] = n + 1
          /\ \A r \in Proc \ {p} : cur'[r] = cur[r] /\ off'[r] = off[r] /\ Busy(r)' = Busy(r)
          /\ \A q \in Partition \ {x} : next'[q] = next[q]
      BY <2>2 DEF Busy, TypeInv, TypeOK
    <2>4. PartitionOf(cur'[p]) = x
      BY <2>2, <2>3 DEF Placed
    <2>5. \A i \in 1..n : AnsweredAt(x, i)
      BY <2>1, <2>2 DEF Behind, Taken
    <2>6. ASSUME NEW q \in Partition, NEW i \in 1..next'[q]
          PROVE  AnsweredAt(q, i)' \/ Taken(q, i)'
      <3>1. CASE q = x
        <4>1. i \in 1..n \/ i = n + 1
          BY <2>3, <3>1
        <4>2. i = n + 1 => Taken(x, i)'
          BY <2>2, <2>3, <2>4 DEF Taken
        <4> QED
          BY <1>3, <2>5, <3>1, <4>1, <4>2
      <3>2. CASE q # x
        <4>1. AnsweredAt(q, i) \/ Taken(q, i)
          BY <2>3, <3>2 DEF Behind
        <4>2. Taken(q, i) => owner[q] \in Proc \ {p}
          BY <2>2 DEF Taken, TypeInv, TypeOK
        <4>3. Taken(q, i) => Taken(q, i)'
          BY <2>2, <2>3, <4>2 DEF Taken
        <4> QED
          BY <1>3, <4>1, <4>3
      <3> QED
        BY <3>1, <3>2
    <2>7. ASSUME NEW r \in Proc, Busy(r)', NEW i \in 1..(off'[r] - 1), NEW q, q = PartitionOf(cur'[r])
          PROVE  AnsweredAt(q, i)'
      <3>1. CASE r = p
        <4>1. i \in 1..n /\ q = x
          BY <2>3, <2>4, <2>7, <3>1
        <4> QED
          BY <1>3, <2>5, <4>1
      <3>2. CASE r # p
        <4>1. Busy(r) /\ i \in 1..(off[r] - 1) /\ q = PartitionOf(cur[r])
          BY <2>3, <2>7, <3>2
        <4> QED
          BY <1>2, <1>3, <1>4, <4>1
      <3> QED
        BY <3>1, <3>2
    <2>8. \A q \in Partition : \A i \in 1..committed'[q] : AnsweredAt(q, i)'
      BY <1>3, <2>2 DEF Behind
    <2> QED
      BY <2>6, <2>7, <2>8 DEF Behind
  \* A command is let go of: committed or not, it was answered.
  <1>8. ASSUME NEW p \in Proc, pc[p] = "commit"
        PROVE  Busy(p) /\ \A i \in 1..off[p] : AnsweredAt(PartitionOf(cur[p]), i)
    <2>1. Busy(p) /\ Answered(cur[p])
      BY <1>8 DEF Busy, HandAnswers
    <2>2. AnsweredAt(PartitionOf(cur[p]), off[p])
      BY <1>2, <2>1 DEF AnsweredAt
    <2>3. \A i \in 1..off[p] : i = off[p] \/ i \in 1..(off[p] - 1)
      BY <1>2, <2>1
    <2> QED
      BY <1>4, <2>1, <2>2, <2>3
  <1>9. ASSUME NEW p \in Proc, NEW step \in {"idle", "halted"}, LetGo(p, step), owner' = owner,
               \A q \in Partition : \A i \in 1..committed'[q] : AnsweredAt(q, i),
               \A q \in Partition : \A i \in 1..next'[q] :
                   AnsweredAt(q, i) \/ (Taken(q, i) /\ owner[q] # p)
        PROVE  Behind'
    <2>1. /\ ~Busy(p)'
          /\ \A r \in Proc \ {p} : cur'[r] = cur[r] /\ off'[r] = off[r] /\ Busy(r)' = Busy(r)
      BY <1>9 DEF LetGo, Busy, TypeInv, TypeOK
    <2>2. ASSUME NEW q \in Partition, NEW i \in 1..next'[q]
          PROVE  AnsweredAt(q, i)' \/ Taken(q, i)'
      <3>1. owner[q] # p => (Taken(q, i) => Taken(q, i)')
        BY <1>9, <2>1 DEF Taken, TypeInv, TypeOK
      <3> QED
        BY <1>3, <1>9, <3>1
    <2>3. ASSUME NEW r \in Proc, Busy(r)', NEW i \in 1..(off'[r] - 1), NEW q, q = PartitionOf(cur'[r])
          PROVE  AnsweredAt(q, i)'
      <3>1. Busy(r) /\ i \in 1..(off[r] - 1) /\ q = PartitionOf(cur[r])
        BY <2>1, <2>3
      <3> QED
        BY <1>2, <1>3, <1>4, <3>1
    <2>4. \A q \in Partition : \A i \in 1..committed'[q] : AnsweredAt(q, i)'
      BY <1>3, <1>9
    <2> QED
      BY <2>2, <2>3, <2>4 DEF Behind
  <1>10. ASSUME NEW p \in Proc, Ack(p)
         PROVE  Behind'
    <2>1. PICK x \in Partition : x = PartitionOf(cur[p])
      BY <1>2, <1>8, <1>10 DEF Ack
    <2>2. /\ LetGo(p, "idle") /\ owner' = owner /\ next' = next
          /\ committed' = [committed EXCEPT ![x] = off[p]] /\ Busy(p)
          /\ \A i \in 1..off[p] : AnsweredAt(x, i)
      BY <1>8, <1>10, <2>1 DEF Ack
    <2>3. \A q \in Partition : \A i \in 1..committed'[q] : AnsweredAt(q, i)
      BY <2>2 DEF Behind, TypeInv, TypeOK
    <2>4. ASSUME NEW q \in Partition, NEW i \in 1..next[q], Taken(q, i), owner[q] = p
          PROVE  AnsweredAt(q, i)
      <3>1. q = x /\ i = off[p]
        BY <2>1, <2>4 DEF Taken
      <3> QED
        BY <2>2, <3>1, <2>4
    <2>5. \A q \in Partition : \A i \in 1..next'[q] :
              AnsweredAt(q, i) \/ (Taken(q, i) /\ owner[q] # p)
      BY <2>2, <2>4 DEF Behind
    <2> QED
      BY <1>9, <2>2, <2>3, <2>5
  <1>11. ASSUME NEW p \in Proc, AckFails(p)
         PROVE  Behind'
    <2>1. PICK x \in Partition : x = PartitionOf(cur[p])
      BY <1>2, <1>8, <1>11 DEF AckFails
    <2>2. /\ LetGo(p, "halted") /\ UNCHANGED <<owner, next, committed>>
          /\ \A i \in 1..off[p] : AnsweredAt(x, i)
      BY <1>8, <1>11, <2>1 DEF AckFails, groupVars
    <2>3. ASSUME NEW q \in Partition, NEW i \in 1..next[q], Taken(q, i), owner[q] = p
          PROVE  AnsweredAt(q, i)
      <3>1. q = x /\ i = off[p]
        BY <2>1, <2>3 DEF Taken
      <3> QED
        BY <2>2, <3>1, <2>3
    <2>4. \A q \in Partition : \A i \in 1..next'[q] :
              AnsweredAt(q, i) \/ (Taken(q, i) /\ owner[q] # p)
      BY <2>2, <2>3 DEF Behind
    <2>5. \A q \in Partition : \A i \in 1..committed'[q] : AnsweredAt(q, i)
      BY <2>2 DEF Behind
    <2> QED
      BY <1>9, <2>2, <2>4, <2>5
  <1>12. ASSUME NEW p \in Proc, Crash(p)
         PROVE  Behind'
    <2>1. LetGo(p, "idle") /\ UNCHANGED <<owner, committed>>
          /\ next' = [q \in Partition |-> IF owner[q] = p THEN committed[q] ELSE next[q]]
      BY <1>12 DEF Crash
    <2>2. \A q \in Partition : \A i \in 1..next'[q] :
              AnsweredAt(q, i) \/ (Taken(q, i) /\ owner[q] # p)
      BY <2>1 DEF Behind
    <2>3. \A q \in Partition : \A i \in 1..committed'[q] : AnsweredAt(q, i)
      BY <2>1 DEF Behind
    <2> QED
      BY <1>9, <2>1, <2>2, <2>3
  <1>13. ASSUME NEW p \in Proc, NEW x \in Partition, Rebalance(x, p)
         PROVE  Behind'
    <2>1. /\ owner' = [owner EXCEPT ![x] = p] /\ next' = [next EXCEPT ![x] = committed[x]]
          /\ UNCHANGED <<committed, cur, off, pc>>
      BY <1>13 DEF Rebalance, handVars
    <2>2. ASSUME NEW q \in Partition, NEW i \in 1..next'[q]
          PROVE  AnsweredAt(q, i)' \/ Taken(q, i)'
      <3>1. CASE q = x
        BY <1>3, <2>1, <3>1 DEF Behind, TypeInv, TypeOK
      <3>2. CASE q # x
        <4>1. next'[q] = next[q] /\ owner'[q] = owner[q]
          BY <2>1, <3>2 DEF TypeInv, TypeOK
        <4>2. Taken(q, i) => Taken(q, i)'
          BY <2>1, <4>1 DEF Taken, Busy
        <4> QED
          BY <1>3, <4>1, <4>2 DEF Behind
      <3> QED
        BY <3>1, <3>2
    <2>3. ASSUME NEW r \in Proc, Busy(r)', NEW i \in 1..(off'[r] - 1), NEW q, q = PartitionOf(cur'[r])
          PROVE  AnsweredAt(q, i)'
      <3>1. Busy(r) /\ i \in 1..(off[r] - 1) /\ q = PartitionOf(cur[r])
        BY <2>1, <2>3 DEF Busy
      <3> QED
        BY <1>2, <1>3, <1>4, <3>1
    <2>4. \A q \in Partition : \A i \in 1..committed'[q] : AnsweredAt(q, i)'
      BY <1>3, <2>1 DEF Behind
    <2> QED
      BY <2>2, <2>3, <2>4 DEF Behind
  <1>14. ASSUME NEW c \in Command, Produce(c)
         PROVE  Behind'
    BY <1>5, <1>14 DEF Produce, handVars, Busy
  <1>15. CASE UNCHANGED vars
    BY <1>5, <1>15 DEF vars, Busy
  <1>16. ASSUME NEW p \in Proc, Work(p) \/ Fail(p)
         PROVE  Behind'
    BY <1>6, <1>7, <1>10, <1>11, <1>12, <1>13, <1>16, InsideSteps DEF Work, Fail
  <1> QED
    BY <1>14, <1>15, <1>16 DEF Next

LEMMA AnsweredInit == Init => AnsweredInv
  <1> SUFFICES ASSUME Init
               PROVE  AnsweredInv
    OBVIOUS
  <1>1. \A q \in Partition : topic[q] = <<>> /\ DOMAIN topic[q] = {} /\ Len(topic[q]) = 0
                             /\ committed[q] = 0 /\ next[q] = 0
    BY DEF Init
  <1>2. \A p \in Proc : pc[p] = "idle"
    BY DEF Init
  <1>3. Placed /\ HandAnswers /\ Behind
    BY <1>1, <1>2 DEF Placed, HandAnswers, Behind, Busy
  <1> QED
    BY <1>3, InitStreamInv DEF AnsweredInv

LEMMA AnsweredStep ==
    ASSUME AnsweredInv, [Next]_vars
    PROVE  AnsweredInv'
  <1>1. StreamInv /\ TypeInv /\ Placed /\ StreamInv' /\ TypeInv'
    BY StreamStep DEF AnsweredInv, StreamInv
  <1>2. Placed'
    BY <1>1, PlacedStep
  <1>3. ASSUME NothingLost'
        PROVE  HandAnswers' /\ Behind'
    <2>1. HandAnswers /\ Behind
      BY <1>1, <1>3, LossStep DEF AnsweredInv
    <2> QED
      BY <1>1, <1>3, <2>1, HandAnswersStep, BehindStep
  <1> QED
    BY <1>1, <1>2, <1>3 DEF AnsweredInv

\* Where neither reads nor publications fail, no command is lost: what the group
\* has committed was answered, although RDKafkaConsumer commits the offset whatever
\* processCommand made of the command, and a process that lost the partition may
\* still commit the command in hand.
THEOREM CommitsAnswered == Spec => []CommittedAnswered
  <1>1. AnsweredInv /\ [Next]_vars => AnsweredInv'
    BY AnsweredStep
  <1>2. AnsweredInv => CommittedAnswered
    BY DEF AnsweredInv, Behind, AnsweredAt, NothingLost, CommittedAnswered
  <1> QED
    BY AnsweredInit, <1>1, <1>2, PTL DEF Spec

================================================================================
