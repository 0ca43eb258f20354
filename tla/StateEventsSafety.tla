------------------------------ MODULE StateEventsSafety ------------------------------
(******************************************************************************)
(* Proofs about StateEvents, for every value of its constants: what creates a *)
(* participant or a transfer does so once, and no command to create one is    *)
(* committed before it has; the read side keeps up with the state events; and *)
(* what a command handler loads is the last state of an aggregate, whichever  *)
(* repository it has, unless that does not survive what happened.             *)
(******************************************************************************)
EXTENDS StateEventsProofs

--------------------------------------------------------------------------------
(* What a step comes to *)

\* What others do while the handler stays where it is: they send it commands that ask
\* for snapshots, or open and close.
Coming(more) == /\ more \in Seq(CommandType)
                /\ \A k \in 1..Len(more) : more[k].name = "SnapshotParticipantStateCmd"
Aside ==
    /\ UNCHANGED <<setting, memory, redis, known, owner, root, asked, step, answer, events,
                   snapshots>>
    /\ MayFail
    /\ \E more : Coming(more) /\ commands' = commands \o more
Staying == Restart \/ OpenNext \/ AdapterListens \/ Ready \/ CloseApi \/ Interrupt \/ Destroy
Elsewhere == process' = process \/ Staying \/ \E h : h # "Cmd" /\ CommitRefused(h)
Ending == /\ HandlerForgets /\ setting' = setting /\ MayFail
          /\ \/ process' = process /\ Fails("crash")
             \/ /\ process' = Off(process'.stops)
                /\ \/ process'.stops = process.stops + 1
                   \/ process.phase = "stopping" /\ process'.stops = process.stops

LEMMA NothingComes == ASSUME TypeInv, commands' = commands PROVE \E more : Coming(more) /\ commands' = commands \o more
  <1>1. PICK more : more = <<>>
    OBVIOUS
  <1>2. commands \in Seq(CommandType)
    BY DEF TypeInv, CommandsOK
  <1>3. commands \o more = commands
    BY <1>1, <1>2
  <1>4. Coming(more)
    BY <1>1 DEF Coming
  <1> QED
    BY <1>3, <1>4

LEMMA ProcessStepIs ==
    ASSUME TypeInv, ProcessNext
    PROVE  (Aside /\ Elsewhere) \/ Ending
  <1>1. setting' = setting /\ MayFail
    BY ProcessNextIs, ProcessTyped DEF TypeInv
  <1>2. \/ Staying /\ Stays
        \/ /\ Forgets /\ process' = Off(process'.stops)
           /\ \/ process'.stops = process.stops + 1
              \/ process.phase = "stopping" /\ process'.stops = process.stops
    BY DEF ProcessNext, GoesOn, Staying, Exit, InterruptEarly, Off
  <1>3. CASE Staying /\ Stays
    <2>1. UNCHANGED <<memory, redis, known, owner, root, asked, commands, step, answer, events,
                      snapshots>>
      BY <1>3 DEF Stays, handlerVars
    <2> QED
      BY <1>1, <1>3, <2>1, NothingComes DEF Aside, Elsewhere
  <1>4. CASE ~(Staying /\ Stays)
    BY <1>1, <1>2, <1>4 DEF Forgets, Ending
  <1> QED
    BY <1>2, <1>3, <1>4

LEMMA OperatorStepIs ==
    ASSUME TypeInv, OperatorNext
    PROVE  Aside /\ Elsewhere
  <1>1. OthersOK /\ OperatorOK /\ TopicsOK
    BY TypeParts DEF TypeInv
  <1>2. ASSUME NEW next, NEW more, Ends(next, more) PROVE Elsewhere /\ MayFail
    BY <1>2 DEF Ends, Elsewhere, UpdateState, CommitRefused, MayFail
  <1>3. CASE HearStateEvent \/ HearSnapshot
    <2>1. /\ setting' = setting /\ UNCHANGED <<memory, redis, known, owner, root, handlerVars>>
          /\ \E next : Ends(next, batches)
      BY <1>1, <1>3, HearIs
    <2> QED
      BY <1>2, <2>1, NothingComes DEF Aside, handlerVars
  <1>4. CASE Execute
    <2>1. /\ setting' = setting /\ UNCHANGED <<memory, redis, known, owner, root, handlerVars>>
          /\ (\E more : Ends(LoadState, more)) \/ (Fails("state") /\ process' = process)
      BY <1>1, <1>4, ExecuteIs
    <2>2. Elsewhere /\ MayFail
      BY <1>2, <2>1 DEF Elsewhere, MayFail
    <2> QED
      BY <2>1, <2>2, NothingComes DEF Aside, handlerVars
  <1>5. CASE StartOperator \/ OnTimer \/ CrashOperator \/ Hour
    <2>1. /\ UNCHANGED <<setting, process, memory, redis, known, owner, root, handlerVars>>
          /\ MayFail
      BY <1>5 DEF StartOperator, OnTimer, CrashOperator, Hour, repoVars, MayFail
    <2> QED
      BY <2>1, NothingComes DEF Aside, Elsewhere, handlerVars
  <1>6. CASE PublishCommands \/ PublishCommandsFails
    <2>1. /\ batches # <<>> /\ MayFail
          /\ UNCHANGED <<setting, process, memory, redis, known, owner, root, asked, step, answer,
                         events, snapshots>>
      BY <1>6 DEF PublishCommands, PublishCommandsFails, repoVars, MayFail
    <2>2. batches \in Seq(Batch)
      BY <1>1 DEF OperatorOK, Batch
    <2>3. Head(batches) \in SUBSET CmdId
      <3>1. Head(batches) \in Batch
        BY <2>1, <2>2, HeadTailProperties
      <3> QED
        BY <3>1 DEF Batch
    <2>4. PICK ids \in SUBSET CmdId :
             commands' = commands \o SetToSeq({SnapshotParticipantStateCmd(id) : id \in ids})
      BY <1>6, <2>3 DEF PublishCommands, PublishCommandsFails
    <2>5. PICK more : more = SetToSeq({SnapshotParticipantStateCmd(id) : id \in ids})
      OBVIOUS
    <2>6. Coming(more)
      BY <2>5, SnapshotCommands DEF Coming
    <2> QED
      BY <2>1, <2>4, <2>5, <2>6 DEF Aside, Elsewhere
  <1> QED
    BY <1>3, <1>4, <1>5, <1>6 DEF OperatorNext, Operate

LEMMA StepIs ==
    ASSUME TypeInv, [Next]_vars
    PROVE  (Aside /\ Elsewhere) \/ Ending \/ Handle \/ Request \/ Move \/ Expire
  <1>1. CASE ProcessNext
    BY <1>1, ProcessStepIs
  <1>2. CASE HandlerNext
    BY <1>2 DEF HandlerNext, CrashHandler, Ending, MayFail
  <1>3. CASE OperatorNext
    BY <1>3, OperatorStepIs
  <1>4. CASE ReadNext
    <2>1. /\ UNCHANGED <<setting, memory, redis, known, owner, root, handlerVars>>
          /\ \/ process' = process /\ (MayFail \/ Fails("readCrash"))
             \/ CommitRefused("StateEvt")
      BY <1>4, ReadIs DEF TypeInv
    <2>2. MayFail /\ Elsewhere
      BY <2>1 DEF MayFail, CommitRefused, Elsewhere
    <2> QED
      BY <2>1, <2>2, NothingComes DEF Aside, handlerVars
  <1>5. CASE UNCHANGED vars
    BY <1>5, NothingComes DEF Aside, Elsewhere, MayFail, vars, repoVars, handlerVars
  <1> QED
    BY <1>1, <1>2, <1>3, <1>4, <1>5 DEF Next

--------------------------------------------------------------------------------
(* Names: participants are created, transfers are prepared *)

Create(id) == Command("CreateParticipantCmd", id)
Creates(e) == e.name \in {"ParticipantCreatedStateEvt", "TransferPreparedStateEvt"}

Fits(e) == /\ e.name = "ParticipantCreatedStateEvt" => IsParticipants
           /\ e.name = "TransferPreparedStateEvt" => ~IsParticipants
FitsCmd(c) == /\ c.name = "CreateParticipantCmd" => IsParticipants
              /\ c.name = "PrepareTransferCmd" => ~IsParticipants
NamesOK == (\A k \in 1..Len(commands) : FitsCmd(commands[k])) /\ Fits(answer)

\* What comes in stands behind the rest.
LEMMA CommandsGrow ==
    ASSUME CommandsOK, NEW more, more \in Seq(CommandType), commands' = commands \o more
    PROVE  /\ commands # <<>> => commands' # <<>> /\ Cmd' = Cmd
           /\ Len(commands') \in Nat
           /\ \A k \in 1..Len(commands') : \/ k \in 1..Len(commands) /\ commands'[k] = commands[k]
                                           \/ \E j \in 1..Len(more) : commands'[k] = more[j]
  <1>1. commands \in Seq(CommandType) /\ Len(commands) \in Nat /\ Len(more) \in Nat
    BY DEF CommandsOK
  <1>2. /\ commands' \in Seq(CommandType) /\ Len(commands') = Len(commands) + Len(more)
        /\ \A i \in 1..(Len(commands) + Len(more)) :
              commands'[i] = IF i <= Len(commands) THEN commands[i] ELSE more[i - Len(commands)]
    BY <1>1, ConcatProperties
  <1>3. ASSUME NEW k \in 1..Len(commands')
        PROVE  \/ k \in 1..Len(commands) /\ commands'[k] = commands[k]
               \/ \E j \in 1..Len(more) : commands'[k] = more[j]
    <2>1. CASE k <= Len(commands)
      BY <1>1, <1>2, <2>1
    <2>2. CASE k > Len(commands)
      <3>1. k - Len(commands) \in 1..Len(more) /\ commands'[k] = more[k - Len(commands)]
        BY <1>1, <1>2, <2>2
      <3> QED
        BY <3>1
    <2> QED
      BY <1>1, <1>2, <2>1, <2>2
  <1>4. ASSUME commands # <<>> PROVE commands' # <<>> /\ Cmd' = Cmd
    <2>1. Len(commands) # 0 /\ Len(commands') # 0
      BY <1>1, <1>2, <1>4
    <2>2. commands'[1] = commands[1]
      BY <1>1, <1>2, <2>1
    <2>3. Head(commands) = commands[1] /\ Head(commands') = commands'[1]
      BY <1>1, <1>2, <2>1
    <2> QED
      BY <1>2, <2>1, <2>2, <2>3 DEF Cmd
  <1> QED
    BY <1>1, <1>2, <1>3, <1>4

LEMMA AsideIs ==
    ASSUME TypeInv, Aside
    PROVE  /\ commands # <<>> => commands' # <<>> /\ Cmd' = Cmd
           /\ \A k \in 1..Len(commands') :
                 \/ k \in 1..Len(commands) /\ commands'[k] = commands[k]
                 \/ commands'[k].name = "SnapshotParticipantStateCmd"
  <1>1. PICK more : Coming(more) /\ commands' = commands \o more
    BY DEF Aside
  <1>2. CommandsOK /\ more \in Seq(CommandType)
    BY <1>1 DEF TypeInv, Coming
  <1> QED
    BY <1>1, <1>2, CommandsGrow DEF Coming

\* The next request is one its application handles.
LEMMA RequestIs ==
    ASSUME TypeInv, Request
    PROVE  /\ UNCHANGED <<setting, process, memory, redis, known, owner, root, faults, step, answer,
                          events, snapshots>>
           /\ asked \in Nat /\ asked' = asked + 1 /\ asked + 1 \in 1..Len(setting.requests)
           /\ setting.requests[asked + 1] \in CommandType
           /\ FitsCmd(setting.requests[asked + 1])
           /\ setting.requests[asked + 1].name \in HandledBy(setting.application)
           /\ commands' = Append(commands, setting.requests[asked + 1])
           /\ commands # <<>> => commands' # <<>> /\ Cmd' = Cmd
           /\ \A k \in 1..Len(commands') :
                 \/ k \in 1..Len(commands) /\ commands'[k] = commands[k]
                 \/ commands'[k] = setting.requests[asked + 1]
  <1>1. /\ asked < Len(setting.requests) /\ asked' = asked + 1
        /\ commands' = Append(commands, setting.requests[asked + 1])
        /\ UNCHANGED <<repoVars, step, answer, events, snapshots>>
    BY DEF Request
  <1>2. asked \in 0..Len(setting.requests) /\ Len(setting.requests) \in Nat /\ setting \in Settings
    BY SettingFacts DEF CommandsOK, FaultsOK, TypeInv
  <1>3. asked + 1 \in 1..Len(setting.requests)
    BY <1>1, <1>2
  <1>4. PICK r : r = setting.requests[asked + 1]
    OBVIOUS
  <1>5. r \in CommandType
    BY <1>2, <1>3, <1>4, SettingFacts
  <1>6. r.name \in HandledBy(setting.application)
    <2>1. DOMAIN setting.requests = 1..Len(setting.requests)
      BY <1>2, SettingFacts
    <2> QED
      BY <1>2, <1>3, <1>4, <2>1, RepositoriesAssumption DEF RepositoriesAssumption
  <1>7. FitsCmd(r)
    BY <1>6 DEF FitsCmd, HandledBy, ParticipantCmd, TransferCmd, IsParticipants
  <1>8. PICK more : more = <<r>>
    OBVIOUS
  <1>9. /\ more \in Seq(CommandType) /\ commands' = commands \o more
        /\ \A j \in 1..Len(more) : more[j] = r
    BY <1>1, <1>4, <1>5, <1>8 DEF CommandsOK, TypeInv
  <1>10. /\ commands # <<>> => commands' # <<>> /\ Cmd' = Cmd
         /\ \A k \in 1..Len(commands') :
                 \/ k \in 1..Len(commands) /\ commands'[k] = commands[k]
                 \/ commands'[k] = r
    BY <1>9, CommandsGrow DEF TypeInv
  <1> QED
    BY <1>1, <1>2, <1>3, <1>4, <1>5, <1>6, <1>7, <1>10 DEF repoVars

--------------------------------------------------------------------------------
(* Rulings: two of them create, the others change what is there *)

Changing == ChangePosition \/ SnapshotParticipant \/ AckPayerFundsReserved \/ FulfilTransfer
            \/ AckPayeeFundsCommitted

Answers(evt) == /\ answer' = evt
                /\ step' = IF answer.name = "recovered" THEN "tick" ELSE "publish"

\* A change counts on; a snapshot repeats.
IsSnapshot(e) == e.name = "ParticipantStateSnapshotEvt"
Advances(e)   == e.value = IF IsSnapshot(e) THEN root ELSE root + 1

LEMMA CreateParticipantIs ==
    ASSUME CreateParticipant
    PROVE  /\ commands # <<>> /\ step = "handle" /\ Cmd.name = "CreateParticipantCmd"
           /\ UNCHANGED <<setting, process, memory, redis, known, owner, faults, asked, commands,
                          events, snapshots>>
           /\ \/ root # None /\ root' = root /\ Refused
              \/ /\ root = None /\ root' = 0
                 /\ Answers(Event("ParticipantCreatedStateEvt", Cmd.id, 0))
  <1>1. /\ commands # <<>> /\ step = "handle" /\ Cmd.name = "CreateParticipantCmd" /\ known' = known
        /\ \/ root # None /\ Refused
           \/ root = None /\ Made(ParticipantCreatedStateEvt(Cmd.id, 0))
    BY DEF CreateParticipant, At
  <1>2. CASE root # None /\ Refused
    BY <1>1, <1>2 DEF Refused
  <1>3. CASE root = None /\ Made(ParticipantCreatedStateEvt(Cmd.id, 0))
    BY <1>1, <1>3 DEF Made, Published, Answers, ParticipantCreatedStateEvt, Event
  <1> QED
    BY <1>1, <1>2, <1>3

LEMMA PrepareTransferIs ==
    ASSUME PrepareTransfer
    PROVE  /\ commands # <<>> /\ step = "load" /\ Cmd.name = "PrepareTransferCmd"
           /\ UNCHANGED <<setting, process, memory, redis, owner, faults, asked, commands, events,
                          snapshots>>
           /\ Opened("Cmd", "consumer")
           /\ \E new \in BOOLEAN :
                 /\ AddId(Cmd.id, new)
                 /\ \/ ~new /\ root' = root /\ Refused
                    \/ /\ new /\ root' = RECEIVED_PREPARE
                       /\ Answers(Event("TransferPreparedStateEvt", Cmd.id, RECEIVED_PREPARE))
  <1>1. /\ commands # <<>> /\ step = "load" /\ Cmd.name = "PrepareTransferCmd"
        /\ Opened("Cmd", "consumer")
    BY DEF PrepareTransfer, At
  <1>2. PICK new \in BOOLEAN :
           /\ AddId(Cmd.id, new)
           /\ \/ ~new /\ Refused
              \/ new /\ Made(TransferPreparedStateEvt(Cmd.id, RECEIVED_PREPARE))
    BY DEF PrepareTransfer
  <1>3. CASE ~new /\ Refused
    BY <1>1, <1>2, <1>3 DEF Refused
  <1>4. CASE new /\ Made(TransferPreparedStateEvt(Cmd.id, RECEIVED_PREPARE))
    BY <1>1, <1>2, <1>4 DEF Made, Published, Answers, TransferPreparedStateEvt, Event
  <1> QED
    BY <1>2, <1>3, <1>4

LEMMA ChangingIs ==
    ASSUME Changing
    PROVE  /\ commands # <<>> /\ step = "handle"
           /\ Cmd.name # "CreateParticipantCmd"
           /\ UNCHANGED <<setting, process, redis, known, owner, faults, asked, commands, events,
                          snapshots>>
           /\ \/ Refused /\ root' = root /\ memory' = memory
              \/ \E evt : /\ root # None /\ evt.id = Cmd.id /\ ~Creates(evt) /\ Answers(evt)
                          /\ Advances(evt) /\ root' = evt.value
                          /\ memory' = memory \/ Remember(Cmd.id, evt.value)
  <1> DEFINE Change(evt) == /\ root # None /\ evt.id = Cmd.id /\ ~Creates(evt) /\ Changed(evt)
                            /\ Advances(evt)
  <1>1. /\ commands # <<>> /\ step = "handle" /\ Cmd.name # "CreateParticipantCmd" /\ known' = known
    BY DEF Changing, ChangePosition, SnapshotParticipant, AckPayerFundsReserved, FulfilTransfer,
           AckPayeeFundsCommitted, At
  <1>2. Refused \/ \E evt : Change(evt)
    <2>1. CASE ChangePosition
      <3>1. CASE root # None /\ Changed(ParticipantPositionChangedStateEvt(Cmd.id, root + 1))
        <4>1. Change(ParticipantPositionChangedStateEvt(Cmd.id, root + 1))
          BY <3>1 DEF ParticipantPositionChangedStateEvt, Event, Creates, Advances, IsSnapshot
        <4> QED
          BY <4>1
      <3> QED
        BY <2>1, <3>1 DEF ChangePosition
    <2>2. CASE SnapshotParticipant
      <3>1. CASE root # None /\ Changed(ParticipantStateSnapshotEvt(Cmd.id, root))
        <4>1. Change(ParticipantStateSnapshotEvt(Cmd.id, root))
          BY <3>1 DEF ParticipantStateSnapshotEvt, Event, Creates, Advances, IsSnapshot
        <4> QED
          BY <4>1
      <3> QED
        BY <2>2, <3>1 DEF SnapshotParticipant
    <2>3. CASE AckPayerFundsReserved
      <3>1. CASE root = RECEIVED_PREPARE /\ Changed(TransferStateChangedStateEvt(Cmd.id, RESERVED))
        <4>1. Change(TransferStateChangedStateEvt(Cmd.id, RESERVED))
          BY <3>1 DEF TransferStateChangedStateEvt, Event, Creates, RECEIVED_PREPARE, RESERVED, None,
                 Advances, IsSnapshot
        <4> QED
          BY <4>1
      <3> QED
        BY <2>3, <3>1 DEF AckPayerFundsReserved
    <2>4. CASE FulfilTransfer
      <3>1. CASE root = RESERVED /\ Changed(TransferFulfiledStateEvt(Cmd.id, RECEIVED_FULFIL))
        <4>1. Change(TransferFulfiledStateEvt(Cmd.id, RECEIVED_FULFIL))
          BY <3>1 DEF TransferFulfiledStateEvt, Event, Creates, RESERVED, RECEIVED_FULFIL, None,
                 Advances, IsSnapshot
        <4> QED
          BY <4>1
      <3> QED
        BY <2>4, <3>1 DEF FulfilTransfer
    <2>5. CASE AckPayeeFundsCommitted
      <3>1. CASE root = RECEIVED_FULFIL /\ Changed(TransferStateChangedStateEvt(Cmd.id, COMMITTED))
        <4>1. Change(TransferStateChangedStateEvt(Cmd.id, COMMITTED))
          BY <3>1 DEF TransferStateChangedStateEvt, Event, Creates, RECEIVED_FULFIL, COMMITTED, None,
                 Advances, IsSnapshot
        <4> QED
          BY <4>1
      <3> QED
        BY <2>5, <3>1 DEF AckPayeeFundsCommitted
    <2> QED
      BY <2>1, <2>2, <2>3, <2>4, <2>5 DEF Changing
  <1> HIDE DEF Change
  <1>3. CASE Refused
    BY <1>1, <1>3 DEF Refused
  <1>4. CASE ~Refused
    <2>1. PICK evt : Change(evt)
      BY <1>2, <1>4
    <2>2. root # None /\ evt.id = Cmd.id /\ ~Creates(evt) /\ Changed(evt) /\ Advances(evt)
      BY <2>1 DEF Change
    <2>3. /\ UNCHANGED <<setting, process, redis, owner, faults, asked, commands, events, snapshots>>
          /\ Answers(evt) /\ root' = evt.value
          /\ memory' = memory \/ Remember(Cmd.id, evt.value)
      BY <2>2 DEF Changed, Published, Answers
    <2> QED
      BY <1>1, <2>2, <2>3
  <1> QED
    BY <1>3, <1>4

\* What the repository says of the ids it keeps in redis, and adds there.
LEMMA AddIs ==
    ASSUME RepoOK, NEW id \in Id, NEW new, AddId(id, new)
    PROVE  /\ known["redis"] \subseteq known'["redis"]
           /\ setting.duplicates # "InMemoryTransferDuplicateRepo" =>
                 /\ new = (id \notin known["redis"])
                 /\ known'["redis"] = known["redis"] \union {id}
  <1>1. known \in [Proc \union {"redis"} -> SUBSET Id] /\ owner \in Proc /\ "redis" \notin Proc
    BY ConstantFacts DEF RepoOK
  <1>2. CASE RedisAdd(id, new) \/ ShardedAdd(id, new)
    BY <1>1, <1>2 DEF RedisAdd, ShardedAdd
  <1>3. CASE InMemoryAdd(id, new)
    BY <1>1, <1>3 DEF InMemoryAdd
  <1> QED
    BY <1>2, <1>3 DEF AddId

LEMMA HandleIs ==
    ASSUME Handle
    PROVE  \/ LoadRoot \/ Recover \/ CreateParticipant \/ PrepareTransfer \/ Changing
           \/ NextTick \/ PublishAnswer \/ PublishRefused \/ StoreRoot \/ Commit
  BY DEF Handle, Changing

LEMMA CommitIs ==
    ASSUME CommandsOK, Commit
    PROVE  /\ Len(commands') \in Nat
           /\ \A k \in 1..Len(commands') :
                 k + 1 \in 1..Len(commands) /\ commands'[k] = commands[k + 1]
           /\ Len(commands) = Len(commands') + 1
           /\ Cmd = commands[1] /\ commands # <<>>
  <1>1. commands # <<>> /\ commands' = Tail(commands) /\ commands \in Seq(CommandType)
    BY DEF Commit, CommandsOK
  <1>2. /\ Len(commands') = Len(commands) - 1
        /\ \A i \in 1..Len(commands') : commands'[i] = commands[i + 1]
        /\ Len(commands) \in Nat /\ Len(commands') \in Nat
    BY <1>1, HeadTailProperties
  <1>3. \A i \in 1..Len(commands') : i + 1 \in 1..Len(commands)
    BY <1>2
  <1> QED
    BY <1>1, <1>2, <1>3, CmdIs

\* All that happens to the names.
LEMMA NamesStep ==
    ASSUME TypeInv, NamesOK, [Next]_vars
    PROVE  NamesOK'
  <1>1. setting' = setting
    BY StepIs, HandlerTyped, TypeParts, RequestIs
       DEF Aside, Ending, Leaves, HandlerNext, Move, Expire
  <1>2. /\ \A c : FitsCmd(c)' <=> FitsCmd(c)
        /\ \A e : Fits(e)' <=> Fits(e)
    BY <1>1 DEF FitsCmd, Fits, IsParticipants
  <1>3. ASSUME Fits(answer)', \A k \in 1..Len(commands') : FitsCmd(commands'[k])
        PROVE  NamesOK'
    BY <1>1, <1>3 DEF NamesOK, FitsCmd, IsParticipants
  <1>4. Fits(NoEvent) /\ \A id, v : Fits(Event("recovered", id, v))
    BY DEF Fits, NoEvent, Event
  <1>5. ASSUME commands' = commands PROVE \A k \in 1..Len(commands') : FitsCmd(commands'[k])
    BY <1>2, <1>5 DEF NamesOK
  <1>6. ASSUME answer' = answer \/ answer' = NoEvent PROVE Fits(answer)'
    BY <1>2, <1>4, <1>6 DEF NamesOK, Fits
  <1>7. CASE Aside
    <2>1. answer' = answer
      BY <1>7 DEF Aside
    <2>2. \A k \in 1..Len(commands') : FitsCmd(commands'[k])
      BY <1>2, <1>7, AsideIs DEF NamesOK, FitsCmd
    <2> QED
      BY <1>3, <1>6, <2>1, <2>2
  <1>8. CASE Ending
    <2>1. answer' = NoEvent /\ commands' = commands
      BY <1>8 DEF Ending, HandlerForgets, Fresh
    <2> QED
      BY <1>3, <1>5, <1>6, <2>1
  <1>9. CASE Request
    <2>1. \A k \in 1..Len(commands') : FitsCmd(commands'[k])
      BY <1>2, <1>9, RequestIs DEF NamesOK
    <2>2. answer' = answer
      BY <1>9, RequestIs
    <2> QED
      BY <1>3, <1>6, <2>1, <2>2
  <1>10. CASE Move \/ Expire
    <2>1. answer' = answer /\ commands' = commands
      BY <1>10 DEF Move, Expire, handlerVars
    <2> QED
      BY <1>3, <1>5, <1>6, <2>1
  <1>11. CASE LoadRoot \/ NextTick \/ PublishAnswer \/ PublishRefused \/ StoreRoot
    <2>1. answer' = answer /\ commands' = commands
      BY <1>11 DEF LoadRoot, NextTick, PublishAnswer, PublishRefused, StoreRoot
    <2> QED
      BY <1>3, <1>5, <1>6, <2>1
  <1>12. CASE Recover
    <2>1. commands' = commands
      BY <1>12 DEF Recover, Recovered
    <2>2. answer' = NoEvent \/ answer' = Event("recovered", Cmd.id, None)
      BY <1>12 DEF Recover, Recovering
    <2>3. Fits(answer)'
      BY <1>2, <1>4, <2>2 DEF Fits
    <2> QED
      BY <1>3, <1>5, <2>1, <2>3
  <1>13. ASSUME commands # <<>> PROVE FitsCmd(Cmd)
    <2>1. Cmd = commands[1] /\ 1 \in 1..Len(commands)
      BY <1>13, CmdIs DEF TypeInv, CommandsOK
    <2> QED
      BY <2>1 DEF NamesOK
  <1>14. CASE CreateParticipant
    <2>1. commands' = commands
      BY <1>14, CreateParticipantIs
    <2>2. answer' = NoEvent \/ answer' = Event("ParticipantCreatedStateEvt", Cmd.id, 0)
      BY <1>14, CreateParticipantIs DEF Refused, Answers
    <2>3. IsParticipants
      BY <1>13, <1>14, CreateParticipantIs DEF FitsCmd
    <2>4. Fits(Event("ParticipantCreatedStateEvt", Cmd.id, 0))
      BY <2>3 DEF Fits, Event
    <2>5. Fits(answer)'
      BY <1>2, <1>4, <2>2, <2>4 DEF Fits
    <2> QED
      BY <1>3, <1>5, <2>1, <2>5
  <1>15. CASE PrepareTransfer
    <2>1. commands' = commands
      BY <1>15, PrepareTransferIs
    <2>2. \/ answer' = NoEvent
          \/ answer' = Event("TransferPreparedStateEvt", Cmd.id, RECEIVED_PREPARE)
      BY <1>15, PrepareTransferIs DEF Refused, Answers
    <2>3. ~IsParticipants
      BY <1>13, <1>15, PrepareTransferIs DEF FitsCmd
    <2>4. Fits(Event("TransferPreparedStateEvt", Cmd.id, RECEIVED_PREPARE))
      BY <2>3 DEF Fits, Event
    <2>5. Fits(answer)'
      BY <1>2, <1>4, <2>2, <2>4 DEF Fits
    <2> QED
      BY <1>3, <1>5, <2>1, <2>5
  <1>16. CASE Changing
    <2>1. commands' = commands
      BY <1>16, ChangingIs
    <2>2. answer' = NoEvent \/ ~Creates(answer')
      BY <1>16, ChangingIs DEF Refused, Answers
    <2>3. Fits(answer)'
      BY <1>2, <1>4, <2>2 DEF Fits, Creates
    <2> QED
      BY <1>3, <1>5, <2>1, <2>3
  <1>17. CASE Commit
    <2>1. answer' = NoEvent
      BY <1>17 DEF Commit, Fresh
    <2>2. \A k \in 1..Len(commands') : FitsCmd(commands'[k])
      BY <1>2, <1>17, CommitIs DEF NamesOK, TypeInv
    <2> QED
      BY <1>3, <1>6, <2>1, <2>2
  <1> QED
    BY <1>7, <1>8, <1>9, <1>10, <1>11, <1>12, <1>14, <1>15, <1>16, <1>17, StepIs, HandleIs

--------------------------------------------------------------------------------
(* Created once *)

\* Who may create finds nothing created: the fetch that went to the end has met no
\* event, or the duplicate repository did not have the id.
Excused == "fetch" \in faults.kinds \/ setting.duplicates = "InMemoryTransferDuplicateRepo"

\* Something that creates is answered, and will be published.
Answering == step \in {"tick", "publish"} /\ Creates(answer)
Unsure    == step = "handle" /\ root = None /\ Cmd.name = "CreateParticipantCmd"

OnceOK ==
    /\ \A id \in Id : \A j, k \in Created(id) : j = k
    /\ Unsure \/ Answering => Created(Cmd.id) = {}
    /\ ~IsParticipants =>
          /\ \A id \in Id : Created(id) # {} => id \in known["redis"]
          /\ Answering => Cmd.id \in known["redis"]

LEMMA CreatedIs ==
    ASSUME TopicsOK, NEW id
    PROVE  /\ Created(id) = {k \in 1..Len(events) : events[k].id = id /\ Creates(events[k])}
           /\ Created(id) \subseteq 1..Len(events) /\ Len(events) \in Nat
  <1>1. DOMAIN events = 1..Len(events) /\ Len(events) \in Nat
    BY DEF TopicsOK
  <1> QED
    BY <1>1 DEF Created, Creates

LEMMA CreatedStill ==
    ASSUME events' = events
    PROVE  \A id : Created(id)' = Created(id)
  BY DEF Created

LEMMA CreatedMore ==
    ASSUME TopicsOK, NEW e \in StateEvent, events' = Append(events, e), NEW id
    PROVE  Created(id)' = IF e.id = id /\ Creates(e) THEN Created(id) \union {Len(events) + 1}
                          ELSE Created(id)
  <1>1. events \in Seq(StateEvent) /\ Len(events) \in Nat
    BY DEF TopicsOK
  <1>2. /\ events' \in Seq(StateEvent) /\ Len(events') = Len(events) + 1
        /\ \A k \in 1..Len(events) : events'[k] = events[k]
        /\ events'[Len(events) + 1] = e
    BY <1>1, AppendProperties
  <1>3. Created(id)' = {k \in 1..(Len(events) + 1) : events'[k].id = id /\ Creates(events'[k])}
    <2>1. DOMAIN events' = 1..(Len(events) + 1)
      BY <1>2
    <2> QED
      BY <2>1 DEF Created, Creates
  <1>4. Created(id) = {k \in 1..Len(events) : events[k].id = id /\ Creates(events[k])}
    BY CreatedIs
  <1>5. 1..(Len(events) + 1) = (1..Len(events)) \union {Len(events) + 1}
    BY <1>1
  <1> QED
    BY <1>2, <1>3, <1>4, <1>5

\* Failures are only added, and settings stay.
LEMMA AlwaysIs ==
    ASSUME TypeInv, [Next]_vars
    PROVE  setting' = setting /\ faults.kinds \subseteq faults'.kinds
  <1>1. setting' = setting /\ MayFail
    BY StepIs, HandlerTyped, TypeParts, RequestIs
       DEF Aside, Ending, Leaves, HandlerNext, Move, Expire
  <1>2. CASE \E kind : Fails(kind)
    <2>1. PICK kind : Fails(kind)
      BY <1>2
    <2> QED
      BY <1>1, <2>1 DEF Fails
  <1> QED
    BY <1>1, <1>2 DEF MayFail

\* As long as nothing is published, it depends on where the handler comes to stand.
LEMMA OnceStill ==
    ASSUME OnceOK, setting' = setting, events' = events, known["redis"] \subseteq known'["redis"],
           NEW id, id = Cmd',
           Unsure' \/ Answering' => Created(id.id) = {},
           ~IsParticipants /\ Answering' => id.id \in known'["redis"]
    PROVE  OnceOK'
  <1>1. IsParticipants' = IsParticipants
    BY DEF IsParticipants
  <1>2. \A i : Created(i)' = Created(i)
    BY CreatedStill
  <1>3. Created(Cmd.id)' = Created(id.id)
    BY CreatedStill DEF Created
  <1>4. (\A i \in Id : \A j, k \in Created(i) : j = k)'
    BY <1>2 DEF OnceOK
  <1>5. (Unsure \/ Answering => Created(Cmd.id) = {})'
    BY <1>3
  <1>6. (\A i \in Id : Created(i) # {} => i \in known["redis"])' \/ IsParticipants
    BY <1>2 DEF OnceOK
  <1>7. (Answering => Cmd.id \in known["redis"])' \/ IsParticipants
    OBVIOUS
  <1> QED
    BY <1>1, <1>4, <1>5, <1>6, <1>7 DEF OnceOK

\* Where the handler stands still, nothing changes.
LEMMA OnceStands ==
    ASSUME TypeInv, OnceOK, UNCHANGED <<setting, events, step, root, answer>>,
           commands # <<>> => Cmd' = Cmd, known["redis"] \subseteq known'["redis"]
    PROVE  OnceOK'
  <1>1. PICK id : id = Cmd'
    OBVIOUS
  <1>2. (Unsure' \/ Answering') => commands # <<>>
    BY DEF Unsure, Answering, TypeInv, HandOK
  <1>3. commands # <<>> => (Unsure' <=> Unsure) /\ (Answering' <=> Answering) /\ id = Cmd
    BY <1>1 DEF Unsure, Answering
  <1>4. Unsure' \/ Answering' => Created(id.id) = {}
    BY <1>2, <1>3 DEF OnceOK
  <1>5. ~IsParticipants /\ Answering' => id.id \in known'["redis"]
    BY <1>2, <1>3 DEF OnceOK
  <1> QED
    BY <1>1, <1>4, <1>5, OnceStill

\* And where it comes to stand without having created anything.
LEMMA OncePasses ==
    ASSUME OnceOK, UNCHANGED <<setting, events>>, ~Unsure', ~Answering',
           known["redis"] \subseteq known'["redis"]
    PROVE  OnceOK'
  <1>1. PICK id : id = Cmd'
    OBVIOUS
  <1> QED
    BY <1>1, OnceStill

LEMMA LoadOnce ==
    ASSUME TypeInv, OnceOK, LoadRoot
    PROVE  OnceOK'
  <1>1. /\ UNCHANGED <<setting, known, commands, events>> /\ step' \in {"recover", "handle"}
        /\ step' = "handle" /\ root' = None => Cmd.name \notin ParticipantCmd
    BY DEF LoadRoot
  <1>2. Cmd' = Cmd
    BY <1>1 DEF Cmd
  <1>3. ~Unsure' /\ ~Answering'
    BY <1>1, <1>2 DEF Unsure, Answering, ParticipantCmd
  <1> QED
    BY <1>1, <1>3, OncePasses

LEMMA RecoverOnce ==
    ASSUME TypeInv, OnceOK, Recover, "fetch" \notin faults'.kinds
    PROVE  OnceOK'
  <1>1. /\ UNCHANGED <<setting, known, commands, events>> /\ step' = "handle"
    BY DEF Recover, Recovered
  <1>2. Cmd' = Cmd
    BY <1>1 DEF Cmd
  <1>3. ~ Fails("fetch")
    BY DEF Fails
  <1>4. PICK s \in FetchAll(snapshots, Cmd.id), e \in FetchAll(events, Cmd.id) : Recovered(s, e)
    BY <1>3 DEF Recover
  <1>5. PICK id, v : id = Cmd.id /\ v = root'
    OBVIOUS
  <1>6. v = None => \A k \in 1..Len(events) : events[k].id # id
    <2>1. v = Replay(FetchLast(s), e)
      BY <1>4, <1>5 DEF Recovered
    <2>2. TopicsOK
      BY DEF TypeInv
    <2>3. s \in FetchAll(snapshots, id) \union FetchCut(snapshots, id)
      BY <1>4, <1>5
    <2>4. e \in FetchAll(events, id) \union FetchCut(events, id) /\ e \in FetchAll(events, id)
      BY <1>4, <1>5
    <2>5. v = None /\ e \in FetchAll(events, id) => \A k \in 1..Len(events) : events[k].id # id
      BY <2>1, <2>2, <2>3, <2>4, RecoveredIs
    <2> QED
      BY <2>4, <2>5
  <1>7. v = None => Created(id) = {}
    BY <1>6, CreatedIs DEF TypeInv
  <1>8. PICK c : c = Cmd'
    OBVIOUS
  <1>9. ~Answering' /\ (Unsure' => Created(c.id) = {})
    BY <1>1, <1>2, <1>5, <1>7, <1>8 DEF Unsure, Answering
  <1> QED
    BY <1>1, <1>8, <1>9, OnceStill

LEMMA RulingOnce ==
    ASSUME TypeInv, NamesOK, OnceOK, setting.duplicates # "InMemoryTransferDuplicateRepo",
           CreateParticipant \/ PrepareTransfer \/ Changing
    PROVE  OnceOK'
  <1>1. ~Creates(NoEvent)
    BY DEF Creates, NoEvent, Event
  <1>2. CASE CreateParticipant
    <2>1. /\ step = "handle" /\ Cmd.name = "CreateParticipantCmd" /\ commands # <<>>
          /\ UNCHANGED <<setting, known, commands, events>>
          /\ \/ Refused
             \/ root = None /\ Answers(Event("ParticipantCreatedStateEvt", Cmd.id, 0))
      BY <1>2, CreateParticipantIs
    <2>2. PICK c : c = Cmd' /\ c = Cmd
      BY <2>1 DEF Cmd
    <2>3. CASE Refused
      <3>1. ~Unsure' /\ ~Answering'
        BY <1>1, <2>3 DEF Refused, Unsure, Answering
      <3> QED
        BY <2>1, <3>1, OncePasses
    <2>4. CASE root = None /\ Answers(Event("ParticipantCreatedStateEvt", Cmd.id, 0))
      <3>1. ~Unsure'
        BY <2>4 DEF Answers, Unsure
      <3>2. Created(c.id) = {}
        BY <2>1, <2>2, <2>4 DEF OnceOK, Unsure
      <3>3. IsParticipants
        <4>1. Cmd = commands[1] /\ 1 \in 1..Len(commands)
          BY <2>1, CmdIs DEF TypeInv, CommandsOK
        <4> QED
          BY <2>1, <4>1 DEF NamesOK, FitsCmd
      <3> QED
        BY <2>1, <2>2, <3>1, <3>2, <3>3, OnceStill
    <2> QED
      BY <2>1, <2>3, <2>4
  <1>3. CASE PrepareTransfer
    <2>1. /\ Cmd.name = "PrepareTransferCmd" /\ commands # <<>>
          /\ UNCHANGED <<setting, commands, events>>
      BY <1>3, PrepareTransferIs
    <2>2. PICK new \in BOOLEAN :
             /\ AddId(Cmd.id, new)
             /\ \/ ~new /\ Refused
                \/ new /\ Answers(Event("TransferPreparedStateEvt", Cmd.id, RECEIVED_PREPARE))
      BY <1>3, PrepareTransferIs
    <2>3. PICK c : c = Cmd' /\ c = Cmd
      BY <2>1 DEF Cmd
    <2>4. Cmd.id \in Id
      BY <2>1, CmdIs DEF TypeInv
    <2>5. /\ new = (Cmd.id \notin known["redis"])
          /\ known'["redis"] = known["redis"] \union {Cmd.id}
      <3>1. PICK id : id = Cmd.id
        OBVIOUS
      <3>2. /\ setting.duplicates # "InMemoryTransferDuplicateRepo" =>
                 /\ new = (id \notin known["redis"])
                 /\ known'["redis"] = known["redis"] \union {id}
        BY <2>2, <2>4, <3>1, AddIs DEF TypeInv
      <3> QED
        BY <3>1, <3>2
    <2>6. CASE ~new /\ Refused
      <3>1. ~Unsure' /\ ~Answering'
        BY <1>1, <2>6 DEF Refused, Unsure, Answering
      <3> QED
        BY <2>1, <2>5, <3>1, OncePasses
    <2>7. CASE new /\ Answers(Event("TransferPreparedStateEvt", Cmd.id, RECEIVED_PREPARE))
      <3>1. ~Unsure'
        BY <2>7 DEF Answers, Unsure
      <3>2. ~IsParticipants
        <4>1. Cmd = commands[1] /\ 1 \in 1..Len(commands)
          BY <2>1, CmdIs DEF TypeInv, CommandsOK
        <4> QED
          BY <2>1, <4>1 DEF NamesOK, FitsCmd
      <3>3. Created(c.id) = {}
        BY <2>3, <2>4, <2>5, <2>7, <3>2 DEF OnceOK
      <3>4. c.id \in known'["redis"]
        BY <2>3, <2>5
      <3> QED
        BY <2>1, <2>3, <2>5, <3>1, <3>3, <3>4, OnceStill
    <2> QED
      BY <2>2, <2>6, <2>7
  <1>4. CASE Changing
    <2>1. /\ UNCHANGED <<setting, known, commands, events>>
          /\ \/ Refused
             \/ \E evt : ~Creates(evt) /\ Answers(evt)
      BY <1>4, ChangingIs
    <2>2. ~Unsure' /\ ~Answering'
      BY <1>1, <2>1 DEF Refused, Answers, Unsure, Answering
    <2> QED
      BY <2>1, <2>2, OncePasses
  <1> QED
    BY <1>2, <1>3, <1>4

\* The event that creates is the first.
LEMMA PublishOnce ==
    ASSUME TypeInv, NamesOK, OnceOK, PublishAnswer
    PROVE  OnceOK'
  <1>1. /\ commands # <<>> /\ step = "publish" /\ step' = "store"
        /\ UNCHANGED <<repoVars, commands, answer>>
    BY DEF PublishAnswer
  <1>2. /\ Decided(answer) /\ Cmd.id \in Id
        /\ events' = events \/ (answer \in StateEvent /\ events' = Append(events, answer))
    BY PublishAnswerIs DEF TypeInv, HandlerOK
  <1>3. ~Unsure' /\ ~Answering'
    BY <1>1 DEF Unsure, Answering
  <1>4. UNCHANGED <<setting, known>>
    BY <1>1 DEF repoVars
  <1>5. CASE events' = events
    BY <1>3, <1>4, <1>5, OncePasses
  <1>6. CASE answer \in StateEvent /\ events' = Append(events, answer) /\ ~Creates(answer)
    <2>1. \A id : Created(id)' = Created(id)
      BY <1>6, CreatedMore DEF TypeInv
    <2>2. IsParticipants' = IsParticipants
      BY <1>4 DEF IsParticipants
    <2> QED
      BY <1>3, <1>4, <2>1, <2>2 DEF OnceOK
  <1>7. CASE answer \in StateEvent /\ events' = Append(events, answer) /\ Creates(answer)
    <2>1. answer.id = Cmd.id /\ Answering
      BY <1>1, <1>2, <1>7 DEF Decided, Answering
    <2>2. Created(Cmd.id) = {}
      BY <2>1 DEF OnceOK
    <2>3. \A id : Created(id)' = IF answer.id = id THEN Created(id) \union {Len(events) + 1}
                                 ELSE Created(id)
      BY <1>7, CreatedMore DEF TypeInv
    <2>4. (\A id \in Id : \A j, k \in Created(id) : j = k)'
      BY <2>1, <2>2, <2>3 DEF OnceOK
    <2>5. IsParticipants' = IsParticipants
      BY <1>4 DEF IsParticipants
    <2>6. ~IsParticipants => Cmd.id \in known["redis"]
      BY <2>1 DEF OnceOK
    <2>7. ~IsParticipants => (\A id \in Id : Created(id) # {} => id \in known["redis"])'
      BY <1>4, <2>1, <2>3, <2>6 DEF OnceOK
    <2> QED
      BY <1>3, <2>4, <2>5, <2>7 DEF OnceOK
  <1> QED
    BY <1>2, <1>5, <1>6, <1>7

LEMMA OnceStep ==
    ASSUME TypeInv, NamesOK, Excused \/ OnceOK, [Next]_vars
    PROVE  (Excused \/ OnceOK)'
  <1>1. setting' = setting /\ faults.kinds \subseteq faults'.kinds
    BY AlwaysIs
  <1> SUFFICES ASSUME ~Excused' PROVE OnceOK'
    OBVIOUS
  <1>2. /\ OnceOK /\ "fetch" \notin faults'.kinds
        /\ setting.duplicates # "InMemoryTransferDuplicateRepo"
    BY <1>1 DEF Excused
  <1>3. ASSUME UNCHANGED <<known, events, step, root, answer>>, commands # <<>> => Cmd' = Cmd
        PROVE  OnceOK'
    BY <1>1, <1>2, <1>3, OnceStands
  <1>4. ASSUME UNCHANGED <<known, events>>, step' \notin {"handle", "tick", "publish"}
        PROVE  OnceOK'
    BY <1>1, <1>2, <1>4, OncePasses DEF Unsure, Answering
  <1>5. CASE Aside
    BY <1>3, <1>5, AsideIs DEF Aside
  <1>6. CASE Request
    BY <1>3, <1>6, RequestIs
  <1>7. CASE Ending
    <2>1. events' = events /\ step' = "load" /\ known' = [known EXCEPT ![owner] = {}]
      BY <1>7 DEF Ending, HandlerForgets, Fresh
    <2>2. known'["redis"] = known["redis"]
      BY <2>1, ConstantFacts DEF TypeInv, RepoOK
    <2> QED
      BY <1>1, <1>2, <2>1, <2>2, OncePasses DEF Unsure, Answering
  <1>8. CASE Move \/ Expire
    <2>1. UNCHANGED <<known, root, asked, commands, step, answer, events, snapshots>>
      BY <1>8 DEF Move, Expire, handlerVars
    <2> QED
      BY <1>3, <2>1 DEF Cmd
  <1>9. CASE PublishRefused \/ StoreRoot
    <2>1. UNCHANGED <<known, events>> /\ step' = "commit"
      BY <1>9 DEF PublishRefused, StoreRoot, repoVars
    <2> QED
      BY <1>4, <2>1
  <1>10. CASE Commit
    <2>1. UNCHANGED <<known, events>> /\ step' = "load"
      BY <1>10 DEF Commit, Fresh
    <2> QED
      BY <1>4, <2>1
  <1>11. CASE NextTick
    <2>1. /\ UNCHANGED <<known, events, commands, answer>> /\ step = "tick"
          /\ step' \in {"commit", "publish"}
      BY <1>11 DEF NextTick
    <2>2. PICK id : id = Cmd' /\ id = Cmd
      BY <2>1 DEF Cmd
    <2>3. ~Unsure' /\ (Answering' => Answering)
      BY <2>1 DEF Unsure, Answering
    <2>4. Unsure' \/ Answering' => Created(id.id) = {}
      BY <1>2, <2>2, <2>3 DEF OnceOK
    <2>5. ~IsParticipants /\ Answering' => id.id \in known'["redis"]
      BY <1>2, <2>1, <2>2, <2>3 DEF OnceOK
    <2> QED
      BY <1>1, <1>2, <2>1, <2>2, <2>4, <2>5, OnceStill
  <1> QED
    BY <1>2, <1>5, <1>6, <1>7, <1>8, <1>9, <1>10, <1>11, StepIs, HandleIs, LoadOnce, RecoverOnce,
       RulingOnce, PublishOnce

LEMMA CreationInit == Init => NamesOK /\ OnceOK
  <1> SUFFICES ASSUME Init PROVE NamesOK /\ OnceOK
    OBVIOUS
  <1>1. commands = <<>> /\ answer = NoEvent /\ events = <<>> /\ step = "load"
    BY DEF Init, HandlerInit
  <1>2. NamesOK
    BY <1>1 DEF NamesOK, Fits, NoEvent, Event
  <1>3. \A id : Created(id) = {}
    BY <1>1 DEF Created
  <1> QED
    BY <1>1, <1>2, <1>3 DEF OnceOK, Unsure, Answering

\* Only participants' commands create participants, and what they are answered with.
THEOREM NamesFit == Spec => []NamesOK
  <1>1. Init => NamesOK
    BY CreationInit
  <1>2. TypeInv /\ NamesOK /\ [Next]_vars => NamesOK'
    BY NamesStep
  <1> QED
    BY <1>1, <1>2, TypeInvariant, PTL DEF Spec

\* However often a participant is asked for it is created once, unless a fetch ended
\* early, and a transfer is prepared once unless its duplicates are kept in memory:
\* a process ends, forgets and starts again in between, the partition moves.
THEOREM OnlyCreatedOnce == Spec => []CreatedOnce
  <1>1. Init => Excused \/ OnceOK
    BY CreationInit
  <1>2. TypeInv /\ NamesOK /\ (Excused \/ OnceOK) /\ [Next]_vars => (Excused \/ OnceOK)'
    BY OnceStep
  <1>3. TypeInv /\ (Excused \/ OnceOK) => CreatedOnce
    <2> SUFFICES ASSUME TypeInv, OnceOK, NEW id \in Id PROVE Cardinality(Created(id)) <= 1
      BY DEF CreatedOnce, Excused
    <2>1. CASE Created(id) = {}
      BY <2>1, FS_EmptySet
    <2>2. CASE Created(id) # {}
      <3>1. PICK k : k \in Created(id)
        BY <2>2
      <3>2. Created(id) = {k}
        BY <3>1 DEF OnceOK
      <3> QED
        BY <3>2, FS_Singleton
    <2> QED
      BY <2>1, <2>2
  <1> QED
    BY <1>1, <1>2, <1>3, TypeInvariant, NamesFit, PTL DEF Spec

--------------------------------------------------------------------------------
(* A command handler opens its publisher and its repository before its consumer and *)
(* closes them after: what it has at hand can be published, or not be committed.    *)

OrderOK ==
    /\ Opened("Cmd", "consumer") => Opened("Cmd", "publisher") /\ Opened("Cmd", "repo")
    /\ step # "load" => Opened("Cmd", "consumer") \/ process.phase = "stopping"

LEMMA CmdStarts ==
    ASSUME setting \in Settings
    PROVE  /\ "Cmd" \in Handlers =>
                 \E other \in {"offsets", "duplicates"} :
                    /\ StartOf("Cmd") = <<"repo", other, "publisher", "consumer">>
                    /\ DestroyOf("Cmd") = <<"consumer", "publisher", "repo", other>>
           /\ "Cmd" \in Handlers =>
                 /\ IsParticipants \/ setting.application = "transfers"
                 /\ {<<"Cmd", "publisher">>, <<"Cmd", "repo">>} \subseteq ToOpen
           /\ \A r \in ToOpen : /\ r = <<r[1], r[2]>> /\ r[1] \in Handlers
                                /\ r[2] = "producers" => "Cmd" \notin Handlers
  <1>1. /\ setting.application \in {"participants", "transfers", "simulator", "adapter"}
        /\ Handlers \subseteq Range(InOrder)
    BY SettingFacts DEF Handlers
  <1>2. ASSUME "Cmd" \in Handlers
        PROVE  /\ setting.application \in {"participants", "transfers"}
               /\ StartOf("Cmd") = IF IsParticipants THEN ParticipantCmdStart ELSE TransferCmdStart
               /\ DestroyOf("Cmd") = IF IsParticipants THEN ParticipantCmdDestroy
                                                      ELSE TransferCmdDestroy
    <2>1. setting.application \in {"participants", "transfers"}
      BY <1>1, <1>2, InOrderIs
    <2> QED
      BY <2>1 DEF IsParticipants, StartOf, Starts, DestroyOf, Destroys
  <1>3. ASSUME "Cmd" \in Handlers
        PROVE  \E other \in {"offsets", "duplicates"} :
                  /\ StartOf("Cmd") = <<"repo", other, "publisher", "consumer">>
                  /\ DestroyOf("Cmd") = <<"consumer", "publisher", "repo", other>>
    <2>1. PICK other : other = IF IsParticipants THEN "offsets" ELSE "duplicates"
      OBVIOUS
    <2>2. /\ StartOf("Cmd") = <<"repo", other, "publisher", "consumer">>
          /\ DestroyOf("Cmd") = <<"consumer", "publisher", "repo", other>>
      BY <1>2, <1>3, <2>1 DEF ParticipantCmdStart, ParticipantCmdDestroy, TransferCmdStart,
                              TransferCmdDestroy
    <2> QED
      BY <2>1, <2>2
  <1>4. ASSUME "Cmd" \in Handlers PROVE {<<"Cmd", "publisher">>, <<"Cmd", "repo">>} \subseteq ToOpen
    <2>1. PICK other : StartOf("Cmd") = <<"repo", other, "publisher", "consumer">>
      BY <1>3, <1>4
    <2>2. PICK t : t = <<"repo", other, "publisher", "consumer">> /\ t = StartOf("Cmd")
      BY <2>1
    <2>3. DOMAIN t = 1..4 /\ t[1] = "repo" /\ t[3] = "publisher"
      BY <2>2
    <2>4. {"publisher", "repo"} \subseteq Range(StartOf("Cmd"))
      BY <2>2, <2>3 DEF Range
    <2> QED
      BY <1>4, <2>4 DEF ToOpen
  <1>5. ASSUME NEW r \in ToOpen
        PROVE  /\ r = <<r[1], r[2]>> /\ r[1] \in Handlers
               /\ r[2] = "producers" => "Cmd" \notin Handlers
    <2>1. PICK h \in Handlers : r \in {h} \X Range(StartOf(h))
      BY DEF ToOpen
    <2>2. r = <<h, r[2]>> /\ r[1] = h /\ r[2] \in Range(StartOf(h))
      BY <2>1
    <2>3. ASSUME r[2] = "producers", "Cmd" \in Handlers PROVE FALSE
      <3>1. CASE setting.application = "participants"
        <4>1. h \in {"Evt", "Cmd", "StateEvt", "SnapshotOperator"}
          BY <1>1, <3>1, InOrderIs
        <4>2. StartOf(h) = IF h = "Evt" THEN ParticipantEvtStart
                           ELSE IF h = "Cmd" THEN ParticipantCmdStart
                           ELSE IF h = "StateEvt" THEN ParticipantStateEvtStart
                           ELSE SnapshotOperatorStart
          BY <3>1, <4>1 DEF StartOf, Starts
        <4> QED
          BY <2>2, <2>3, <4>1, <4>2, RangeOf
             DEF ParticipantEvtStart, ParticipantCmdStart, ParticipantStateEvtStart,
                 SnapshotOperatorStart
      <3>2. CASE setting.application = "transfers"
        <4>1. h \in {"Evt", "Cmd", "StateEvt"}
          BY <1>1, <3>2, InOrderIs
        <4>2. StartOf(h) = IF h = "Evt" THEN TransferEvtStart
                           ELSE IF h = "Cmd" THEN TransferCmdStart ELSE TransferStateEvtStart
          BY <3>2, <4>1 DEF StartOf, Starts
        <4> QED
          BY <2>2, <2>3, <4>1, <4>2, RangeOf
             DEF TransferEvtStart, TransferCmdStart, TransferStateEvtStart
      <3> QED
        BY <1>2, <2>3, <3>1, <3>2
    <2> QED
      BY <2>2, <2>3
  <1> QED
    BY <1>2, <1>3, <1>4, <1>5 DEF IsParticipants

LEMMA OpenNextOrder ==
    ASSUME TypeInv, OrderOK, OpenNext, step' = step
    PROVE  OrderOK'
  <1>1. setting \in Settings /\ process.open \subseteq Handlers \X Resource
    BY DEF TypeInv, FaultsOK, ProcessOK
  <1>2. PICK r \in Missing :
          /\ IsNext(r)
          /\ \/ process' = [process EXCEPT !.open = @ \union {r}]
             \/ process' = [process EXCEPT !.phase = "stuck"]
             \/ r[2] = "producers" /\ process' = Off(process.stops)
    BY OpenNextIs
  <1>3. r \in ToOpen /\ r \notin process.open
    BY DEF Missing
  <1>4. /\ r = <<r[1], r[2]>> /\ r[1] \in Handlers
        /\ r[2] = "producers" => "Cmd" \notin Handlers
    BY <1>1, <1>3, CmdStarts
  <1>5. process.phase = "starting"
    BY OpenNextIs
  <1>6. CASE process' = [process EXCEPT !.phase = "stuck"]
    <2>1. process'.open = process.open
      BY <1>6 DEF TypeInv, ProcessOK
    <2> QED
      BY <1>5, <2>1 DEF OrderOK, Opened
  <1>7. CASE process' = [process EXCEPT !.open = @ \union {r}]
    <2>1. process'.open = process.open \union {r} /\ process'.phase = process.phase
      BY <1>7 DEF TypeInv, ProcessOK
    <2>2. ASSUME r = <<"Cmd", "consumer">>, NEW x \in {"publisher", "repo"} PROVE Opened("Cmd", x)
      <3>1. SUFFICES ASSUME ~Opened("Cmd", x) PROVE FALSE
        OBVIOUS
      <3>2. PICK s : s = <<"Cmd", x>>
        OBVIOUS
      <3>3. "Cmd" \in Handlers
        BY <1>4, <2>2
      <3>4. s \in Missing \ {r}
        BY <1>1, <2>2, <3>1, <3>2, <3>3, CmdStarts DEF Missing, Opened
      <3>5. Precedes(r, s)
        BY <1>2, <3>4 DEF IsNext
      <3>6. Before(StartOf("Cmd"), "consumer", x)
        BY <2>2, <3>2, <3>5 DEF Precedes
      <3>7. PICK other \in {"offsets", "duplicates"} :
               StartOf("Cmd") = <<"repo", other, "publisher", "consumer">>
        BY <1>1, <3>3, CmdStarts
      <3>8. PICK t : t = <<"repo", other, "publisher", "consumer">> /\ t = StartOf("Cmd")
        BY <3>7
      <3>9. DOMAIN t = 1..4 /\ \A i \in 1..4 : (t[i] = "consumer" => i = 4)
        BY <3>8
      <3>10. PICK i, j : i \in DOMAIN t /\ j \in DOMAIN t /\ i < j /\ t[i] = "consumer" /\ t[j] = x
        BY <3>6, <3>8 DEF Before
      <3>11. i = 4
        BY <3>9, <3>10
      <3> QED
        BY <3>9, <3>10, <3>11
    <2> QED
      BY <2>1, <2>2 DEF OrderOK, Opened
  <1>8. CASE r[2] = "producers" /\ process' = Off(process.stops)
    <2>1. ~Opened("Cmd", "consumer") /\ process'.open = {}
      BY <1>1, <1>4, <1>8 DEF Opened, Off
    <2> QED
      BY <1>5, <2>1 DEF OrderOK, Opened
  <1> QED
    BY <1>2, <1>6, <1>7, <1>8

LEMMA DestroyOrder ==
    ASSUME TypeInv, OrderOK, Destroy, step' = step
    PROVE  OrderOK' /\ process'.phase = "stopping" /\ process'.open \subseteq process.open
  <1>1. setting \in Settings
    BY DEF TypeInv, FaultsOK
  <1>2. PICK h, k : /\ h \in Handlers /\ k \in DOMAIN DestroyOf(h)
                    /\ \A j \in 1..(k - 1) : ~Opened(h, DestroyOf(h)[j])
                    /\ Close(h, DestroyOf(h)[k])
                    /\ process.phase = "stopping"
    BY DEF Destroy
  <1>3. PICK x : x = DestroyOf(h)[k]
    OBVIOUS
  <1>4. process' = [process EXCEPT !.open = @ \ {<<h, x>>}]
    BY <1>2, <1>3 DEF Close
  <1>5. process'.open = process.open \ {<<h, x>>} /\ process'.phase = process.phase
    BY <1>4 DEF TypeInv, ProcessOK
  <1>6. ASSUME h = "Cmd", x \in {"publisher", "repo"} PROVE ~Opened("Cmd", "consumer")
    <2>1. PICK other \in {"offsets", "duplicates"} :
             DestroyOf("Cmd") = <<"consumer", "publisher", "repo", other>>
      BY <1>1, <1>2, <1>6, CmdStarts
    <2>2. PICK t : t = <<"consumer", "publisher", "repo", other>> /\ t = DestroyOf("Cmd")
      BY <2>1
    <2>3. k \in 1..4 /\ t[k] = x
      BY <1>2, <1>3, <1>6, <2>2
    <2>4. k \in {2, 3} /\ t[1] = "consumer"
      BY <1>6, <2>2, <2>3
    <2>5. 1 \in 1..(k - 1)
      BY <2>4
    <2> QED
      BY <1>2, <1>6, <2>2, <2>4, <2>5
  <1> QED
    BY <1>2, <1>5, <1>6 DEF OrderOK, Opened

\* The process ends, and the handler takes nothing any more and commits nothing.
Gone == process.phase = "stopping" /\ ~Opened("Cmd", "consumer")

LEMMA ElsewhereOrder ==
    ASSUME TypeInv, OrderOK, Elsewhere, step' = step
    PROVE  OrderOK' /\ (Gone => Gone')
  <1>1. process \in [phase : Phase, open : SUBSET (Handlers \X Resource), api : BOOLEAN,
                     stops : 0..setting.stops]
    BY DEF TypeInv, ProcessOK
  <1>2. CASE process' = process
    BY <1>2 DEF OrderOK, Gone, Opened
  <1>3. CASE \E h : h # "Cmd" /\ CommitRefused(h)
    <2>1. PICK h : h # "Cmd" /\ CommitRefused(h)
      BY <1>3
    <2>2. process' = [process EXCEPT !.open = @ \ {<<h, "consumer">>}]
      BY <2>1 DEF CommitRefused, Close
    <2>3. process'.open = process.open \ {<<h, "consumer">>} /\ process'.phase = process.phase
      BY <1>1, <2>2
    <2>4. \A x : <<"Cmd", x>> # <<h, "consumer">>
      BY <2>1
    <2>5. \A x : <<"Cmd", x>> \in process'.open <=> <<"Cmd", x>> \in process.open
      BY <2>3, <2>4
    <2> QED
      BY <2>3, <2>5 DEF OrderOK, Gone, Opened
  <1>4. CASE Destroy
    BY <1>4, DestroyOrder DEF Gone, Opened
  <1>5. CASE OpenNext
    BY <1>5, OpenNextOrder, OpenNextIs DEF Gone
  <1>6. CASE Restart \/ AdapterListens \/ Ready \/ CloseApi \/ Interrupt
    <2>1. process'.open = process.open
      BY <1>1, <1>6 DEF Restart, AdapterListens, Ready, ServeApi, CloseApi, Interrupt
    <2>2. /\ process.phase = "stopping" => process'.phase = "stopping"
      BY <1>1, <1>6 DEF Restart, AdapterListens, Ready, ServeApi, CloseApi, Interrupt, Listens
    <2> QED
      BY <2>1, <2>2 DEF OrderOK, Gone, Opened
  <1> QED
    BY <1>2, <1>3, <1>4, <1>5, <1>6 DEF Elsewhere, Staying

\* What the handler does of its own it does where it is open.
LEMMA HandleOrder ==
    ASSUME TypeInv, OrderOK, Handle
    PROVE  OrderOK' /\ process' = process
  <1>1. process' = process
    BY HandleTyped DEF TypeInv, HandlerOK, Leaves
  <1>2. step = "load" => Opened("Cmd", "consumer")
    BY DEF Handle, LoadRoot, Recover, CreateParticipant, ChangePosition, SnapshotParticipant,
           PrepareTransfer, AckPayerFundsReserved, FulfilTransfer, AckPayeeFundsCommitted,
           NextTick, PublishAnswer, PublishRefused, StoreRoot, Commit, At
  <1> QED
    BY <1>1, <1>2 DEF OrderOK, Opened

LEMMA OrderStep ==
    ASSUME TypeInv, OrderOK, [Next]_vars
    PROVE  OrderOK'
  <1>1. CASE Aside /\ Elsewhere
    BY <1>1, ElsewhereOrder DEF Aside
  <1>2. CASE Ending
    <2>1. step' = "load" /\ (process' = process \/ process'.open = {})
      BY <1>2 DEF Ending, HandlerForgets, Fresh, Off
    <2> QED
      BY <2>1 DEF OrderOK, Opened
  <1>3. CASE Handle
    BY <1>3, HandleOrder
  <1>4. CASE Request \/ Move \/ Expire
    <2>1. UNCHANGED <<process, step>>
      BY <1>4, RequestIs DEF Move, Expire, handlerVars
    <2> QED
      BY <2>1 DEF OrderOK, Opened
  <1> QED
    BY <1>1, <1>2, <1>3, <1>4, StepIs

LEMMA OrderInit == Init => OrderOK
  <1> SUFFICES ASSUME Init PROVE OrderOK
    OBVIOUS
  <1>1. setting \in Settings /\ step = "load"
    BY DEF Init, ProcessInit, HandlerInit
  <1>2. process.open = {} \/ process.open = ToOpen
    BY DEF Init, ProcessInit, Off
  <1>3. ASSUME <<"Cmd", "consumer">> \in ToOpen PROVE {<<"Cmd", "publisher">>, <<"Cmd", "repo">>} \subseteq ToOpen
    <2>1. PICK r : r = <<"Cmd", "consumer">>
      OBVIOUS
    <2>2. r[1] \in Handlers /\ r[1] = "Cmd"
      BY <1>1, <1>3, <2>1, CmdStarts
    <2> QED
      BY <1>1, <2>2, CmdStarts
  <1> QED
    BY <1>1, <1>2, <1>3 DEF OrderOK, Opened

--------------------------------------------------------------------------------
(* A participant or a transfer that anything is known of has been created *)

HeardOf(id) ==
    \/ redis[id] # None
    \/ \E proc \in Proc : memory[proc][id] # None
    \/ \E k \in 1..Len(events) : events[k].id = id
    \/ \E k \in 1..Len(snapshots) : snapshots[k].id = id

\* Except for what is created with the answer to be published, or was not because the
\* process ended before.
Found   == Created(Cmd.id) # {}
HeardOfOK == \A id \in Id : HeardOf(id) => Created(id) # {}
RootOK  == root # None => \/ Found
                          \/ step = "publish" /\ Creates(answer)
                          \/ step = "commit" /\ Gone
MadeOK  == step = "commit" /\ Cmd.name = "CreateParticipantCmd" => root # None
FollowOK == HeardOfOK /\ RootOK /\ MadeOK

LEMMA LoadIs ==
    ASSUME RepoOK, NEW id \in Id, Load(id)
    PROVE  /\ root' # None => HeardOf(id)
           /\ \A i \in Id : (\E proc \in Proc : memory'[proc][i] # None) => HeardOf(i)
  <1>1. /\ memory \in [Proc -> [Id -> Value]] /\ owner \in Proc
        /\ InMemory(id) = memory[owner][id]
    BY DEF RepoOK, InMemory
  <1>2. \A i \in Id : (\E proc \in Proc : memory[proc][i] # None) => HeardOf(i)
    BY DEF HeardOf
  <1>3. CASE FromMemory(id)
    BY <1>1, <1>2, <1>3 DEF FromMemory, HeardOf
  <1>4. CASE FromRedis(id)
    BY <1>2, <1>4 DEF FromRedis, HeardOf
  <1>5. CASE root' = redis[id] /\ Remember(id, redis[id])
    <2>1. memory' = [memory EXCEPT ![owner][id] = redis[id]]
      BY <1>5 DEF Remember
    <2>2. ASSUME NEW i \in Id, NEW proc \in Proc, memory'[proc][i] # None PROVE HeardOf(i)
      <3>1. memory'[proc][i] = memory[proc][i] \/ (i = id /\ memory'[proc][i] = redis[id])
        BY <1>1, <2>1
      <3> QED
        BY <2>2, <3>1 DEF HeardOf
    <2> QED
      BY <1>5, <2>2 DEF HeardOf
  <1>6. FromMemory(id) \/ FromRedis(id) \/ (root' = redis[id] /\ Remember(id, redis[id]))
    BY DEF Load, InMemoryParticipantLoad, RedisParticipantLoad, CachedRedisParticipantLoad,
           CachedPersistedRedisParticipantLoad, InMemoryTransferLoad, NodeCacheTransferLoad,
           RedisTransferLoad, CachedRedisTransferLoad, CachedPersistedRedisTransferLoad,
           FromEither
  <1> QED
    BY <1>3, <1>4, <1>5, <1>6

\* Where only what is kept of id changes, nothing else gets known.
LEMMA StoreFollows ==
    ASSUME RepoOK, HeardOfOK, NEW id \in Id, NEW v, Created(id) # {},
           memory' = memory \/ Remember(id, v), redis' = redis \/ Persist(id, v),
           UNCHANGED <<events, snapshots>>
    PROVE  HeardOfOK'
  <1>1. \A i \in Id : Created(i)' = Created(i)
    BY CreatedStill
  <1>2. ASSUME NEW i \in Id, HeardOf(i)', i # id PROVE HeardOf(i)
    <2>1. redis'[i] = redis[i]
      BY <1>2 DEF Persist, RepoOK
    <2>2. \A proc \in Proc : memory'[proc][i] = memory[proc][i]
      BY <1>2 DEF Remember, RepoOK
    <2> QED
      BY <1>2, <2>1, <2>2 DEF HeardOf
  <1> QED
    BY <1>1, <1>2 DEF HeardOfOK

\* And where something is forgotten, neither.
LEMMA ForgettingFollows ==
    ASSUME HeardOfOK, UNCHANGED <<events, snapshots>>,
           \A i \in Id : redis'[i] # None => redis[i] # None,
           \A i \in Id : \A proc \in Proc : memory'[proc][i] # None => memory[proc][i] # None
    PROVE  HeardOfOK'
  <1>1. \A i \in Id : Created(i)' = Created(i)
    BY CreatedStill
  <1>2. \A i \in Id : HeardOf(i)' => HeardOf(i)
    BY DEF HeardOf
  <1> QED
    BY <1>1, <1>2 DEF HeardOfOK

LEMMA StandsFollows ==
    ASSUME TypeInv, FollowOK, UNCHANGED <<step, root, answer, events>>,
           commands # <<>> => Cmd' = Cmd, Gone => Gone'
    PROVE  RootOK' /\ MadeOK'
  <1>1. \A id : Created(id)' = Created(id)
    BY CreatedStill
  <1>2. commands = <<>> => root = None /\ step = "load"
    BY DEF TypeInv, HandOK
  <1>3. CASE commands = <<>>
    BY <1>2, <1>3 DEF RootOK, MadeOK
  <1>4. CASE commands # <<>>
    BY <1>1, <1>4 DEF FollowOK, RootOK, MadeOK, Found
  <1> QED
    BY <1>3, <1>4

\* Loading, and recovering, finds what is known.
LEMMA FindingFollows ==
    ASSUME TypeInv, FollowOK, LoadRoot \/ Recover
    PROVE  FollowOK'
  <1>1. /\ commands # <<>> /\ step \in {"load", "recover"} /\ step' \in {"recover", "handle"}
        /\ UNCHANGED <<commands, redis, events, snapshots>>
    BY DEF LoadRoot, Recover, Recovered, At
  <1>2. Cmd' = Cmd /\ \A id : Created(id)' = Created(id)
    BY <1>1, CreatedStill DEF Cmd
  <1>3. TopicsOK /\ RepoOK
    BY DEF TypeInv
  <1>4. PICK id : id = Cmd.id
    OBVIOUS
  <1>5. CASE LoadRoot
    <2>1. \/ id \in Id /\ Load(id)
          \/ id \notin Id /\ root' = None /\ memory' = memory
      BY <1>4, <1>5 DEF LoadRoot
    <2>2. /\ root' # None => id \in Id /\ HeardOf(id)
          /\ \A i \in Id : (\E proc \in Proc : memory'[proc][i] # None) => HeardOf(i)
      <3>1. CASE id \in Id /\ Load(id)
        BY <1>3, <3>1, LoadIs
      <3>2. CASE id \notin Id /\ root' = None /\ memory' = memory
        BY <3>2 DEF HeardOf
      <3> QED
        BY <2>1, <3>1, <3>2
    <2>3. root' # None => Found'
      BY <1>2, <1>4, <2>2 DEF FollowOK, HeardOfOK, Found
    <2>4. \A i \in Id : HeardOf(i)' => HeardOf(i)
      BY <1>1, <2>2 DEF HeardOf
    <2>5. HeardOfOK'
      BY <1>2, <2>4 DEF FollowOK, HeardOfOK
    <2> QED
      BY <1>1, <2>3, <2>5 DEF FollowOK, RootOK, MadeOK
  <1>6. CASE Recover
    <2>1. PICK s \in FetchAll(snapshots, id) \union FetchCut(snapshots, id),
               e \in FetchAll(events, id) \union FetchCut(events, id) : Recovered(s, e)
      BY <1>4, <1>6, Zenon DEF Recover
    <2>2. PICK v : v = root'
      OBVIOUS
    <2>3. v = Replay(FetchLast(s), e) /\ memory' = memory
      BY <2>1, <2>2 DEF Recovered
    <2>4. v # None => id \in Id /\ \/ \E k \in 1..Len(events) : events[k].id = id
                                   \/ \E k \in 1..Len(snapshots) : snapshots[k].id = id
      BY <1>3, <2>1, <2>3, RecoveredIs
    <2>5. v # None => Found
      BY <1>4, <2>4 DEF FollowOK, HeardOfOK, HeardOf, Found
    <2>6. root' # None => Found'
      BY <1>2, <2>2, <2>5 DEF Found
    <2>7. HeardOfOK'
      BY <1>1, <1>2, <2>3 DEF FollowOK, HeardOfOK, HeardOf
    <2> QED
      BY <1>1, <2>6, <2>7 DEF FollowOK, RootOK, MadeOK
  <1> QED
    BY <1>5, <1>6

LEMMA RulingFollows ==
    ASSUME TypeInv, NamesOK, FollowOK,
           CreateParticipant \/ PrepareTransfer \/ Changing
    PROVE  FollowOK'
  <1>1. CASE CreateParticipant
    <2>1. /\ commands # <<>> /\ step = "handle"
          /\ UNCHANGED <<memory, redis, commands, events, snapshots>>
          /\ \/ root # None /\ root' = root /\ Refused
             \/ /\ root = None /\ root' = 0
                /\ Answers(Event("ParticipantCreatedStateEvt", Cmd.id, 0))
      BY <1>1, CreateParticipantIs
    <2>2. Cmd' = Cmd /\ \A id : Created(id)' = Created(id)
      BY <2>1, CreatedStill DEF Cmd
    <2>3. HeardOfOK'
      BY <2>1, <2>2 DEF FollowOK, HeardOfOK, HeardOf
    <2>4. CASE root # None /\ root' = root
      <3>1. Found'
        BY <2>1, <2>2, <2>4 DEF FollowOK, RootOK, Found
      <3> QED
        BY <2>3, <2>4, <3>1 DEF FollowOK, RootOK, MadeOK
    <2>5. CASE /\ root = None
               /\ Answers(Event("ParticipantCreatedStateEvt", Cmd.id, 0))
      <3>1. answer.name # "recovered"
        BY <2>1, <2>5, ConstantFacts DEF TypeInv, HandOK
      <3>2. step' = "publish" /\ Creates(answer)'
        BY <2>5, <3>1 DEF Answers, Event, Creates
      <3> QED
        BY <2>3, <3>2 DEF FollowOK, RootOK, MadeOK
    <2> QED
      BY <2>1, <2>4, <2>5
  <1>2. CASE PrepareTransfer
    <2>1. /\ commands # <<>> /\ step = "load" /\ Cmd.name = "PrepareTransferCmd"
          /\ UNCHANGED <<memory, redis, commands, events, snapshots>>
          /\ \/ root' = root
             \/ Answers(Event("TransferPreparedStateEvt", Cmd.id, RECEIVED_PREPARE))
      BY <1>2, PrepareTransferIs
    <2>2. Cmd' = Cmd /\ \A id : Created(id)' = Created(id)
      BY <2>1, CreatedStill DEF Cmd
    <2>3. HeardOfOK' /\ MadeOK'
      BY <2>1, <2>2 DEF FollowOK, HeardOfOK, HeardOf, MadeOK
    <2>4. CASE root' = root
      BY <2>1, <2>3, <2>4 DEF FollowOK, RootOK, TypeInv, HandOK
    <2>5. CASE Answers(Event("TransferPreparedStateEvt", Cmd.id, RECEIVED_PREPARE))
      <3>1. answer.name # "recovered"
        BY <2>1, ConstantFacts DEF TypeInv, HandOK
      <3>2. step' = "publish" /\ Creates(answer)'
        BY <2>5, <3>1 DEF Answers, Event, Creates
      <3> QED
        BY <2>3, <3>2 DEF FollowOK, RootOK
    <2> QED
      BY <2>1, <2>4, <2>5
  <1>3. CASE Changing
    <2>1. /\ commands # <<>> /\ step = "handle" /\ Cmd.name # "CreateParticipantCmd"
          /\ UNCHANGED <<redis, commands, events, snapshots>>
      BY <1>3, ChangingIs
    <2>2. Cmd' = Cmd /\ \A id : Created(id)' = Created(id)
      BY <2>1, CreatedStill DEF Cmd
    <2>3. root # None => Found /\ Found' /\ Cmd.id \in Id
      BY <2>1, <2>2 DEF FollowOK, RootOK, Found, TypeInv, HandOK
    <2>4. MadeOK'
      BY <2>1, <2>2 DEF MadeOK
    <2>5. CASE Refused /\ root' = root /\ memory' = memory
      <3>1. HeardOfOK'
        BY <2>1, <2>2, <2>5 DEF FollowOK, HeardOfOK, HeardOf
      <3> QED
        BY <2>3, <2>4, <2>5, <3>1 DEF FollowOK, RootOK
    <2>6. CASE \E evt : root # None /\ (memory' = memory \/ Remember(Cmd.id, evt.value))
      <3>1. PICK evt : root # None /\ (memory' = memory \/ Remember(Cmd.id, evt.value))
        BY <2>6
      <3>2. PICK id, v : id = Cmd.id /\ v = evt.value
        OBVIOUS
      <3>3. id \in Id /\ Created(id) # {} /\ (memory' = memory \/ Remember(id, v))
        BY <2>3, <3>1, <3>2 DEF Found
      <3>4. RepoOK /\ HeardOfOK
        BY DEF TypeInv, FollowOK
      <3>5. HeardOfOK'
        BY <2>1, <3>3, <3>4, StoreFollows
      <3> QED
        BY <2>3, <2>4, <3>1, <3>5 DEF FollowOK, RootOK
    <2> QED
      BY <1>3, <2>5, <2>6, ChangingIs
  <1> QED
    BY <1>1, <1>2, <1>3

LEMMA StoringFollows ==
    ASSUME TypeInv, FollowOK, NextTick \/ StoreRoot
    PROVE  FollowOK'
  <1>1. /\ commands # <<>> /\ step \in {"tick", "store"} /\ step' \in {"commit", "publish"}
        /\ ParticipantStore(Cmd.id, root) \/ TransferStore(Cmd.id, root)
        /\ UNCHANGED <<root, commands, events, snapshots>>
    BY DEF NextTick, StoreRoot
  <1>2. Cmd' = Cmd /\ \A id : Created(id)' = Created(id)
    BY <1>1, CreatedStill DEF Cmd
  <1>3. root # None /\ Cmd.id \in Id
    BY <1>1 DEF TypeInv, HandOK
  <1>4. Found /\ Found'
    BY <1>1, <1>2, <1>3 DEF FollowOK, RootOK, Found
  <1>5. PICK id, v : id = Cmd.id /\ v = root
    OBVIOUS
  <1>6. Stored(id, v)
    BY <1>1, <1>5, StoreIs
  <1>7. HeardOfOK'
    <2>1. memory' = memory \/ Remember(id, v)
      BY <1>6 DEF Stored
    <2>2. redis' = redis \/ Persist(id, v)
      BY <1>6 DEF Stored
    <2>3. RepoOK /\ HeardOfOK /\ id \in Id /\ Created(id) # {} /\ UNCHANGED <<events, snapshots>>
      BY <1>1, <1>3, <1>4, <1>5 DEF TypeInv, FollowOK, Found
    <2> QED
      BY <2>1, <2>2, <2>3, StoreFollows
  <1> QED
    BY <1>1, <1>3, <1>4, <1>7 DEF FollowOK, RootOK, MadeOK

LEMMA PublishFollows ==
    ASSUME TypeInv, NamesOK, OrderOK, FollowOK, PublishAnswer \/ PublishRefused
    PROVE  FollowOK'
  <1>1. commands # <<>> /\ step = "publish" /\ UNCHANGED <<repoVars, commands, answer>>
    BY DEF PublishAnswer, PublishRefused
  <1>2. Cmd' = Cmd /\ UNCHANGED <<setting, process, memory, redis, root>>
    BY <1>1 DEF Cmd, repoVars
  <1>3. CASE PublishAnswer
    <2>1. /\ Decided(answer) /\ Cmd.id \in Id /\ step' = "store"
          /\ \/ /\ answer \in SnapshotEvent /\ answer.name = "ParticipantStateSnapshotEvt"
                /\ snapshots' = Append(snapshots, answer) /\ events' = events
             \/ /\ answer \in StateEvent /\ answer.name # "ParticipantStateSnapshotEvt"
                /\ events' = Append(events, answer) /\ snapshots' = snapshots
      BY <1>3, PublishAnswerIs DEF TypeInv, HandlerOK, PublishAnswer
    <2>2. \A id : Created(id) \subseteq Created(id)'
      BY <2>1, CreatedStill, CreatedMore DEF TypeInv
    <2>3. Found'
      <3>1. CASE Found
        BY <1>2, <2>2, <3>1 DEF Found
      <3>2. CASE ~Found
        <4>1. Creates(answer) /\ answer.id = Cmd.id
          BY <1>1, <2>1, <3>2 DEF FollowOK, RootOK, TypeInv, HandOK, Decided
        <4>2. answer \in StateEvent /\ events' = Append(events, answer)
          BY <2>1, <4>1 DEF Creates
        <4>3. Len(events) + 1 \in Created(Cmd.id)'
          <5>1. PICK id : id = Cmd.id
            OBVIOUS
          <5>2. Created(id)' = Created(id) \union {Len(events) + 1}
            BY <4>1, <4>2, <5>1, CreatedMore DEF Creates, TypeInv
          <5> QED
            BY <1>2, <5>1, <5>2
        <4> QED
          BY <4>3 DEF Found
      <3> QED
        BY <3>1, <3>2
    <2>4. ASSUME NEW i \in Id, HeardOf(i)', i # Cmd.id PROVE HeardOf(i)
      <3>1. events \in Seq(StateEvent) /\ snapshots \in Seq(SnapshotEvent) /\ answer.id = Cmd.id
        BY <2>1 DEF TypeInv, TopicsOK, Decided
      <3>2. CASE \E k \in 1..Len(events') : events'[k].id = i
        <4>1. PICK k \in 1..Len(events') : events'[k].id = i
          BY <3>2
        <4>2. k \in 1..Len(events) /\ events'[k] = events[k]
          <5>1. CASE events' = events
            BY <4>1, <5>1
          <5>2. CASE answer \in StateEvent /\ events' = Append(events, answer)
            <6>1. /\ Len(events') = Len(events) + 1 /\ Len(events) \in Nat
                  /\ \A j \in 1..Len(events) : events'[j] = events[j]
                  /\ events'[Len(events) + 1] = answer
              BY <3>1, <5>2, AppendProperties
            <6> QED
              BY <2>4, <3>1, <4>1, <6>1
          <5> QED
            BY <2>1, <5>1, <5>2
        <4> QED
          BY <4>1, <4>2 DEF HeardOf
      <3>3. CASE \E k \in 1..Len(snapshots') : snapshots'[k].id = i
        <4>1. PICK k \in 1..Len(snapshots') : snapshots'[k].id = i
          BY <3>3
        <4>2. k \in 1..Len(snapshots) /\ snapshots'[k] = snapshots[k]
          <5>1. CASE snapshots' = snapshots
            BY <4>1, <5>1
          <5>2. CASE answer \in SnapshotEvent /\ snapshots' = Append(snapshots, answer)
            <6>1. /\ Len(snapshots') = Len(snapshots) + 1 /\ Len(snapshots) \in Nat
                  /\ \A j \in 1..Len(snapshots) : snapshots'[j] = snapshots[j]
                  /\ snapshots'[Len(snapshots) + 1] = answer
              BY <3>1, <5>2, AppendProperties
            <6> QED
              BY <2>4, <3>1, <4>1, <6>1
          <5> QED
            BY <2>1, <5>1, <5>2
        <4> QED
          BY <4>1, <4>2 DEF HeardOf
      <3> QED
        BY <1>2, <2>4, <3>2, <3>3 DEF HeardOf
    <2>5. HeardOfOK'
      <3>1. ASSUME NEW i \in Id, HeardOf(i)' PROVE Created(i)' # {}
        <4>1. CASE i = Cmd.id
          BY <1>2, <2>3, <4>1 DEF Found
        <4>2. CASE i # Cmd.id
          BY <2>2, <2>4, <3>1, <4>2 DEF FollowOK, HeardOfOK
        <4> QED
          BY <4>1, <4>2
      <3> QED
        BY <3>1 DEF HeardOfOK
    <2> QED
      BY <2>1, <2>3, <2>5 DEF FollowOK, RootOK, MadeOK
  <1>4. CASE PublishRefused
    <2>1. step' = "commit" /\ UNCHANGED <<events, snapshots>> /\ ~Opened("Cmd", "publisher")
      BY <1>4 DEF PublishRefused
    <2>2. Gone'
      BY <1>1, <1>2, <2>1 DEF OrderOK, Gone, Opened
    <2>3. root' # None
      BY <1>1, <1>2 DEF TypeInv, HandOK
    <2>4. HeardOfOK'
      BY <1>2, <2>1, ForgettingFollows DEF FollowOK
    <2> QED
      BY <2>1, <2>2, <2>3, <2>4 DEF FollowOK, RootOK, MadeOK
  <1> QED
    BY <1>3, <1>4

LEMMA FollowStep ==
    ASSUME TypeInv, NamesOK, OrderOK, FollowOK, [Next]_vars
    PROVE  FollowOK'
  <1>1. CASE Aside /\ Elsewhere
    <2>1. Gone => Gone'
      BY <1>1, ElsewhereOrder DEF Aside
    <2>2. RootOK' /\ MadeOK'
      BY <1>1, <2>1, AsideIs, StandsFollows DEF Aside
    <2>3. HeardOfOK'
      BY <1>1, ForgettingFollows DEF Aside, FollowOK
    <2> QED
      BY <2>2, <2>3 DEF FollowOK
  <1>2. CASE Ending
    <2>1. /\ root' = None /\ step' = "load" /\ UNCHANGED <<redis, events, snapshots>>
          /\ memory' = [memory EXCEPT ![owner] = NothingRemembered]
      BY <1>2 DEF Ending, HandlerForgets, Fresh
    <2>2. ASSUME NEW i \in Id, NEW proc \in Proc, memory'[proc][i] # None
          PROVE  memory[proc][i] # None
      <3>1. memory \in [Proc -> [Id -> Value]] /\ NothingRemembered[i] = None
        BY DEF TypeInv, RepoOK, NothingRemembered
      <3> QED
        BY <2>1, <2>2, <3>1
    <2>3. HeardOfOK'
      BY <2>1, <2>2, ForgettingFollows DEF FollowOK
    <2> QED
      BY <2>1, <2>3 DEF FollowOK, RootOK, MadeOK
  <1>3. CASE Request
    <2>1. /\ UNCHANGED <<process, memory, redis, root, step, answer, events, snapshots>>
          /\ commands # <<>> => Cmd' = Cmd
      BY <1>3, RequestIs
    <2>2. RootOK' /\ MadeOK'
      BY <2>1, StandsFollows DEF Gone, Opened
    <2>3. HeardOfOK'
      BY <2>1, ForgettingFollows DEF FollowOK
    <2> QED
      BY <2>2, <2>3 DEF FollowOK
  <1>4. CASE Move \/ Expire
    <2>1. UNCHANGED <<process, root, step, answer, commands, events, snapshots>>
      BY <1>4 DEF Move, Expire, handlerVars
    <2>2. RootOK' /\ MadeOK'
      BY <2>1, StandsFollows DEF Gone, Opened, Cmd
    <2>3. /\ \A i \in Id : redis'[i] # None => redis[i] # None
          /\ \A i \in Id : \A proc \in Proc : memory'[proc][i] # None => memory[proc][i] # None
      <3>1. CASE Move
        BY <3>1 DEF Move
      <3>2. CASE Expire
        <4>1. memory \in [Proc -> [Id -> Value]] /\ redis \in [Id -> Value]
          BY DEF TypeInv, RepoOK
        <4>2. PICK id \in Id : CacheExpires(id) \/ RedisExpires(id)
          BY <3>2 DEF Expire
        <4>3. CASE CacheExpires(id)
          <5>1. PICK p \in Proc : memory' = [memory EXCEPT ![p][id] = None] /\ redis' = redis
            BY <4>3 DEF CacheExpires
          <5> QED
            BY <4>1, <5>1
        <4>4. CASE RedisExpires(id)
          <5>1. redis' = [redis EXCEPT ![id] = None] /\ memory' = memory
            BY <4>4 DEF RedisExpires, Persist
          <5> QED
            BY <4>1, <5>1
        <4> QED
          BY <4>2, <4>3, <4>4
      <3> QED
        BY <1>4, <3>1, <3>2
    <2>4. HeardOfOK'
      BY <2>1, <2>3, ForgettingFollows DEF FollowOK
    <2> QED
      BY <2>2, <2>4 DEF FollowOK
  <1>5. CASE Commit
    <2>1. /\ root' = None /\ step' = "load" /\ UNCHANGED <<memory, redis, events, snapshots>>
      BY <1>5 DEF Commit, Fresh
    <2>2. HeardOfOK'
      BY <2>1, ForgettingFollows DEF FollowOK
    <2> QED
      BY <2>1, <2>2 DEF FollowOK, RootOK, MadeOK
  <1> QED
    BY <1>1, <1>2, <1>3, <1>4, <1>5, StepIs, HandleIs, FindingFollows, RulingFollows,
       StoringFollows, PublishFollows

LEMMA FollowInit == Init => FollowOK
  <1> SUFFICES ASSUME Init PROVE FollowOK
    OBVIOUS
  <1>1. root = None /\ step = "load" /\ events = <<>> /\ snapshots = <<>>
        /\ memory = [proc \in Proc |-> NothingRemembered] /\ redis = NothingRemembered
    BY DEF Init, HandlerInit, RepoInit
  <1>2. \A id \in Id : NothingRemembered[id] = None
    BY DEF NothingRemembered
  <1>3. \A id \in Id : ~HeardOf(id)
    BY <1>1, <1>2 DEF HeardOf
  <1> QED
    BY <1>1, <1>3 DEF FollowOK, HeardOfOK, RootOK, MadeOK

\* What anybody keeps of a participant or a transfer, or found, says that it was created:
\* neither the memory of a process nor redis nor a topic has one that no state event created, and
\* only a process at its end stands behind an answer it could not publish.
FollowsOK == OrderOK /\ FollowOK
THEOREM KeptIsCreated == Spec => []FollowsOK
  <1>1. Init => FollowsOK
    BY OrderInit, FollowInit DEF FollowsOK
  <1>2. TypeInv /\ NamesOK /\ FollowsOK /\ [Next]_vars => FollowsOK'
    BY OrderStep, FollowStep DEF FollowsOK
  <1> QED
    BY <1>1, <1>2, TypeInvariant, NamesFit, PTL DEF Spec

--------------------------------------------------------------------------------
(* What was committed to create has created *)

AskedFor(id) == {k \in 1..asked : setting.requests[k] = Create(id)}
Waiting(id)  == {k \in 1..Len(commands) : commands[k] = Create(id)}
CountOK == \A id \in Id : Created(id) = {} => Cardinality(AskedFor(id)) <= Cardinality(Waiting(id))

FiniteOK == \A id \in Id : /\ IsFiniteSet(AskedFor(id)) /\ Cardinality(AskedFor(id)) \in Nat
                           /\ IsFiniteSet(Waiting(id)) /\ Cardinality(Waiting(id)) \in Nat
LEMMA Finite == TypeInv => FiniteOK
  <1> SUFFICES ASSUME TypeInv, NEW id \in Id
               PROVE  /\ IsFiniteSet(AskedFor(id)) /\ Cardinality(AskedFor(id)) \in Nat
                      /\ IsFiniteSet(Waiting(id)) /\ Cardinality(Waiting(id)) \in Nat
    BY DEF FiniteOK
  <1>1. asked \in Nat /\ Len(commands) \in Nat
    BY SettingFacts DEF TypeInv, CommandsOK, FaultsOK
  <1>2. IsFiniteSet(1..asked) /\ IsFiniteSet(1..Len(commands))
    BY <1>1, FS_Interval
  <1>3. AskedFor(id) \subseteq 1..asked /\ Waiting(id) \subseteq 1..Len(commands)
    BY DEF AskedFor, Waiting
  <1>4. IsFiniteSet(AskedFor(id)) /\ IsFiniteSet(Waiting(id))
    BY <1>2, <1>3, FS_Subset
  <1> QED
    BY <1>4, FS_CardinalityType

LEMMA FiniteNext == TypeInv' => FiniteOK'
  BY Finite, PTL

\* What is created stays so.
LEMMA CreatedStays ==
    ASSUME TypeInv, [Next]_vars, NEW id
    PROVE  Created(id) # {} => Created(id)' # {}
  <1>1. CASE events' = events
    BY <1>1, CreatedStill
  <1>2. CASE PublishAnswer
    <2>1. \/ events' = events
          \/ answer \in StateEvent /\ events' = Append(events, answer)
      BY <1>2, PublishAnswerIs DEF TypeInv, HandlerOK
    <2>2. CASE answer \in StateEvent /\ events' = Append(events, answer)
      <3>1. Created(id) \subseteq Created(id)'
        BY <2>2, CreatedMore DEF TypeInv
      <3> QED
        BY <3>1
    <2> QED
      BY <1>1, <2>1, <2>2
  <1>3. CASE Aside \/ Ending \/ Request \/ Move \/ Expire
    BY <1>1, <1>3, RequestIs DEF Aside, Ending, HandlerForgets, Move, Expire, handlerVars
  <1>4. CASE Handle /\ ~PublishAnswer
    <2>1. CASE LoadRoot \/ Recover \/ NextTick \/ PublishRefused \/ StoreRoot \/ Commit
      BY <1>1, <2>1 DEF LoadRoot, Recover, Recovered, NextTick, PublishRefused, StoreRoot, Commit
    <2>2. CASE CreateParticipant \/ PrepareTransfer \/ Changing
      BY <1>1, <2>2, CreateParticipantIs, PrepareTransferIs, ChangingIs
    <2> QED
      BY <1>4, <2>1, <2>2, HandleIs
  <1> QED
    BY <1>2, <1>3, <1>4, StepIs

\* It is enough that no more is asked for, or no less is waiting, than before.
Fewer(S, T) == Cardinality(S) <= Cardinality(T)
LEMMA SubsetFewer ==
    ASSUME NEW S, NEW T, IsFiniteSet(T), S \subseteq T
    PROVE  Fewer(S, T)
  BY FS_Subset DEF Fewer

LEMMA CountStays ==
    ASSUME TypeInv, TypeInv', CountOK, NEW id \in Id, Created(id) = {},
           Fewer(AskedFor(id)', AskedFor(id)), Fewer(Waiting(id), Waiting(id)')
    PROVE  Fewer(AskedFor(id)', Waiting(id)')
  <1>1. PICK a, b, c, d : /\ a = Cardinality(AskedFor(id)') /\ b = Cardinality(AskedFor(id))
                          /\ c = Cardinality(Waiting(id)) /\ d = Cardinality(Waiting(id)')
    OBVIOUS
  <1>2. b \in Nat /\ c \in Nat
    BY <1>1, Finite DEF FiniteOK
  <1>3. a \in Nat /\ d \in Nat
    BY <1>1, FiniteNext DEF FiniteOK
  <1>4. a <= b /\ b <= c /\ c <= d
    BY <1>1 DEF Fewer, CountOK
  <1>5. a <= d
    BY <1>2, <1>3, <1>4
  <1> QED
    BY <1>1, <1>5 DEF Fewer

\* What comes in between changes neither what was asked for nor what is waiting of it.
LEMMA AsideCounts ==
    ASSUME TypeInv, TypeInv', Aside, NEW id \in Id
    PROVE  Fewer(AskedFor(id)', AskedFor(id)) /\ Fewer(Waiting(id), Waiting(id)')
  <1>1. AskedFor(id)' = AskedFor(id)
    BY DEF Aside, AskedFor
  <1>2. PICK more : more \in Seq(CommandType) /\ commands' = commands \o more
    BY DEF Aside, Coming
  <1>3. commands \in Seq(CommandType) /\ Len(commands) \in Nat /\ Len(more) \in Nat
    BY <1>2 DEF TypeInv, CommandsOK
  <1>4. /\ Len(commands') = Len(commands) + Len(more)
        /\ \A i \in 1..(Len(commands) + Len(more)) :
              commands'[i] = IF i <= Len(commands) THEN commands[i] ELSE more[i - Len(commands)]
    BY <1>2, <1>3, ConcatProperties
  <1>5. \A i \in 1..Len(commands) : i \in 1..Len(commands') /\ commands'[i] = commands[i]
    BY <1>3, <1>4
  <1>6. Waiting(id) \subseteq Waiting(id)'
    BY <1>5 DEF Waiting
  <1>7. IsFiniteSet(AskedFor(id)) /\ IsFiniteSet(Waiting(id)')
    BY Finite, FiniteNext DEF FiniteOK
  <1> QED
    BY <1>1, <1>6, <1>7, SubsetFewer

\* What is asked for waits.
LEMMA RequestCounts ==
    ASSUME TypeInv, TypeInv', CountOK, Request, NEW id \in Id, Created(id) = {}
    PROVE  Fewer(AskedFor(id)', Waiting(id)')
  <1>1. PICK r, n, m : r = setting.requests[asked + 1] /\ n = asked + 1 /\ m = Len(commands) + 1
    OBVIOUS
  <1>2. /\ setting' = setting /\ asked' = n /\ asked \in Nat /\ r \in CommandType
        /\ setting.requests[n] = r
        /\ commands' = Append(commands, r) /\ commands \in Seq(CommandType)
        /\ Len(commands) \in Nat
    BY <1>1, RequestIs DEF TypeInv, CommandsOK
  <1>3. /\ Len(commands') = m /\ commands'[m] = r
        /\ \A i \in 1..Len(commands) : commands'[i] = commands[i]
    BY <1>1, <1>2, AppendProperties
  <1>4. 1..n = (1..asked) \union {n} /\ 1..m = (1..Len(commands)) \union {m}
        /\ n \notin 1..asked /\ m \notin 1..Len(commands)
    BY <1>1, <1>2
  <1>5. AskedFor(id)' = AskedFor(id) \union (IF r = Create(id) THEN {n} ELSE {})
    BY <1>2, <1>4 DEF AskedFor
  <1>6. Waiting(id)' = Waiting(id) \union (IF r = Create(id) THEN {m} ELSE {})
    BY <1>3, <1>4 DEF Waiting
  <1>7. n \notin AskedFor(id) /\ m \notin Waiting(id)
    BY <1>4 DEF AskedFor, Waiting
  <1>8. PICK S, T, S1, T1 : /\ S = AskedFor(id) /\ T = Waiting(id)
                            /\ S1 = AskedFor(id)' /\ T1 = Waiting(id)'
    OBVIOUS
  <1>9. /\ IsFiniteSet(S) /\ Cardinality(S) \in Nat /\ IsFiniteSet(T) /\ Cardinality(T) \in Nat
        /\ Cardinality(S) <= Cardinality(T)
    BY <1>8, Finite DEF FiniteOK, CountOK
  <1>10. CASE r = Create(id)
    <2>1. S1 = S \union {n} /\ T1 = T \union {m} /\ n \notin S /\ m \notin T
      BY <1>5, <1>6, <1>7, <1>8, <1>10
    <2>2. Cardinality(S1) = Cardinality(S) + 1 /\ Cardinality(T1) = Cardinality(T) + 1
      BY <1>9, <2>1, FS_AddElement
    <2>3. Cardinality(S1) <= Cardinality(T1)
      BY <1>9, <2>2
    <2> QED
      BY <1>8, <2>3 DEF Fewer
  <1>11. CASE r # Create(id)
    <2>1. S1 = S /\ T1 = T
      BY <1>5, <1>6, <1>8, <1>11
    <2> QED
      BY <1>8, <1>9, <2>1 DEF Fewer
  <1> QED
    BY <1>10, <1>11

\* To commit what was to create, the handler must have created: it was open, so that
\* it could publish.
LEMMA CommitCounts ==
    ASSUME TypeInv, TypeInv', NamesOK, FollowsOK, Commit, NEW id \in Id, Created(id) = {}
    PROVE  Fewer(AskedFor(id)', AskedFor(id)) /\ Fewer(Waiting(id), Waiting(id)')
  <1>1. /\ step = "commit" /\ Opened("Cmd", "consumer") /\ UNCHANGED <<setting, asked>>
        /\ Cmd = commands[1] /\ commands # <<>>
        /\ Len(commands') \in Nat /\ Len(commands) = Len(commands') + 1
        /\ \A k \in 1..Len(commands') : commands'[k] = commands[k + 1]
    BY CommitIs DEF Commit, TypeInv
  <1>2. AskedFor(id)' = AskedFor(id)
    BY <1>1 DEF AskedFor
  <1>3. Cmd # Create(id)
    <2>1. SUFFICES ASSUME Cmd = Create(id) PROVE FALSE
      OBVIOUS
    <2>2. Cmd.name = "CreateParticipantCmd" /\ Cmd.id = id
      BY <2>1 DEF Create, Command
    <2>3. 1 \in 1..Len(commands)
      BY <1>1
    <2>5. RootOK /\ MadeOK
      BY DEF FollowsOK, FollowOK
    <2>6. root # None
      BY <1>1, <2>2, <2>5 DEF MadeOK
    <2>7. Found
      BY <1>1, <2>5, <2>6 DEF RootOK, Gone
    <2> QED
      BY <2>2, <2>7 DEF Found
  <1>4. IsFiniteSet(AskedFor(id)) /\ IsFiniteSet(Waiting(id)')
    BY Finite, FiniteNext DEF FiniteOK
  <1>5. \A k \in Waiting(id) : k - 1 \in Waiting(id)'
    <2> SUFFICES ASSUME NEW k \in Waiting(id) PROVE k - 1 \in Waiting(id)'
      OBVIOUS
    <2>1. k \in 1..Len(commands) /\ commands[k] = Create(id) /\ k # 1
      BY <1>1, <1>3 DEF Waiting
    <2>2. k - 1 \in 1..Len(commands') /\ (k - 1) + 1 = k
      BY <1>1, <2>1
    <2>3. commands'[k - 1] = commands[k]
      BY <1>1, <2>2
    <2> QED
      BY <2>1, <2>2, <2>3 DEF Waiting
  <1>6. PICK W, W1 : W = Waiting(id) /\ W1 = Waiting(id)'
    OBVIOUS
  <1>7. PICK f : f = [k \in W |-> k - 1]
    OBVIOUS
  <1>8. W \subseteq Int
    BY <1>1, <1>6 DEF Waiting
  <1>9. f \in [W -> W1]
    BY <1>5, <1>6, <1>7
  <1>10. \A j, k \in W : f[j] = f[k] => j = k
    BY <1>7, <1>8
  <1>11. f \in Injection(W, W1)
    BY <1>9, <1>10 DEF Injection, IsInjective
  <1>12. Cardinality(W) <= Cardinality(W1)
    BY <1>4, <1>6, <1>11, FS_Injection
  <1> QED
    BY <1>2, <1>4, <1>6, <1>12, SubsetFewer DEF Fewer

LEMMA CountStep ==
    ASSUME TypeInv, TypeInv', NamesOK, FollowsOK, CountOK, [Next]_vars
    PROVE  CountOK'
  <1> SUFFICES ASSUME NEW id \in Id, Created(id)' = {} PROVE Fewer(AskedFor(id)', Waiting(id)')
    BY DEF CountOK, Fewer
  <1>1. Created(id) = {}
    BY CreatedStays
  <1>2. ASSUME UNCHANGED <<setting, asked, commands>>
        PROVE  Fewer(AskedFor(id)', Waiting(id)')
    <2>1. AskedFor(id)' = AskedFor(id) /\ Waiting(id)' = Waiting(id)
      BY <1>2 DEF AskedFor, Waiting
    <2> QED
      BY <1>1, <2>1 DEF CountOK, Fewer
  <1>3. CASE Aside
    BY <1>1, <1>3, AsideCounts, CountStays
  <1>4. CASE Ending
    BY <1>2, <1>4 DEF Ending, HandlerForgets
  <1>5. CASE Request
    BY <1>1, <1>5, RequestCounts
  <1>6. CASE Move \/ Expire
    BY <1>2, <1>6 DEF Move, Expire, handlerVars
  <1>7. CASE Commit
    BY <1>1, <1>7, CommitCounts, CountStays
  <1>8. CASE Handle /\ ~Commit
    <2>1. setting' = setting
      BY AlwaysIs
    <2>2. UNCHANGED <<asked, commands>>
      <3>1. CASE LoadRoot \/ Recover \/ NextTick \/ PublishAnswer \/ PublishRefused \/ StoreRoot
        BY <3>1 DEF LoadRoot, Recover, Recovered, NextTick, PublishAnswer, PublishRefused,
                    StoreRoot, repoVars
      <3>2. CASE CreateParticipant \/ PrepareTransfer \/ Changing
        BY <3>2, CreateParticipantIs, PrepareTransferIs, ChangingIs
      <3> QED
        BY <1>8, <3>1, <3>2, HandleIs
    <2> QED
      BY <1>2, <2>1, <2>2
  <1> QED
    BY <1>3, <1>4, <1>5, <1>6, <1>7, <1>8, StepIs

\* A participant whose creation was asked for and committed has been created: whatever
\* ends, moves or fails, and however often, no command is committed for which nothing
\* was published.
THEOREM CommittedWasCreated == Spec => []CommittedIsCreated
  <1>1. Init => CountOK
    <2> SUFFICES ASSUME Init, NEW id \in Id PROVE Cardinality(AskedFor(id)) <= Cardinality(Waiting(id))
      BY DEF CountOK
    <2>1. asked = 0 /\ commands = <<>>
      BY DEF Init, HandlerInit
    <2>2. AskedFor(id) = {} /\ Waiting(id) = {}
      BY <2>1 DEF AskedFor, Waiting
    <2> QED
      BY <2>2, FS_EmptySet
  <1>2. TypeInv /\ TypeInv' /\ NamesOK /\ FollowsOK /\ CountOK /\ [Next]_vars => CountOK'
    BY CountStep
  <1>3. TypeInv /\ CountOK => CommittedIsCreated
    <2> SUFFICES ASSUME TypeInv, CountOK, NEW id \in Id,
                        Creating(SubSeq(setting.requests, 1, asked), id) > Creating(commands, id)
                 PROVE  Created(id) # {}
      BY DEF CommittedIsCreated
    <2>1. PICK s, q : s = SubSeq(setting.requests, 1, asked) /\ q = setting.requests
      OBVIOUS
    <2>2. /\ asked \in 0..Len(q) /\ Len(q) \in Nat
          /\ \A k \in 1..Len(q) : q[k] \in CommandType
      BY <2>1, SettingFacts DEF TypeInv, CommandsOK, FaultsOK
    <2>3. DOMAIN s = 1..asked /\ \A k \in 1..asked : s[k] = q[k]
      <3>1. /\ asked \in Int /\ 1 \in Int /\ \A k \in 1..asked : q[k] \in CommandType
            /\ asked - 1 + 1 = asked
        BY <2>2
      <3>2. /\ s \in Seq(CommandType) /\ Len(s) = IF 1 <= asked THEN asked - 1 + 1 ELSE 0
            /\ \A k \in 1..asked : s[k] = q[1 + k - 1]
        BY <2>1, <3>1, SubSeqProperties
      <3>3. Len(s) = asked
        BY <2>2, <3>2
      <3>4. \A k \in 1..asked : 1 + k - 1 = k
        BY <2>2
      <3>5. DOMAIN s = 1..Len(s)
        BY <3>2
      <3> QED
        BY <3>2, <3>3, <3>4, <3>5
    <2>4. {k \in DOMAIN s : s[k] = Create(id)} = AskedFor(id)
      BY <2>1, <2>3 DEF AskedFor
    <2>5. Creating(s, id) = Cardinality(AskedFor(id))
      BY <2>4 DEF Creating, Create
    <2>6. DOMAIN commands = 1..Len(commands)
      BY DEF TypeInv, CommandsOK
    <2>7. {k \in DOMAIN commands : commands[k] = Create(id)} = Waiting(id)
      BY <2>6 DEF Waiting
    <2>8. Creating(commands, id) = Cardinality(Waiting(id))
      BY <2>7 DEF Creating, Create
    <2>9. PICK a, w : /\ a = Cardinality(AskedFor(id)) /\ w = Cardinality(Waiting(id))
                      /\ a \in Nat /\ w \in Nat
      BY Finite DEF FiniteOK
    <2>10. a > w
      BY <2>1, <2>5, <2>8, <2>9
    <2> QED
      BY <2>9, <2>10 DEF CountOK
  <1> QED
    BY <1>1, <1>2, <1>3, TypeInvariant, NamesFit, KeptIsCreated, PTL DEF Spec

--------------------------------------------------------------------------------
(* What a topic holds of id up to some message, and the last of it *)

LastOf(topic, id, n, k) ==
    k \in 1..n /\ topic[k].id = id /\ \A j \in (k + 1)..n : topic[j].id # id
OfIs(topic, id, n, all) ==
    /\ all = <<>> <=> \A k \in 1..n : topic[k].id # id
    /\ \A k \in 1..n : LastOf(topic, id, n, k) => all # <<>> /\ Last(all) = topic[k]
    /\ Range(all) = {topic[k] : k \in {j \in 1..n : topic[j].id = id}}

LEMMA UpToIs ==
    ASSUME NEW S, NEW topic \in Seq(S), NEW id
    PROVE  \A n \in 0..Len(topic) : OfIs(topic, id, n, Of(SubSeq(topic, 1, n), id))
  <1>0. Len(topic) \in Nat
    OBVIOUS
  <1> DEFINE O(n) == Of(SubSeq(topic, 1, n), id)
             Good == {n \in 0..Len(topic) : O(n) \in Seq(S) /\ OfIs(topic, id, n, O(n))}
  <1>1. 0 \in Good
    <2>1. SubSeq(topic, 1, 0) = <<>>
      BY <1>0
    <2>2. O(0) = <<>>
      BY <2>1, OfNothing
    <2>3. 0 \in 0..Len(topic) /\ 1..0 = {} /\ <<>> \in Seq(S) /\ Range(<<>>) = {}
      BY <1>0 DEF Range
    <2> HIDE DEF O
    <2>4. OfIs(topic, id, 0, O(0))
      BY <2>2, <2>3 DEF OfIs
    <2> QED
      BY <2>2, <2>3, <2>4
  <1>2. ASSUME NEW n \in 0..(Len(topic) - 1), n \in Good PROVE n + 1 \in Good
    <2>1. PICK s, e, m : s = SubSeq(topic, 1, n) /\ e = topic[n + 1] /\ m = n + 1
      OBVIOUS
    <2>2. /\ n \in 0..Len(topic) /\ n \in Nat /\ m \in 1..Len(topic) /\ m \in 0..Len(topic)
          /\ 1..m = (1..n) \union {m} /\ m \notin 1..n
      BY <1>0, <2>1
    <2>3. /\ e \in S /\ topic[m] = e
      BY <2>1, <2>2
    <2>4. \A k \in 1..n : topic[k] \in S
      BY <1>0, <2>2
    <2>5. s \in Seq(S)
      BY <2>1, <2>2, <2>4
    <2>6. SubSeq(topic, 1, m) = Append(s, e)
      BY <1>0, <2>1, <2>2
    <2>7. PICK o, o1 : o = O(n) /\ o1 = O(m)
      OBVIOUS
    <2>8. o1 = IF e.id = id THEN Append(o, e) ELSE o
      <3>1. o = Of(s, id) /\ o1 = Of(Append(s, e), id)
        BY <2>1, <2>6, <2>7
      <3>2. Of(Append(s, e), id) = IF e.id = id THEN Append(Of(s, id), e) ELSE Of(s, id)
        BY <2>3, <2>5, OfAppend
      <3> QED
        BY <3>1, <3>2
    <2>9. o \in Seq(S) /\ OfIs(topic, id, n, o)
      BY <1>2, <2>7
    <2>10. CASE e.id # id
      <3>1. o1 = o
        BY <2>8, <2>10
      <3>2. (\A k \in 1..n : topic[k].id # id) <=> (\A k \in 1..m : topic[k].id # id)
        BY <2>2, <2>3, <2>10
      <3>3. \A k \in 1..m : LastOf(topic, id, m, k) => k \in 1..n /\ LastOf(topic, id, n, k)
        <4> SUFFICES ASSUME NEW k \in 1..m, LastOf(topic, id, m, k)
                     PROVE  k \in 1..n /\ LastOf(topic, id, n, k)
          OBVIOUS
        <4>1. k # m
          BY <2>3, <2>10 DEF LastOf
        <4>2. k \in 1..n /\ (k + 1)..n \subseteq (k + 1)..m
          BY <2>1, <2>2, <4>1
        <4> QED
          BY <4>2 DEF LastOf
      <3>4. {j \in 1..m : topic[j].id = id} = {j \in 1..n : topic[j].id = id}
        BY <2>2, <2>3, <2>10
      <3>5. OfIs(topic, id, m, o1)
        BY <2>9, <3>1, <3>2, <3>3, <3>4 DEF OfIs
      <3> QED
        BY <2>1, <2>2, <2>7, <2>9, <3>1, <3>5
    <2>11. CASE e.id = id
      <3>1. o1 = Append(o, e)
        BY <2>8, <2>11
      <3>2. /\ o1 \in Seq(S) /\ o1 # <<>> /\ Len(o1) = Len(o) + 1 /\ Len(o) \in Nat
            /\ o1[Len(o) + 1] = e /\ \A k \in 1..Len(o) : o1[k] = o[k]
        BY <2>3, <2>9, <3>1, AppendProperties
      <3>3. Last(o1) = e
        BY <3>2 DEF Last
      <3>4. \A k \in 1..m : LastOf(topic, id, m, k) => k = m
        <4> SUFFICES ASSUME NEW k \in 1..m, LastOf(topic, id, m, k), k # m PROVE FALSE
          OBVIOUS
        <4>1. m \in (k + 1)..m
          BY <2>1, <2>2
        <4> QED
          BY <2>3, <2>11, <4>1 DEF LastOf
      <3>5. Range(o1) = Range(o) \union {e}
        <4>1. DOMAIN o1 = 1..(Len(o) + 1) /\ DOMAIN o = 1..Len(o)
          BY <2>9, <3>2
        <4>2. 1..(Len(o) + 1) = (1..Len(o)) \union {Len(o) + 1}
          BY <3>2
        <4> QED
          BY <3>2, <4>1, <4>2 DEF Range
      <3>6. {j \in 1..m : topic[j].id = id} = {j \in 1..n : topic[j].id = id} \union {m}
        BY <2>2, <2>3, <2>11
      <3>7. Range(o1) = {topic[k] : k \in {j \in 1..m : topic[j].id = id}}
        <4>1. Range(o) = {topic[k] : k \in {j \in 1..n : topic[j].id = id}}
          BY <2>9 DEF OfIs
        <4> QED
          BY <2>3, <3>5, <3>6, <4>1
      <3>8. ~ \A k \in 1..m : topic[k].id # id
        BY <2>2, <2>3, <2>11
      <3>9. OfIs(topic, id, m, o1)
        BY <2>3, <3>2, <3>3, <3>4, <3>7, <3>8 DEF OfIs
      <3> QED
        BY <2>1, <2>2, <2>7, <3>2, <3>9
    <2> QED
      BY <2>10, <2>11
  <1>3. Good \in SUBSET Nat
    OBVIOUS
  <1> HIDE DEF Good
  <1>4. 0..Len(topic) \subseteq Good
    BY <1>0, <1>1, <1>2, <1>3, CountingUp
  <1> QED
    BY <1>4 DEF Good

\* Where there is something, there is a last.
LEMMA LastIs ==
    ASSUME NEW S, NEW topic \in Seq(S), NEW id, NEW n \in 0..Len(topic),
           \E k \in 1..n : topic[k].id = id
    PROVE  \E k \in 1..n : LastOf(topic, id, n, k)
  <1>0. Len(topic) \in Nat /\ n \in Nat
    OBVIOUS
  <1> DEFINE Good == {m \in 0..n : (\E k \in 1..m : topic[k].id = id) => \E k \in 1..m : LastOf(topic, id, m, k)}
  <1>1. 0 \in Good
    BY <1>0
  <1>2. ASSUME NEW m \in 0..(n - 1), m \in Good PROVE m + 1 \in Good
    <2>1. m + 1 \in 0..n /\ 1..(m + 1) = (1..m) \union {m + 1} /\ m + 1 \in 1..(m + 1)
      BY <1>0
    <2>2. CASE topic[m + 1].id = id
      <3>1. ((m + 1) + 1)..(m + 1) = {}
        BY <1>0
      <3>2. LastOf(topic, id, m + 1, m + 1)
        BY <2>1, <2>2, <3>1 DEF LastOf
      <3> QED
        BY <2>1, <3>2
    <2>3. CASE topic[m + 1].id # id
      <3> SUFFICES ASSUME \E k \in 1..(m + 1) : topic[k].id = id
                   PROVE  \E k \in 1..(m + 1) : LastOf(topic, id, m + 1, k)
        BY <2>1
      <3>1. \E k \in 1..m : topic[k].id = id
        BY <2>1, <2>3
      <3>2. PICK k \in 1..m : LastOf(topic, id, m, k)
        BY <1>2, <3>1
      <3>3. (k + 1)..(m + 1) = ((k + 1)..m) \union {m + 1}
        BY <1>0
      <3>4. LastOf(topic, id, m + 1, k)
        BY <2>1, <2>3, <3>2, <3>3 DEF LastOf
      <3> QED
        BY <2>1, <3>4
    <2> QED
      BY <2>2, <2>3
  <1>3. Good \in SUBSET Nat
    BY <1>0
  <1> HIDE DEF Good
  <1>4. 0..n \subseteq Good
    BY <1>0, <1>1, <1>2, <1>3, CountingUp
  <1>5. n \in Good
    BY <1>0, <1>4
  <1> QED
    BY <1>5 DEF Good

--------------------------------------------------------------------------------
(* Restarts, which make the read side take an event once more *)

LEMMA EventsGrow ==
    ASSUME TypeInv, [Next]_vars
    PROVE  \/ events' = events
           \/ /\ PublishAnswer /\ step = "publish" /\ root # None
              /\ Decided(answer) /\ answer \in StateEvent /\ events' = Append(events, answer)
  <1>1. CASE PublishAnswer
    <2>1. step = "publish" /\ root # None
      BY <1>1 DEF PublishAnswer, TypeInv, HandOK
    <2> QED
      BY <1>1, <2>1, PublishAnswerIs DEF TypeInv, HandlerOK
  <1>2. CASE Aside \/ Ending \/ Request \/ Move \/ Expire
    BY <1>2, RequestIs DEF Aside, Ending, HandlerForgets, Move, Expire, handlerVars
  <1>3. CASE Handle /\ ~PublishAnswer
    <2>1. CASE LoadRoot \/ Recover \/ NextTick \/ PublishRefused \/ StoreRoot \/ Commit
      BY <2>1 DEF LoadRoot, Recover, Recovered, NextTick, PublishRefused, StoreRoot, Commit
    <2>2. CASE CreateParticipant \/ PrepareTransfer \/ Changing
      BY <2>2, CreateParticipantIs, PrepareTransferIs, ChangingIs
    <2> QED
      BY <1>3, <2>1, <2>2, HandleIs
  <1> QED
    BY <1>1, <1>2, <1>3, StepIs

\* A process that is ending got a SIGINT, then or before, and opens nothing.
LEMMA ProcessMoves ==
    ASSUME TypeInv, [Next]_vars
    PROVE  /\ process.stops \in Nat /\ process'.stops \in Nat /\ process.stops <= process'.stops
           /\ process'.phase = "stopping" =>
                 \/ process'.stops = process.stops + 1
                 \/ process.phase = "stopping" /\ process'.open \subseteq process.open
  <1>1. /\ process \in [phase : Phase, open : SUBSET (Handlers \X Resource), api : BOOLEAN,
                        stops : 0..setting.stops]
        /\ setting.stops \in Nat
    BY SettingFacts DEF TypeInv, FaultsOK, ProcessOK
  <1>2. process.stops \in Nat
    BY <1>1
  <1>3. ASSUME process' = process
        PROVE  /\ process'.stops = process.stops /\ process'.open = process.open
               /\ process'.phase = "stopping" => process.phase = "stopping"
    BY <1>3
  <1>4. ASSUME NEW r, process' = [process EXCEPT !.open = @ \ r]
        PROVE  /\ process'.stops = process.stops /\ process'.open \subseteq process.open
               /\ process'.phase = process.phase
    BY <1>1, <1>4
  <1>5. CASE Destroy \/ \E h : CommitRefused(h)
    <2>1. \E r : process' = [process EXCEPT !.open = @ \ r]
      BY <1>5 DEF Destroy, CommitRefused, Close
    <2> QED
      BY <1>2, <1>4, <2>1
  <1>6. CASE OpenNext
    <2>1. /\ process.phase = "starting"
          /\ \/ \E r : process' = [process EXCEPT !.open = @ \union {r}]
             \/ process' = [process EXCEPT !.phase = "stuck"]
             \/ process' = Off(process.stops)
      BY <1>6, OpenNextIs
    <2>2. process'.stops = process.stops /\ process'.phase \in {"starting", "stuck", "off"}
      BY <1>1, <2>1 DEF Off
    <2> QED
      BY <1>2, <2>2
  <1>7. CASE Restart \/ AdapterListens \/ Ready \/ Exit
    <2>1. process'.stops = process.stops /\ process'.phase # "stopping"
      <3>1. CASE Restart
        BY <1>1, <3>1 DEF Restart
      <3>2. CASE AdapterListens
        BY <1>1, <3>2 DEF AdapterListens
      <3>3. CASE Ready
        BY <1>1, <3>3 DEF Ready, ServeApi
      <3>4. CASE Exit
        BY <1>1, <3>4 DEF Exit, Off
      <3> QED
        BY <1>7, <3>1, <3>2, <3>3, <3>4
    <2> QED
      BY <1>2, <2>1
  <1>8. CASE CloseApi
    <2>1. /\ process'.stops = process.stops /\ process'.phase = process.phase
          /\ process'.open = process.open
      BY <1>1, <1>8 DEF CloseApi
    <2> QED
      BY <1>2, <2>1
  <1>9. CASE Interrupt \/ InterruptEarly
    <2>1. process'.stops = process.stops + 1
      <3>1. CASE Interrupt
        BY <1>1, <3>1 DEF Interrupt
      <3>2. CASE InterruptEarly
        BY <1>1, <3>2 DEF InterruptEarly, Off
      <3> QED
        BY <1>9, <3>1, <3>2
    <2> QED
      BY <1>2, <2>1
  <1>10. CASE process' = process
    BY <1>2, <1>3, <1>10
  <1>11. CASE ProcessNext
    BY <1>5, <1>6, <1>7, <1>8, <1>9, <1>11 DEF ProcessNext, GoesOn
  <1>12. CASE HandlerNext
    <2>1. process' = process
      BY <1>12, HandlerTyped, TypeParts DEF Leaves
    <2> QED
      BY <1>10, <2>1
  <1>13. CASE OperatorNext
    <2>1. Elsewhere
      BY <1>13, OperatorStepIs
    <2> QED
      BY <1>5, <1>6, <1>7, <1>8, <1>9, <1>10, <2>1 DEF Elsewhere, Staying
  <1>14. CASE ReadNext
    <2>1. process' = process \/ CommitRefused("StateEvt")
      BY <1>14, ReadIs DEF TypeInv
    <2> QED
      BY <1>5, <1>10, <2>1
  <1>15. CASE UNCHANGED vars
    BY <1>10, <1>15 DEF vars, repoVars
  <1> QED
    BY <1>11, <1>12, <1>13, <1>14, <1>15 DEF Next

StopOK == process.phase = "stopping" => process.stops # 0

LEMMA StopStep ==
    ASSUME TypeInv, StopOK, [Next]_vars
    PROVE  StopOK'
  <1> SUFFICES ASSUME process'.phase = "stopping" PROVE process'.stops # 0
    BY DEF StopOK
  <1> QED
    BY ProcessMoves DEF StopOK

\* How often the read side had to start again, and whether it is to once more for the
\* event it is at.
Restarts == Lost("readCrash") + process.stops
Owing    == IF process.phase = "stopping" /\ Opened("StateEvt", "consumer") THEN 1 ELSE 0

LEMMA ReadLosses ==
    ASSUME FaultsOK, MayFail
    PROVE  /\ Lost("readCrash") \in Nat /\ Lost("readCrash")' \in Nat
           /\ Lost("readCrash") <= Lost("readCrash")'
           /\ Fails("readCrash") => Lost("readCrash") + 1 <= Lost("readCrash")'
  <1>1. faults.count \in Nat
    BY SettingFacts DEF FaultsOK
  <1>2. Lost("readCrash") \in Nat
    BY <1>1 DEF Lost
  <1>3. ASSUME NEW kind, Fails(kind)
        PROVE  /\ Lost("readCrash")' \in Nat /\ Lost("readCrash") <= Lost("readCrash")'
               /\ kind = "readCrash" => Lost("readCrash") + 1 <= Lost("readCrash")'
    <2>1. faults'.count = faults.count + 1 /\ faults'.kinds = faults.kinds \union {kind}
      BY <1>3 DEF Fails
    <2> QED
      BY <1>1, <2>1 DEF Lost
  <1>4. UNCHANGED faults => Lost("readCrash")' = Lost("readCrash")
    BY DEF Lost
  <1> QED
    BY <1>2, <1>3, <1>4 DEF MayFail

LEMMA RestartsGrow ==
    ASSUME TypeInv, [Next]_vars
    PROVE  /\ Restarts \in Nat /\ Restarts' \in Nat /\ Restarts <= Restarts'
           /\ Owing \in {0, 1} /\ Owing' \in {0, 1}
           /\ Restarts + Owing' <= Restarts' + Owing
  <1>1. FaultsOK /\ MayFail
    BY StepIs, HandlerTyped, TypeParts, RequestIs
       DEF Aside, Ending, Leaves, HandlerNext, Move, Expire, TypeInv
  <1>2. PICK a, b, c, d : /\ a = Lost("readCrash") /\ b = Lost("readCrash")'
                          /\ c = process.stops /\ d = process'.stops
    OBVIOUS
  <1>3. a \in Nat /\ b \in Nat /\ a <= b /\ c \in Nat /\ d \in Nat /\ c <= d
    BY <1>1, <1>2, ReadLosses, ProcessMoves
  <1>4. Restarts = a + c /\ Restarts' = b + d
    BY <1>2 DEF Restarts
  <1>5. Owing \in {0, 1} /\ Owing' \in {0, 1}
    BY DEF Owing
  <1>6. Owing' = 1 => Owing = 1 \/ d = c + 1
    BY <1>2, ProcessMoves DEF Owing, Opened
  <1>7. PICK v, w : v = Owing /\ w = Owing'
    OBVIOUS
  <1>8. v \in {0, 1} /\ w \in {0, 1} /\ (w = 1 => v = 1 \/ d = c + 1)
    BY <1>5, <1>6, <1>7
  <1>9. a + c \in Nat /\ b + d \in Nat /\ a + c <= b + d
    BY <1>3
  <1>10. (a + c) + w <= (b + d) + v
    <2>1. CASE w = 0
      BY <1>3, <1>8, <2>1
    <2>2. CASE w = 1 /\ v = 1
      BY <1>3, <2>2
    <2>3. CASE w = 1 /\ d = c + 1
      BY <1>3, <1>8, <2>3
    <2> QED
      BY <1>8, <2>1, <2>2, <2>3
  <1> QED
    BY <1>4, <1>7, <1>8, <1>9, <1>10

--------------------------------------------------------------------------------
(* What the read side reads: what an event of a transfer says, and what came first *)

ValueFits(e) == /\ e.name = "TransferPreparedStateEvt" => e.value = RECEIVED_PREPARE
                /\ e.name = "TransferFulfiledStateEvt" => e.value = RECEIVED_FULFIL
ValuesOK == ValueFits(answer) /\ \A k \in 1..Len(events) : ValueFits(events[k])

LEMMA AnswersFit ==
    ASSUME ValueFits(answer), CreateParticipant \/ PrepareTransfer \/ Changing
    PROVE  ValueFits(answer')
  <1> USE DEF ValueFits
  <1>1. ValueFits(NoEvent)
    BY DEF NoEvent, Event
  <1>2. CASE CreateParticipant \/ PrepareTransfer
    <2>1. \/ answer' = NoEvent \/ answer' = Event("ParticipantCreatedStateEvt", Cmd.id, 0)
          \/ answer' = Event("TransferPreparedStateEvt", Cmd.id, RECEIVED_PREPARE)
      BY <1>2, CreateParticipantIs, PrepareTransferIs DEF Refused, Answers
    <2> QED
      BY <1>1, <2>1 DEF Event
  <1>3. CASE ChangePosition
    BY <1>1, <1>3 DEF ChangePosition, Refused, Changed, Published,
                      ParticipantPositionChangedStateEvt, Event
  <1>4. CASE SnapshotParticipant
    BY <1>1, <1>4 DEF SnapshotParticipant, Refused, Changed, Published,
                      ParticipantStateSnapshotEvt, Event
  <1>5. CASE AckPayerFundsReserved
    BY <1>1, <1>5 DEF AckPayerFundsReserved, Refused, Changed, Published,
                      TransferStateChangedStateEvt, Event
  <1>6. CASE FulfilTransfer
    BY <1>1, <1>6 DEF FulfilTransfer, Refused, Changed, Published, TransferFulfiledStateEvt, Event
  <1>7. CASE AckPayeeFundsCommitted
    BY <1>1, <1>7 DEF AckPayeeFundsCommitted, Refused, Changed, Published,
                      TransferStateChangedStateEvt, Event
  <1> QED
    BY <1>2, <1>3, <1>4, <1>5, <1>6, <1>7 DEF Changing

\* Where an event stands stays the same.
LEMMA EventsStand ==
    ASSUME TypeInv, [Next]_vars
    PROVE  /\ Len(events) \in Nat /\ Len(events') \in Nat /\ Len(events) <= Len(events')
           /\ \A k \in 1..Len(events) : k \in 1..Len(events') /\ events'[k] = events[k]
           /\ \A k \in 1..Len(events') :
                 \/ k \in 1..Len(events)
                 \/ k = Len(events) + 1 /\ events'[k] = answer /\ events' = Append(events, answer)
  <1>1. events \in Seq(StateEvent) /\ Len(events) \in Nat
    BY DEF TypeInv, TopicsOK
  <1>2. CASE events' = events
    BY <1>1, <1>2
  <1>3. CASE answer \in StateEvent /\ events' = Append(events, answer)
    <2>1. /\ Len(events') = Len(events) + 1
          /\ \A k \in 1..Len(events) : events'[k] = events[k]
          /\ events'[Len(events) + 1] = answer
      BY <1>1, <1>3, AppendProperties
    <2> QED
      BY <1>1, <1>3, <2>1
  <1> QED
    BY <1>2, <1>3, EventsGrow

LEMMA ValuesStep ==
    ASSUME TypeInv, ValuesOK, [Next]_vars
    PROVE  ValuesOK'
  <1>1. \A k \in 1..Len(events') : ValueFits(events'[k])
    BY EventsStand DEF ValuesOK
  <1>2. ValueFits(answer')
    <2>1. \A id : ValueFits(NoEvent) /\ ValueFits(Event("recovered", id, None))
      BY DEF ValueFits, NoEvent, Event
    <2>2. CASE Aside \/ Ending \/ Request \/ Move \/ Expire
      <3>1. answer' = answer \/ answer' = NoEvent
        BY <2>2, RequestIs DEF Aside, Ending, HandlerForgets, Fresh, Move, Expire, handlerVars
      <3> QED
        BY <2>1, <3>1 DEF ValuesOK
    <2>3. CASE LoadRoot \/ NextTick \/ PublishAnswer \/ PublishRefused \/ StoreRoot \/ Commit
      <3>1. answer' = answer \/ answer' = NoEvent
        BY <2>3 DEF LoadRoot, NextTick, PublishAnswer, PublishRefused, StoreRoot, Commit, Fresh
      <3> QED
        BY <2>1, <3>1 DEF ValuesOK
    <2>4. CASE Recover
      BY <2>1, <2>4 DEF Recover, Recovering
    <2>5. CASE CreateParticipant \/ PrepareTransfer \/ Changing
      BY <2>5, AnswersFit DEF ValuesOK
    <2> QED
      BY <2>2, <2>3, <2>4, <2>5, StepIs, HandleIs
  <1> QED
    BY <1>1, <1>2 DEF ValuesOK, ValueFits

\* The first event of a participant or a transfer is the one that created it.
BegunOK == \A id \in Id : \A k \in 1..Len(events) :
               events[k].id = id => \E j \in Created(id) : j <= k

LEMMA BegunStep ==
    ASSUME TypeInv, FollowsOK, BegunOK, [Next]_vars
    PROVE  BegunOK'
  <1>1. CASE events' = events
    BY <1>1, CreatedStill DEF BegunOK
  <1>2. CASE /\ step = "publish" /\ root # None /\ Decided(answer)
             /\ answer \in StateEvent /\ events' = Append(events, answer)
    <2> SUFFICES ASSUME NEW id \in Id, NEW k \in 1..Len(events'), events'[k].id = id
                 PROVE  \E j \in Created(id)' : j <= k
      BY DEF BegunOK
    <2>1. Created(id)' = IF answer.id = id /\ Creates(answer)
                         THEN Created(id) \union {Len(events) + 1} ELSE Created(id)
      BY <1>2, CreatedMore DEF TypeInv
    <2>2. CASE k \in 1..Len(events) /\ events'[k] = events[k]
      BY <2>1, <2>2 DEF BegunOK
    <2>3. CASE k = Len(events) + 1 /\ events'[k] = answer
      <3>1. id = Cmd.id /\ k \in Nat /\ k <= k
        BY <1>2, <2>3, EventsStand DEF Decided
      <3>2. CASE Creates(answer)
        BY <2>1, <2>3, <3>1, <3>2
      <3>3. CASE ~Creates(answer)
        <4>1. Created(id) # {}
          BY <1>2, <3>1, <3>3 DEF FollowsOK, FollowOK, RootOK, Found
        <4>2. \A j \in Created(id) : j <= k
          BY <2>3, CreatedIs, EventsStand DEF TypeInv
        <4> QED
          BY <2>1, <3>3, <4>1, <4>2
      <3> QED
        BY <3>2, <3>3
    <2> QED
      BY <2>2, <2>3, EventsStand
  <1> QED
    BY <1>1, <1>2, EventsGrow

--------------------------------------------------------------------------------
(* The documents *)

LEMMA ReadTakesIs ==
    ASSUME TypeInv, ValuesOK, StopOK, ReadNext, "mongo" \notin faults'.kinds, [Next]_vars,
           NEW e, e = events[read + 1]
    PROVE  /\ read + 1 \in 1..Len(events) /\ e \in StateEvent /\ events' = events
           /\ IF Creates(e) THEN Insert(e.id, e.value) ELSE UpdateFirst(e.id, e.value)
           /\ \/ read' = read + 1
              \/ read' = read /\ Restarts + Owing' + 1 <= Restarts' + Owing /\ Restarts' # 0
  <1>1. /\ read + 1 \in 1..Len(events) /\ e \in StateEvent /\ events' = events
        /\ \/ read' = read + 1
           \/ read' = read /\ process' = process /\ Fails("readCrash")
           \/ read' = read /\ CommitRefused("StateEvt")
    BY ReadIs DEF TypeInv, handlerVars
  <1>2. ReadStateEvent
    BY DEF ReadNext, MongoFails, Fails
  <1>3. ValueFits(e)
    BY <1>1 DEF ValuesOK
  <1>4. IF Creates(e) THEN Insert(e.id, e.value) ELSE UpdateFirst(e.id, e.value)
    <2>1. CASE HandleParticipantCreatedStateEvt
      BY <2>1 DEF HandleParticipantCreatedStateEvt, Handles, Creates
    <2>2. CASE HandleParticipantPositionChangedStateEvt
      BY <2>2 DEF HandleParticipantPositionChangedStateEvt, Handles, Creates, UpdatePosition
    <2>3. CASE HandleTransferPreparedStateEvt
      BY <1>3, <2>3 DEF HandleTransferPreparedStateEvt, Handles, Creates, ValueFits
    <2>4. CASE HandleTransferFulfiledStateEvt
      BY <1>3, <2>4 DEF HandleTransferFulfiledStateEvt, Handles, Creates, ValueFits, UpdateFulfil
    <2>5. CASE HandleTransferStateChangedStateEvt
      BY <2>5 DEF HandleTransferStateChangedStateEvt, Handles, Creates, UpdateTransferState
    <2> QED
      BY <1>2, <2>1, <2>2, <2>3, <2>4, <2>5 DEF ReadStateEvent
  <1>5. ASSUME Fails("readCrash"), process' = process
        PROVE  Restarts + Owing' + 1 <= Restarts' + Owing /\ Restarts' # 0
    <2>1. PICK a, b, c, v : /\ a = Lost("readCrash") /\ b = Lost("readCrash")'
                            /\ c = process.stops /\ v = Owing
      OBVIOUS
    <2>2. a \in Nat /\ b \in Nat /\ c \in Nat /\ v \in {0, 1} /\ a + 1 <= b
      BY <1>5, <2>1, ReadLosses, ProcessMoves, RestartsGrow DEF MayFail, TypeInv
    <2>3. Restarts = a + c /\ Restarts' = b + c /\ Owing' = v
      BY <1>5, <2>1 DEF Restarts, Owing, Opened
    <2>4. (a + c) + v + 1 <= (b + c) + v /\ b + c # 0
      BY <2>2
    <2> QED
      BY <2>1, <2>3, <2>4
  <1>6. ASSUME CommitRefused("StateEvt")
        PROVE  Restarts + Owing' + 1 <= Restarts' + Owing /\ Restarts' # 0
    <2>1. /\ process.phase = "stopping" /\ Opened("StateEvt", "consumer") /\ faults' = faults
          /\ process' = [process EXCEPT !.open = @ \ {<<"StateEvt", "consumer">>}]
      BY <1>6 DEF CommitRefused, Close
    <2>2. process'.stops = process.stops /\ <<"StateEvt", "consumer">> \notin process'.open
      BY <2>1 DEF TypeInv, ProcessOK
    <2>3. Owing = 1 /\ Owing' = 0
      BY <2>1, <2>2 DEF Owing, Opened
    <2>4. PICK a, c : a = Lost("readCrash") /\ c = process.stops
      OBVIOUS
    <2>5. a \in Nat /\ c \in Nat /\ c # 0
      BY <2>1, <2>4, ReadLosses, ProcessMoves DEF StopOK, MayFail, TypeInv
    <2>6. Restarts = a + c /\ Restarts' = a + c
      BY <2>1, <2>2, <2>4 DEF Restarts, Lost
    <2>7. (a + c) + 0 + 1 <= (a + c) + 1 /\ a + c # 0
      BY <2>5
    <2> QED
      BY <2>3, <2>6, <2>7
  <1> QED
    BY <1>1, <1>4, <1>5, <1>6

\* How many documents there are, that there are some, and what the first says, where
\* something was created once: what was last taken, or what is taken once more.
Taken(id)   == {k \in Created(id) : k <= read}
Sole(id)    == \A j, k \in Created(id) : j = k
FewOK       == \A id \in Id : Len(docs[id]) + Owing <= Cardinality(Taken(id)) + Restarts
SomeOK      == \A id \in Id : (\E k \in 1..read : events[k].id = id) => docs[id] # <<>>
TookLast(id) == \E k \in 1..read : LastOf(events, id, read, k) /\ Head(docs[id]) = events[k].value
TakesMore(id) == /\ Restarts # 0 /\ read < Len(events) /\ events[read + 1].id = id
                 /\ Head(docs[id]) = events[read + 1].value
FirstOK     == \A id \in Id : Sole(id) /\ docs[id] # <<>> => TookLast(id) \/ TakesMore(id)
DocsOK      == FewOK /\ SomeOK /\ FirstOK

LEMMA TakenIs ==
    ASSUME TypeInv, NEW id \in Id
    PROVE  /\ IsFiniteSet(Created(id)) /\ Cardinality(Created(id)) \in Nat
           /\ IsFiniteSet(Taken(id)) /\ Cardinality(Taken(id)) \in Nat
           /\ Cardinality(Taken(id)) <= Cardinality(Created(id))
  <1>1. Created(id) \subseteq 1..Len(events) /\ Len(events) \in Nat
    BY CreatedIs DEF TypeInv
  <1>2. IsFiniteSet(1..Len(events))
    BY <1>1, FS_Interval
  <1>3. IsFiniteSet(Created(id))
    BY <1>1, <1>2, FS_Subset
  <1>4. Taken(id) \subseteq Created(id)
    BY DEF Taken
  <1> QED
    BY <1>3, <1>4, FS_Subset, FS_CardinalityType

\* Where nothing is taken, what is there to take only grows.
LEMMA DocsStand ==
    ASSUME TypeInv, DocsOK, [Next]_vars, UNCHANGED readVars
    PROVE  DocsOK'
  <1>1. /\ read \in 0..Len(events) /\ Len(events) \in Nat /\ docs' = docs /\ read' = read
        /\ Len(events') \in Nat /\ Len(events) <= Len(events')
        /\ \A k \in 1..Len(events) : events'[k] = events[k]
    BY EventsStand DEF TypeInv, ReadOK, readVars
  <1>2. \A id \in Id : Created(id)' = Created(id) \/ Created(id)' = Created(id) \union {Len(events) + 1}
    BY EventsGrow, CreatedMore, CreatedStill DEF TypeInv
  <1>3. ASSUME NEW id \in Id PROVE Taken(id)' = Taken(id)
    <2>1. Len(events) + 1 > read /\ Created(id) \subseteq 1..Len(events)
      BY <1>1, CreatedIs DEF TypeInv
    <2> QED
      BY <1>1, <1>2, <2>1 DEF Taken
  <1>4. FewOK'
    <2> SUFFICES ASSUME NEW id \in Id PROVE Len(docs[id]) + Owing' <= Cardinality(Taken(id)) + Restarts'
      BY <1>1, <1>3 DEF FewOK
    <2>1. PICK l, c, v, w, r, s : /\ l = Len(docs[id]) /\ c = Cardinality(Taken(id))
                                  /\ v = Owing /\ w = Owing' /\ r = Restarts /\ s = Restarts'
      OBVIOUS
    <2>2. l \in Nat /\ c \in Nat
      <3>1. docs[id] \in Seq(Nat)
        BY DEF TypeInv, ReadOK
      <3> QED
        BY <2>1, <3>1, TakenIs
    <2>3. v \in {0, 1} /\ w \in {0, 1} /\ r \in Nat /\ s \in Nat /\ r + w <= s + v
      BY <2>1, RestartsGrow
    <2>4. l + v <= c + r
      BY <2>1 DEF DocsOK, FewOK
    <2>5. l + w <= c + s
      BY <2>2, <2>3, <2>4
    <2> QED
      BY <2>1, <2>5
  <1>5. SomeOK'
    BY <1>1 DEF DocsOK, SomeOK
  <1>6. FirstOK'
    <2> SUFFICES ASSUME NEW id \in Id, Sole(id)', docs[id] # <<>> PROVE TookLast(id)' \/ TakesMore(id)'
      BY <1>1 DEF FirstOK
    <2>1. Sole(id)
      BY <1>2 DEF Sole
    <2>2. CASE TookLast(id)
      <3>1. PICK k \in 1..read : LastOf(events, id, read, k) /\ Head(docs[id]) = events[k].value
        BY <2>2 DEF TookLast
      <3>2. \A j \in 1..read : events'[j] = events[j]
        BY <1>1
      <3>3. LastOf(events', id, read, k) /\ events'[k] = events[k]
        BY <1>1, <3>1, <3>2 DEF LastOf
      <3> QED
        BY <1>1, <3>1, <3>3 DEF TookLast
    <2>3. CASE TakesMore(id)
      <3>1. read + 1 \in 1..Len(events) /\ Restarts' # 0
        BY <1>1, <2>3, RestartsGrow DEF TakesMore
      <3> QED
        BY <1>1, <2>3, <3>1 DEF TakesMore
    <2> QED
      BY <2>1, <2>2, <2>3 DEF DocsOK, FirstOK
  <1> QED
    BY <1>4, <1>5, <1>6 DEF DocsOK

\* Documents of the id that is taken, and of the others.
LEMMA TakingIs ==
    ASSUME docs \in [Id -> Seq(Nat)], NEW e \in StateEvent, NEW id \in Id,
           IF Creates(e) THEN Insert(e.id, e.value) ELSE UpdateFirst(e.id, e.value)
    PROVE  /\ Len(docs[id]) \in Nat /\ Len(docs'[id]) \in Nat
           /\ id # e.id => docs'[id] = docs[id]
           /\ docs[id] # <<>> => docs'[id] # <<>>
           /\ Len(docs'[id]) = IF id = e.id /\ Creates(e) THEN Len(docs[id]) + 1 ELSE Len(docs[id])
           /\ id = e.id /\ Creates(e) =>
                 /\ docs'[id] # <<>>
                 /\ Head(docs'[id]) = IF docs[id] = <<>> THEN e.value ELSE Head(docs[id])
           /\ id = e.id /\ ~Creates(e) /\ docs[id] # <<>> => Head(docs'[id]) = e.value
  <1>1. PICK d, x, v : d = docs[id] /\ x = docs'[id] /\ v = e.value
    OBVIOUS
  <1>2. d \in Seq(Nat) /\ Len(d) \in Nat /\ v \in Nat
    BY <1>1 DEF StateEvent
  <1>3. CASE id # e.id
    <2>1. x = d
      BY <1>1, <1>3 DEF Insert, UpdateFirst
    <2> QED
      BY <1>1, <1>2, <1>3, <2>1
  <1>4. CASE id = e.id /\ Creates(e)
    <2>1. x = Append(d, v)
      BY <1>1, <1>4 DEF Insert
    <2>2. /\ Len(x) = Len(d) + 1 /\ x # <<>> /\ x[Len(d) + 1] = v
          /\ \A k \in 1..Len(d) : x[k] = d[k]
      <3>1. PICK T : T = Nat
        OBVIOUS
      <3>2. d \in Seq(T) /\ v \in T
        BY <1>2, <3>1
      <3> QED
        BY <1>2, <2>1, <3>2, AppendProperties
    <2>3. Head(x) = x[1] /\ (d # <<>> => Head(d) = d[1] /\ 1 \in 1..Len(d)) /\ (d = <<>> => Len(d) = 0)
      BY <1>2, <2>1, <2>2
    <2> QED
      BY <1>1, <1>2, <1>4, <2>2, <2>3
  <1>5. CASE id = e.id /\ ~Creates(e)
    <2>1. x = IF d = <<>> THEN d ELSE [d EXCEPT ![1] = v]
      BY <1>1, <1>5 DEF UpdateFirst
    <2>2. CASE d = <<>>
      BY <1>1, <1>2, <1>5, <2>1, <2>2
    <2>3. CASE d # <<>>
      <3>1. 1 \in 1..Len(d) /\ Len(d) # 0
        BY <1>2, <2>3
      <3>2. x \in Seq(Nat) /\ Len(x) = Len(d) /\ x[1] = v
        BY <1>2, <2>1, <2>3, <3>1
      <3>3. x # <<>> /\ Head(x) = x[1]
        BY <3>1, <3>2
      <3> QED
        BY <1>1, <1>2, <1>5, <2>3, <3>2, <3>3
    <2> QED
      BY <2>2, <2>3
  <1> QED
    BY <1>3, <1>4, <1>5

LEMMA DocsTake ==
    ASSUME TypeInv, ValuesOK, StopOK, BegunOK, DocsOK, ReadNext, [Next]_vars,
           "mongo" \notin faults'.kinds
    PROVE  DocsOK'
  <1>1. PICK e : e = events[read + 1]
    OBVIOUS
  <1>2. /\ read + 1 \in 1..Len(events) /\ e \in StateEvent /\ events' = events
        /\ IF Creates(e) THEN Insert(e.id, e.value) ELSE UpdateFirst(e.id, e.value)
        /\ \/ read' = read + 1
           \/ read' = read /\ Restarts + Owing' + 1 <= Restarts' + Owing /\ Restarts' # 0
    BY <1>1, ReadTakesIs
  <1>3. /\ read \in 0..Len(events) /\ read \in Nat /\ Len(events) \in Nat
        /\ docs \in [Id -> Seq(Nat)] /\ e.id \in Id
    BY <1>2 DEF TypeInv, ReadOK, TopicsOK, StateEvent
  <1>4. \A id : /\ Created(id)' = Created(id)
                /\ Created(id) = {k \in 1..Len(events) : events[k].id = id /\ Creates(events[k])}
    BY <1>2, CreatedStill, CreatedIs DEF TypeInv
  <1>5. ASSUME NEW id \in Id
        PROVE  Len(docs'[id]) + Owing' <= Cardinality(Taken(id)') + Restarts'
    <2>1. PICK l, m, v, w, r, s : /\ l = Len(docs[id]) /\ m = Len(docs'[id])
                                  /\ v = Owing /\ w = Owing' /\ r = Restarts /\ s = Restarts'
      OBVIOUS
    <2>2. PICK T, U : T = Taken(id) /\ U = Taken(id)'
      OBVIOUS
    <2>3. PICK c, d : c = Cardinality(T) /\ d = Cardinality(U)
      OBVIOUS
    <2>4. /\ l \in Nat /\ m \in Nat
          /\ m = IF id = e.id /\ Creates(e) THEN l + 1 ELSE l
      BY <1>2, <1>3, <2>1, TakingIs
    <2>5. /\ v \in {0, 1} /\ w \in {0, 1} /\ r \in Nat /\ s \in Nat /\ r + w <= s + v
          /\ read' = read + 1 \/ (read' = read /\ r + w + 1 <= s + v)
      BY <1>2, <2>1, RestartsGrow
    <2>6. IsFiniteSet(T) /\ c \in Nat /\ l + v <= c + r
      BY <2>1, <2>2, <2>3, TakenIs DEF DocsOK, FewOK
    <2>7. /\ read' = read => U = T
          /\ read' = read + 1 => U = T \union (IF id = e.id /\ Creates(e) THEN {read + 1} ELSE {})
      <3>1. T = {k \in Created(id) : k <= read} /\ U = {k \in Created(id) : k <= read'}
        BY <1>4, <2>2 DEF Taken
      <3>2. \A k \in Created(id) : k \in Nat /\ (k <= read + 1 <=> k <= read \/ k = read + 1)
        BY <1>3, <1>4
      <3>3. read + 1 \in Created(id) <=> id = e.id /\ Creates(e)
        BY <1>1, <1>2, <1>4
      <3> QED
        BY <3>1, <3>2, <3>3
    <2>8. read + 1 \notin T
      BY <1>3, <2>2 DEF Taken
    <2>9. d = IF read' = read + 1 /\ id = e.id /\ Creates(e) THEN c + 1 ELSE c
      <3>1. CASE read' = read + 1 /\ id = e.id /\ Creates(e)
        <4>1. U = T \union {read + 1}
          BY <2>7, <3>1
        <4> QED
          BY <2>3, <2>6, <2>8, <3>1, <4>1, FS_AddElement
      <3>2. CASE ~(read' = read + 1 /\ id = e.id /\ Creates(e))
        <4>1. U = T
          BY <2>5, <2>7, <3>2
        <4> QED
          BY <2>3, <3>2, <4>1
      <3> QED
        BY <3>1, <3>2
    <2>10. m + w <= d + s
      <3>1. CASE read' = read + 1 /\ id = e.id /\ Creates(e)
        BY <2>4, <2>5, <2>6, <2>9, <3>1
      <3>2. CASE read' = read /\ r + w + 1 <= s + v
        <4>1. d = c /\ m <= l + 1
          BY <1>3, <2>4, <2>9, <3>2
        <4> QED
          BY <2>4, <2>5, <2>6, <3>2, <4>1
      <3>3. CASE ~(id = e.id /\ Creates(e))
        <4>1. d = c /\ m = l
          BY <2>4, <2>9, <3>3
        <4> QED
          BY <2>4, <2>5, <2>6, <4>1
      <3> QED
        BY <2>5, <3>1, <3>2, <3>3
    <2> QED
      BY <2>1, <2>2, <2>3, <2>10
  <1>6. ASSUME NEW id \in Id, NEW k \in 1..read', events[k].id = id PROVE docs'[id] # <<>>
    <2>1. CASE docs[id] # <<>>
      BY <1>2, <1>3, <2>1, TakingIs
    <2>2. CASE docs[id] = <<>>
      <3>1. \A j \in 1..read : events[j].id # id
        BY <2>2 DEF DocsOK, SomeOK
      <3>2. k = read + 1 /\ id = e.id
        BY <1>1, <1>2, <1>3, <1>6, <3>1
      <3>3. PICK j \in Created(id) : j <= read + 1
        BY <1>2, <1>6, <3>2 DEF BegunOK
      <3>4. j = read + 1
        BY <1>3, <1>4, <3>1, <3>3
      <3>5. Creates(e)
        BY <1>1, <1>4, <3>3, <3>4
      <3> QED
        BY <1>2, <1>3, <3>2, <3>5, TakingIs
    <2> QED
      BY <2>1, <2>2
  <1>7. ASSUME NEW id \in Id, Sole(id), docs'[id] # <<>> PROVE TookLast(id)' \/ TakesMore(id)'
    <2>1. CASE id # e.id
      <3>1. docs'[id] = docs[id] /\ ~TakesMore(id)
        BY <1>1, <1>2, <1>3, <2>1, TakingIs DEF TakesMore
      <3>2. PICK k \in 1..read : LastOf(events, id, read, k) /\ Head(docs[id]) = events[k].value
        BY <1>7, <3>1 DEF DocsOK, FirstOK, TookLast
      <3>3. k \in 1..read' /\ \A j \in (k + 1)..read' : j \in (k + 1)..read \/ j = read + 1
        BY <1>2, <1>3
      <3>4. LastOf(events, id, read', k)
        BY <1>1, <2>1, <3>2, <3>3 DEF LastOf
      <3> QED
        BY <1>2, <3>1, <3>2, <3>3, <3>4 DEF TookLast
    <2>2. CASE id = e.id
      <3>1. Head(docs'[id]) = e.value
        <4>1. CASE ~Creates(e)
          <5>1. docs[id] # <<>>
            <6>1. docs[id] \in Seq(Nat) /\ docs'[id] \in Seq(Nat)
              BY <1>3, TypeStep DEF TypeInv, ReadOK
            <6>2. Len(docs'[id]) = Len(docs[id])
              BY <1>2, <1>3, <4>1, TakingIs
            <6>3. Len(docs'[id]) # 0
              BY <1>7, <6>1
            <6> QED
              BY <6>1, <6>2, <6>3
          <5> QED
            BY <1>2, <1>3, <2>2, <4>1, <5>1, TakingIs
        <4>2. CASE Creates(e) /\ docs[id] = <<>>
          BY <1>2, <1>3, <2>2, <4>2, TakingIs
        <4>3. CASE Creates(e) /\ docs[id] # <<>>
          <5>1. Head(docs'[id]) = Head(docs[id])
            BY <1>2, <1>3, <2>2, <4>3, TakingIs
          <5>2. ~TookLast(id)
            <6> SUFFICES ASSUME TookLast(id) PROVE FALSE
              OBVIOUS
            <6>1. PICK k \in 1..read : events[k].id = id
              BY DEF TookLast, LastOf
            <6>2. k \in 1..Len(events)
              BY <1>3
            <6>3. PICK j \in Created(id) : j <= k
              BY <6>1, <6>2 DEF BegunOK
            <6>4. read + 1 \in Created(id)
              BY <1>1, <1>2, <1>4, <2>2, <4>3
            <6>5. j # read + 1
              BY <1>3, <1>4, <6>1, <6>3
            <6> QED
              BY <1>7, <6>3, <6>4, <6>5 DEF Sole
          <5>3. TakesMore(id)
            BY <1>7, <4>3, <5>2 DEF DocsOK, FirstOK
          <5> QED
            BY <1>1, <5>1, <5>3 DEF TakesMore
        <4> QED
          BY <4>1, <4>2, <4>3
      <3>2. CASE read' = read + 1
        <4>1. read + 1 \in 1..read' /\ ((read + 1) + 1)..read' = {}
          BY <1>3, <3>2
        <4>2. LastOf(events, id, read', read + 1)
          BY <1>1, <2>2, <4>1 DEF LastOf
        <4> QED
          BY <1>1, <1>2, <3>1, <4>1, <4>2 DEF TookLast
      <3>3. CASE read' = read /\ Restarts' # 0
        BY <1>1, <1>2, <1>3, <2>2, <3>1, <3>3 DEF TakesMore
      <3> QED
        BY <1>2, <3>2, <3>3
    <2> QED
      BY <2>1, <2>2
  <1>8. FewOK'
    BY <1>5 DEF FewOK
  <1>9. SomeOK'
    BY <1>2, <1>6 DEF SomeOK
  <1>10. FirstOK'
    BY <1>4, <1>7 DEF FirstOK, Sole
  <1> QED
    BY <1>8, <1>9, <1>10 DEF DocsOK

LEMMA DocsStep ==
    ASSUME TypeInv, ValuesOK, StopOK, BegunOK, "mongo" \in faults.kinds \/ DocsOK, [Next]_vars
    PROVE  ("mongo" \in faults.kinds \/ DocsOK)'
  <1> SUFFICES ASSUME "mongo" \notin faults'.kinds PROVE DocsOK'
    OBVIOUS
  <1>1. DocsOK
    BY AlwaysIs
  <1>2. ReadNext \/ UNCHANGED readVars
    BY DEF Next, vars
  <1> QED
    BY <1>1, <1>2, DocsStand, DocsTake

LEMMA DocsInit == Init => ValuesOK /\ StopOK /\ BegunOK /\ DocsOK
  <1> SUFFICES ASSUME Init PROVE ValuesOK /\ StopOK /\ BegunOK /\ DocsOK
    OBVIOUS
  <1>1. /\ events = <<>> /\ answer = NoEvent /\ docs = [id \in Id |-> <<>>] /\ read = 0
        /\ faults = [count |-> 0, kinds |-> {}]
        /\ process.phase # "stopping" /\ process.stops = 0
    BY DEF Init, HandlerInit, ReadInit, ProcessInit, Off
  <1>2. Len(events) = 0 /\ 1..0 = {}
    BY <1>1
  <1>3. ValuesOK /\ StopOK /\ BegunOK
    BY <1>1, <1>2 DEF ValuesOK, ValueFits, NoEvent, Event, StopOK, BegunOK
  <1>4. Restarts = 0 /\ Owing = 0
    BY <1>1 DEF Restarts, Lost, Owing
  <1>5. \A id : Taken(id) = {}
    BY <1>1 DEF Taken, Created
  <1>6. Cardinality({}) = 0
    BY FS_EmptySet
  <1>7. FewOK
    <2> SUFFICES ASSUME NEW id \in Id PROVE Len(docs[id]) + Owing <= Cardinality(Taken(id)) + Restarts
      BY DEF FewOK
    <2>1. Len(docs[id]) = 0 /\ Cardinality(Taken(id)) = 0
      BY <1>1, <1>5, <1>6
    <2> QED
      BY <1>4, <2>1
  <1> QED
    BY <1>1, <1>2, <1>3, <1>7 DEF DocsOK, SomeOK, FirstOK

\* As long as mongo answers, the read side shows every participant and transfer that was
\* created once as of the last event it took or, if it ever had to start again, of the one
\* it is at; and no more documents of it than there were creations and restarts: it ends
\* before or after it commits, and its consumer may be gone by then.
THEOREM ReadSideKeepsUp == Spec => []ReadSideFollows
  <1> DEFINE RInv == ValuesOK /\ StopOK /\ BegunOK /\ ("mongo" \in faults.kinds \/ DocsOK)
  <1>1. Init => RInv
    BY DocsInit
  <1>2. TypeInv /\ FollowsOK /\ RInv /\ [Next]_vars => RInv'
    BY ValuesStep, StopStep, BegunStep, DocsStep
  <1>3. TypeInv /\ RInv => ReadSideFollows
    <2> SUFFICES ASSUME TypeInv, DocsOK, NEW id \in Id
                 PROVE  /\ Of(SubSeq(events, 1, read), id) # <<>> /\ Cardinality(Created(id)) = 1 =>
                              /\ docs[id] # <<>>
                              /\ Head(docs[id]) \in {Last(Of(SubSeq(events, 1, n), id)).value :
                                    n \in read..(IF Restarts > 0 /\ read < Len(events)
                                                 THEN read + 1 ELSE read)}
                        /\ Len(docs[id]) <= Cardinality(Created(id)) + Restarts
      BY DEF ReadSideFollows, Restarts
    <2>1. /\ events \in Seq(StateEvent) /\ Len(events) \in Nat /\ read \in 0..Len(events)
          /\ docs[id] \in Seq(Nat)
      BY DEF TypeInv, TopicsOK, ReadOK
    <2>2. Len(docs[id]) <= Cardinality(Created(id)) + Restarts
      <3>1. PICK l, v, c, d, r : /\ l = Len(docs[id]) /\ v = Owing /\ c = Cardinality(Taken(id))
                                 /\ d = Cardinality(Created(id)) /\ r = Restarts
        OBVIOUS
      <3>2. l \in Nat /\ c \in Nat /\ d \in Nat /\ c <= d /\ l + v <= c + r
        BY <2>1, <3>1, TakenIs DEF DocsOK, FewOK
      <3>3. v \in {0, 1} /\ r \in Nat
        <4>1. Lost("readCrash") \in Nat /\ process.stops \in Nat
          BY SettingFacts DEF TypeInv, FaultsOK, ProcessOK, Lost
        <4> QED
          BY <3>1, <4>1 DEF Owing, Restarts
      <3>4. l <= d + r
        BY <3>2, <3>3
      <3> QED
        BY <3>1, <3>4
    <2>3. ASSUME Of(SubSeq(events, 1, read), id) # <<>>, Cardinality(Created(id)) = 1
          PROVE  /\ docs[id] # <<>>
                 /\ \E n \in read..(IF Restarts > 0 /\ read < Len(events) THEN read + 1 ELSE read) :
                       Head(docs[id]) = Last(Of(SubSeq(events, 1, n), id)).value
      <3>1. \A n \in 0..Len(events) : OfIs(events, id, n, Of(SubSeq(events, 1, n), id))
        BY <2>1, UpToIs
      <3>2. docs[id] # <<>>
        BY <2>1, <2>3, <3>1 DEF OfIs, DocsOK, SomeOK
      <3>3. Sole(id)
        <4>1. IsFiniteSet(Created(id))
          BY TakenIs
        <4>2. PICK C : C = Created(id)
          OBVIOUS
        <4>3. \E x : C = {x}
          BY <2>3, <4>1, <4>2, FS_Singleton
        <4> QED
          BY <4>2, <4>3 DEF Sole
      <3>4. CASE TookLast(id)
        <4>1. PICK k \in 1..read : LastOf(events, id, read, k) /\ Head(docs[id]) = events[k].value
          BY <3>4 DEF TookLast
        <4>2. Last(Of(SubSeq(events, 1, read), id)) = events[k]
          BY <2>1, <3>1, <4>1 DEF OfIs
        <4>3. read \in read..(IF Restarts > 0 /\ read < Len(events) THEN read + 1 ELSE read)
          BY <2>1
        <4> QED
          BY <3>2, <4>1, <4>2, <4>3
      <3>5. CASE TakesMore(id)
        <4>1. /\ read + 1 \in 1..Len(events) /\ read + 1 \in 0..Len(events)
              /\ ((read + 1) + 1)..(read + 1) = {} /\ read + 1 \in 1..(read + 1)
              /\ events[read + 1].id = id /\ Head(docs[id]) = events[read + 1].value
          BY <2>1, <3>5 DEF TakesMore
        <4>2. LastOf(events, id, read + 1, read + 1)
          BY <4>1 DEF LastOf
        <4>3. Last(Of(SubSeq(events, 1, read + 1), id)) = events[read + 1]
          BY <3>1, <4>1, <4>2 DEF OfIs
        <4>4. Restarts > 0 /\ read < Len(events)
          <5>1. Lost("readCrash") \in Nat /\ process.stops \in Nat
            BY SettingFacts DEF TypeInv, FaultsOK, ProcessOK, Lost
          <5> QED
            BY <3>5, <5>1 DEF TakesMore, Restarts
        <4>5. read + 1 \in read..(IF Restarts > 0 /\ read < Len(events) THEN read + 1 ELSE read)
          BY <2>1, <4>4
        <4> QED
          BY <3>2, <4>1, <4>3, <4>5
      <3> QED
        BY <3>2, <3>3, <3>4, <3>5 DEF DocsOK, FirstOK
    <2> QED
      BY <2>2, <2>3
  <1> QED
    BY <1>1, <1>2, <1>3, TypeInvariant, KeptIsCreated, PTL DEF Spec

--------------------------------------------------------------------------------
(* The repositories, and what each does not survive *)

Persisting == ParticipantRepo \ {"InMemoryParticipantStateRepo"}
Layered ==
    {"CachedRedisParticipantStateRepo", "CachedPersistedRedisParticipantStateRepo",
     "CachedRedisTransferStateRepo", "CachedPersistedRedisTransferStateRepo"}
Remembering ==
    Layered \union {"InMemoryParticipantStateRepo", "InMemoryTransferStateRepo",
                    "InMemoryNodeCacheTransferStateRepo"}
Writing ==
    {"RedisParticipantStateRepo", "CachedPersistedRedisParticipantStateRepo",
     "RedisTransferStateRepo", "CachedPersistedRedisTransferStateRepo"}
Lasting == {"RedisTransferStateRepo", "CachedPersistedRedisTransferStateRepo"}

LEMMA SurvivalIs ==
    /\ Repo \in ParticipantRepo => "fetch" \in StaleAfter /\ "fetch" \in ForgottenAfter
    /\ Repo \in Writing \union {"CachedRedisParticipantStateRepo"} => "crash" \in StaleAfter
    /\ Repo \in Writing => "store" \in StaleAfter
    /\ Repo \in Remembering => "move" \in StaleAfter
    /\ Repo \in Volatile => {"crash", "move"} \subseteq ForgottenAfter
    /\ Repo = "InMemoryNodeCacheTransferStateRepo" => "expiry" \in ForgottenAfter
    /\ Repo \in Lasting => {"crash", "store", "expiry"} \subseteq ForgottenAfter
    /\ Repo \in Persisting => "crash" \in AheadAfter
  BY DEF StaleAfter, ForgottenAfter, AheadAfter, Persisting, ParticipantRepo, Remembering, Layered,
         Writing, Lasting, Volatile

LEMMA RepoIs ==
    ASSUME TypeInv
    PROVE  /\ Repo \in ParticipantRepo \union TransferRepo
           /\ IsParticipants => Repo \in ParticipantRepo
           /\ setting.application = "transfers" => Repo \in TransferRepo
  <1>1. setting \in Settings /\ setting \in Setting
    BY RepositoriesAssumption DEF TypeInv, FaultsOK, RepositoriesAssumption
  <1> QED
    BY <1>1, RepositoriesAssumption DEF RepositoriesAssumption, Setting, Repo, IsParticipants

LEMMA FindsIs ==
    ASSUME NEW id, Load(id)
    PROVE  \/ /\ Repo \in Remembering /\ root' = memory[owner][id] /\ memory' = memory
              /\ Repo \in Layered => memory[owner][id] # None
           \/ /\ Repo \in Layered /\ memory[owner][id] = None
              /\ root' = redis[id] /\ memory' = [memory EXCEPT ![owner][id] = redis[id]]
           \/ /\ Repo \in {"RedisParticipantStateRepo", "RedisTransferStateRepo"}
              /\ root' = redis[id] /\ memory' = memory
  BY DEF Load, InMemoryParticipantLoad, RedisParticipantLoad, CachedRedisParticipantLoad,
         CachedPersistedRedisParticipantLoad, InMemoryTransferLoad, NodeCacheTransferLoad,
         RedisTransferLoad, CachedRedisTransferLoad, CachedPersistedRedisTransferLoad,
         FromMemory, FromRedis, FromEither, InMemory, Remember, Remembering, Layered

LEMMA StoresIs ==
    ASSUME NEW id, NEW v, ParticipantStore(id, v) \/ TransferStore(id, v)
    PROVE  /\ Repo \in Remembering => memory' = [memory EXCEPT ![owner][id] = v]
           /\ Repo \notin Remembering => memory' = memory
           /\ Repo \in Writing => RedisSet(id, v)
           /\ Repo \notin Writing \union {"CachedRedisParticipantStateRepo"} => redis' = redis
           /\ redis' = redis \/ redis' = [redis EXCEPT ![id] = v]
           /\ ParticipantStore(id, v) => Repo \in ParticipantRepo
  <1>1. RedisSet(id, v) => redis' = redis \/ redis' = [redis EXCEPT ![id] = v]
    BY DEF RedisSet, Persist
  <1>2. CASE ParticipantStore(id, v)
    BY <1>1, <1>2
       DEF ParticipantStore, InMemoryParticipantStore, RedisParticipantStore,
           CachedRedisParticipantStore, CachedPersistedRedisParticipantStore, MemoryOnly, Remember,
           Remembering, Layered, Writing, ParticipantRepo
  <1>3. CASE TransferStore(id, v) /\ ~ParticipantStore(id, v)
    BY <1>1, <1>3
       DEF TransferStore, InMemoryTransferStore, NodeCacheTransferStore, RedisTransferStore,
           CachedRedisTransferStore, CachedPersistedRedisTransferStore, MemoryOnly, Remember,
           Remembering, Layered, Writing
  <1> QED
    BY <1>2, <1>3

--------------------------------------------------------------------------------
(* A handler gets commands of its application: only participants' ask for snapshots *)

UpOK      == up => IsParticipants
HandledOK == \A k \in 1..Len(commands) : commands[k].name \in HandledBy(setting.application)
OwnOK     == UpOK /\ HandledOK

LEMMA OperatorIsUp ==
    ASSUME TypeInv, UpOK, OperatorNext
    PROVE  IsParticipants \/ UNCHANGED <<up, commands>>
  <1>1. OperatorOK /\ TopicsOK /\ setting \in Settings
        /\ process.open \subseteq Handlers \X Resource
    BY DEF TypeInv, FaultsOK, ProcessOK
  <1>2. CASE StartOperator
    <2>1. <<"SnapshotOperator", "ids">> \in process.open
      BY <1>2 DEF StartOperator, Opened
    <2>2. "SnapshotOperator" \in Range(InOrder)
      BY <1>1, <2>1 DEF Handlers
    <2>3. setting.application \in {"participants", "transfers", "simulator", "adapter"}
      BY <1>1, SettingFacts
    <2> QED
      BY <1>1, <2>2, <2>3, InOrderIs DEF IsParticipants
  <1>3. CASE HearStateEvent \/ HearSnapshot \/ Execute
    BY <1>1, <1>3, HearIs, ExecuteIs DEF UpOK
  <1>4. CASE PublishCommands \/ PublishCommandsFails
    BY <1>1, <1>4 DEF PublishCommands, PublishCommandsFails, OperatorOK, UpOK
  <1>5. CASE OnTimer \/ CrashOperator
    BY <1>5 DEF OnTimer, CrashOperator, UpOK
  <1>6. CASE Hour
    BY <1>6 DEF Hour, handlerVars
  <1> QED
    BY <1>2, <1>3, <1>4, <1>5, <1>6 DEF OperatorNext, Operate

LEMMA OwnStep ==
    ASSUME TypeInv, OwnOK, [Next]_vars
    PROVE  OwnOK'
  <1>1. setting' = setting
    BY AlwaysIs
  <1>2. IsParticipants' = IsParticipants
    BY <1>1 DEF IsParticipants
  <1>3. HandledBy(setting.application)' = HandledBy(setting.application)
    BY <1>1 DEF HandledBy
  <1>4. ASSUME commands' = commands PROVE HandledOK'
    BY <1>3, <1>4 DEF OwnOK, HandledOK
  <1>5. ASSUME up' \in {up, FALSE} PROVE UpOK'
    BY <1>2, <1>5 DEF OwnOK, UpOK
  <1>6. CASE ProcessNext \/ UNCHANGED vars
    <2>1. up' \in {up, FALSE} /\ commands' = commands
      BY <1>6 DEF ProcessNext, GoesOn, Stays, Forgets, HandlerForgets, OperatorForgets,
                  handlerVars, operatorVars, vars
    <2> QED
      BY <1>4, <1>5, <2>1 DEF OwnOK
  <1>7. CASE ReadNext /\ UNCHANGED operatorVars
    <2>1. up' = up /\ commands' = commands
      BY <1>7, ReadIs DEF TypeInv, handlerVars, operatorVars
    <2> QED
      BY <1>4, <1>5, <2>1 DEF OwnOK
  <1>8. CASE OperatorNext
    <2>1. CASE UNCHANGED <<up, commands>>
      BY <1>4, <1>5, <2>1 DEF OwnOK
    <2>2. CASE IsParticipants
      <3>1. UpOK'
        BY <1>2, <2>2 DEF UpOK
      <3>2. \A k \in 1..Len(commands') : \/ k \in 1..Len(commands) /\ commands'[k] = commands[k]
                                        \/ commands'[k].name = "SnapshotParticipantStateCmd"
        BY <1>8, OperatorStepIs, AsideIs
      <3>3. "SnapshotParticipantStateCmd" \in HandledBy(setting.application)
        BY <2>2 DEF HandledBy, ParticipantCmd, IsParticipants
      <3> QED
        BY <1>3, <3>1, <3>2, <3>3 DEF OwnOK, HandledOK
    <2> QED
      BY <1>8, <2>1, <2>2, OperatorIsUp DEF OwnOK
  <1>9. CASE HandlerNext /\ UNCHANGED operatorVars
    <2>1. UpOK'
      BY <1>5, <1>9 DEF operatorVars
    <2>2. CASE Request
      <3>1. \A k \in 1..Len(commands') : commands'[k].name \in HandledBy(setting.application)
        BY <2>2, RequestIs DEF OwnOK, HandledOK
      <3> QED
        BY <1>3, <2>1, <3>1 DEF OwnOK, HandledOK
    <2>3. CASE Commit
      <3>1. \A k \in 1..Len(commands') : commands'[k].name \in HandledBy(setting.application)
        BY <2>3, CommitIs DEF TypeInv, OwnOK, HandledOK
      <3> QED
        BY <1>3, <2>1, <3>1 DEF OwnOK, HandledOK
    <2>4. CASE CrashHandler \/ Move \/ Expire
      BY <1>4, <2>1, <2>4 DEF OwnOK, CrashHandler, HandlerForgets, Move, Expire, handlerVars
    <2>5. CASE LoadRoot \/ Recover \/ NextTick \/ PublishAnswer \/ PublishRefused \/ StoreRoot
      BY <1>4, <2>1, <2>5 DEF OwnOK, LoadRoot, Recover, Recovered, NextTick, PublishAnswer,
                              PublishRefused, StoreRoot
    <2>6. CASE CreateParticipant \/ PrepareTransfer \/ Changing
      BY <1>4, <2>1, <2>6, CreateParticipantIs, PrepareTransferIs, ChangingIs DEF OwnOK
    <2> QED
      BY <1>9, <2>2, <2>3, <2>4, <2>5, <2>6, HandleIs DEF HandlerNext
  <1> QED
    BY <1>6, <1>7, <1>8, <1>9 DEF Next

\* What the handler is at is its application's.
LEMMA OwnIs ==
    ASSUME TypeInv, OwnOK, commands # <<>>
    PROVE  Cmd.name \in ParticipantCmd <=> Repo \in ParticipantRepo
  <1>1. Cmd = commands[1] /\ 1 \in 1..Len(commands)
    BY CmdIs DEF TypeInv, CommandsOK
  <1>2. Cmd.name \in HandledBy(setting.application)
    BY <1>1 DEF OwnOK, HandledOK
  <1>3. ParticipantRepo \intersect TransferRepo = {} /\ ParticipantCmd \intersect TransferCmd = {}
    BY DEF ParticipantRepo, TransferRepo, ParticipantCmd, TransferCmd
  <1> QED
    BY <1>2, <1>3, RepoIs DEF HandledBy, IsParticipants

--------------------------------------------------------------------------------
(* What happened, and what the events say *)

\* A process that ended, or is about to, crashed.
LEMMA HappenedIs ==
    ASSUME TypeInv, StopOK, [Next]_vars
    PROVE  /\ setting' = setting /\ Happened \subseteq Happened'
           /\ Ending => "crash" \in Happened'
           /\ \A kind : Fails(kind) => kind \in Happened'
           /\ process.phase = "stopping" => "crash" \in Happened
  <1>1. /\ setting' = setting /\ faults.kinds \subseteq faults'.kinds
        /\ process.stops \in Nat /\ process'.stops \in Nat /\ process.stops <= process'.stops
    BY AlwaysIs, ProcessMoves
  <1>2. Happened \subseteq Happened'
    BY <1>1 DEF Happened
  <1>3. \A kind : Fails(kind) => kind \in Happened'
    BY DEF Fails, Happened
  <1>4. process.phase = "stopping" => "crash" \in Happened
    BY <1>1 DEF StopOK, Happened
  <1>5. Ending => "crash" \in Happened'
    <2>1. SUFFICES ASSUME Ending, ~Fails("crash") PROVE process'.stops > 0
      BY <1>3 DEF Happened
    <2>2. \/ process'.stops = process.stops + 1
          \/ process.phase = "stopping" /\ process'.stops = process.stops
      BY <2>1 DEF Ending
    <2> QED
      BY <1>1, <2>2 DEF StopOK
  <1> QED
    BY <1>1, <1>2, <1>3, <1>4, <1>5

LEMMA SaidStill ==
    ASSUME events' = events
    PROVE  \A id : States(id)' = States(id) /\ LastState(id)' = LastState(id)
  BY DEF States, LastState

LEMMA SaidMore ==
    ASSUME TopicsOK, NEW e \in StateEvent, events' = Append(events, e), NEW id
    PROVE  /\ States(id)' = IF e.id = id THEN States(id) \union {e.value} ELSE States(id)
           /\ LastState(id)' = IF e.id = id THEN e.value ELSE LastState(id)
  <1>1. PICK all, more, T : all = Of(events, id) /\ more = Of(events', id) /\ T = {m \in StateEvent : m.id = id}
    OBVIOUS
  <1>2. all \in Seq(T)
    BY <1>1, OfMembers DEF TopicsOK
  <1>3. more = IF e.id = id THEN Append(all, e) ELSE all
    BY <1>1, OfAppend DEF TopicsOK
  <1>4. /\ States(id) = {x.value : x \in Range(all)} /\ States(id)' = {x.value : x \in Range(more)}
        /\ LastState(id) = (IF all = <<>> THEN None ELSE Last(all).value)
        /\ LastState(id)' = (IF more = <<>> THEN None ELSE Last(more).value)
    BY <1>1 DEF States, LastState
  <1>5. CASE e.id = id
    <2>1. e \in T /\ more = Append(all, e)
      BY <1>1, <1>3, <1>5
    <2>2. /\ more \in Seq(T) /\ Len(more) = Len(all) + 1 /\ more # <<>>
          /\ \A k \in 1..Len(all) : more[k] = all[k]
          /\ more[Len(all) + 1] = e
      BY <1>2, <2>1, AppendProperties
    <2>3. /\ Len(all) \in Nat /\ DOMAIN all = 1..Len(all) /\ DOMAIN more = 1..(Len(all) + 1)
          /\ Last(more) = e
      BY <1>2, <2>2 DEF Last
    <2>4. Range(more) = Range(all) \union {e}
      BY <2>2, <2>3 DEF Range
    <2> QED
      BY <1>4, <1>5, <2>2, <2>3, <2>4
  <1>6. CASE e.id # id
    BY <1>3, <1>4, <1>6
  <1> QED
    BY <1>5, <1>6

\* The last of them is one of them, and a number.
LEMMA SaidIs ==
    ASSUME TopicsOK, NEW id
    PROVE  /\ States(id) \subseteq Nat
           /\ LastState(id) = None \/ LastState(id) \in States(id)
           /\ (\E k \in 1..Len(events) : events[k].id = id) <=> LastState(id) # None
  <1>1. PICK all, T : all = Of(events, id) /\ T = {m \in StateEvent : m.id = id}
    OBVIOUS
  <1>2. all \in Seq(T) /\ (all = <<>> <=> \A k \in 1..Len(events) : events[k].id # id)
    BY <1>1, OfMembers DEF TopicsOK
  <1>3. /\ States(id) = {x.value : x \in Range(all)}
        /\ LastState(id) = (IF all = <<>> THEN None ELSE Last(all).value)
    BY <1>1 DEF States, LastState
  <1>4. \A x \in T : x.value \in Nat
    BY <1>1 DEF StateEvent
  <1>5. Range(all) \subseteq T /\ (all # <<>> => Last(all) \in Range(all))
    <2>1. DOMAIN all = 1..Len(all) /\ Len(all) \in Nat /\ \A k \in 1..Len(all) : all[k] \in T
      BY <1>2
    <2>2. all # <<>> => Len(all) \in 1..Len(all)
      BY <1>2, <2>1
    <2> QED
      BY <2>1, <2>2 DEF Range, Last
  <1>6. None \notin Nat
    BY ConstantFacts
  <1> QED
    BY <1>2, <1>3, <1>4, <1>5, <1>6

--------------------------------------------------------------------------------
(* What a step does to what is kept of the aggregates *)

\* The handler has a state of id that the repository may not have yet, or ends with it.
AtHand(id) == /\ commands # <<>> /\ Cmd.id = id
              /\ step \in {"tick", "publish", "store"} \/ (step = "commit" /\ Gone)

\* Nothing that is kept changes; the aggregate does, and its object with it; it is stored;
\* its event is published.
Standing == /\ UNCHANGED <<memory, redis, owner, events>>
            /\ \A id \in Id : AtHand(id) => AtHand(id)' /\ root' = root
Revising(id, v) ==
    /\ step = "handle" /\ root' = v /\ AtHand(id)'
    /\ memory' = memory \/ memory' = [memory EXCEPT ![owner][id] = v]
    /\ UNCHANGED <<redis, owner, events>>
Storing(id, v) ==
    /\ ParticipantStore(id, v) \/ TransferStore(id, v)
    /\ root = v /\ step \in {"tick", "store"} /\ UNCHANGED <<owner, events, commands>>
    /\ \/ step = "store" /\ step' = "commit"
       \/ /\ step = "tick" /\ ParticipantStore(id, v) /\ root' = root /\ answer' = answer
          /\ step' = IF answer = NoEvent THEN "commit" ELSE "publish"
    /\ commands # <<>> /\ Cmd.id = id
Saying(e) ==
    /\ AtHand(e.id) /\ AtHand(e.id)' /\ events' = Append(events, e) /\ e.value = root
    /\ UNCHANGED <<memory, redis, owner, root>>

LEMMA HandlesIs ==
    ASSUME TypeInv, OrderOK, Handle
    PROVE  \/ Standing \/ LoadRoot
           \/ \E id \in Id, v \in Nat : Revising(id, v)
           \/ \E id \in Id, v \in Nat : Storing(id, v)
           \/ \E e \in StateEvent : Saying(e)
  <1>1. \A id : AtHand(id) => step \in {"tick", "publish", "store", "commit"}
    BY DEF AtHand
  <1>2. ASSUME step \notin {"tick", "publish", "store", "commit"},
               UNCHANGED <<memory, redis, owner, events>>
        PROVE  Standing
    BY <1>1, <1>2 DEF Standing
  <1>3. CASE Recover \/ CreateParticipant \/ PrepareTransfer
    <2>1. step \in {"load", "recover", "handle"} /\ UNCHANGED <<memory, redis, owner, events>>
      BY <1>3, CreateParticipantIs, PrepareTransferIs DEF Recover, Recovered, At
    <2> QED
      BY <1>2, <2>1
  <1>4. CASE Changing
    <2>1. /\ commands # <<>> /\ step = "handle" /\ UNCHANGED <<redis, owner, commands, events>>
      BY <1>4, ChangingIs
    <2>2. CASE memory' = memory /\ Refused
      BY <1>2, <2>1, <2>2
    <2>3. CASE ~(memory' = memory /\ Refused)
      <3>1. PICK evt : /\ root # None /\ Answers(evt) /\ Advances(evt) /\ root' = evt.value
                       /\ memory' = memory \/ Remember(Cmd.id, evt.value)
        BY <1>4, <2>3, ChangingIs
      <3>2. PICK id, v : id = Cmd.id /\ v = evt.value
        OBVIOUS
      <3>3. id \in Id /\ root \in Nat
        BY <2>1, <3>1, <3>2 DEF TypeInv, HandOK, RepoOK, Value
      <3>4. v \in Nat
        BY <3>1, <3>2, <3>3 DEF Advances
      <3>5. AtHand(id)'
        BY <2>1, <3>1, <3>2 DEF AtHand, Answers, Cmd
      <3>6. Revising(id, v)
        BY <2>1, <3>1, <3>2, <3>5 DEF Revising, Remember
      <3> QED
        BY <3>3, <3>4, <3>6
    <2> QED
      BY <2>2, <2>3
  <1>5. CASE NextTick \/ StoreRoot
    <2>1. PICK id, v : id = Cmd.id /\ v = root
      OBVIOUS
    <2>2. id \in Id /\ v \in Nat
      BY <1>5, <2>1 DEF NextTick, StoreRoot, TypeInv, HandOK, RepoOK, Value
    <2>3. Storing(id, v)
      BY <1>5, <2>1 DEF Storing, NextTick, StoreRoot
    <2> QED
      BY <2>2, <2>3
  <1>6. CASE PublishAnswer
    <2>1. /\ commands # <<>> /\ step = "publish" /\ step' = "store"
          /\ UNCHANGED <<memory, redis, owner, root, commands>>
      BY <1>6 DEF PublishAnswer, repoVars
    <2>2. /\ Decided(answer)
          /\ events' = events \/ (answer \in StateEvent /\ events' = Append(events, answer))
      BY <1>6, PublishAnswerIs DEF TypeInv, HandlerOK
    <2>3. \A id : AtHand(id) => AtHand(id)'
      BY <2>1 DEF AtHand, Cmd
    <2>4. CASE events' = events
      BY <2>1, <2>3, <2>4 DEF Standing
    <2>5. CASE answer \in StateEvent /\ events' = Append(events, answer)
      <3>1. PICK e : e = answer
        OBVIOUS
      <3>2. AtHand(e.id)
        BY <2>1, <2>2, <3>1 DEF AtHand, Decided
      <3>3. Saying(e)
        BY <2>1, <2>2, <2>3, <2>5, <3>1, <3>2 DEF Saying, Decided
      <3> QED
        BY <2>5, <3>1, <3>3
    <2> QED
      BY <2>2, <2>4, <2>5
  <1>7. CASE PublishRefused
    <2>1. /\ commands # <<>> /\ step = "publish" /\ step' = "commit" /\ ~Opened("Cmd", "publisher")
          /\ UNCHANGED <<process, memory, redis, owner, root, commands, events>>
      BY <1>7 DEF PublishRefused, repoVars
    <2>2. Gone'
      BY <2>1 DEF OrderOK, Gone, Opened
    <2>3. \A id : AtHand(id) => AtHand(id)'
      BY <2>1, <2>2 DEF AtHand, Cmd
    <2> QED
      BY <2>1, <2>3 DEF Standing
  <1>8. CASE Commit
    <2>1. step = "commit" /\ Opened("Cmd", "consumer") /\ UNCHANGED <<memory, redis, owner, events>>
      BY <1>8 DEF Commit
    <2>2. \A id : ~AtHand(id)
      BY <2>1 DEF AtHand, Gone
    <2> QED
      BY <2>1, <2>2 DEF Standing
  <1> QED
    BY <1>3, <1>4, <1>5, <1>6, <1>7, <1>8, HandleIs

LEMMA MediaIs ==
    ASSUME TypeInv, OrderOK, [Next]_vars
    PROVE  \/ Standing \/ LoadRoot
           \/ \E id \in Id, v \in Nat : Revising(id, v)
           \/ \E id \in Id, v \in Nat : Storing(id, v)
           \/ \E e \in StateEvent : Saying(e)
           \/ Ending \/ Move \/ Expire
  <1>1. CASE Aside /\ Elsewhere
    <2>1. Gone => Gone'
      BY <1>1, ElsewhereOrder DEF Aside
    <2>2. \A id : AtHand(id) => AtHand(id)'
      BY <1>1, <2>1, AsideIs DEF AtHand, Aside
    <2> QED
      BY <1>1, <2>2 DEF Standing, Aside
  <1>2. CASE Request
    <2>1. \A id : AtHand(id) => AtHand(id)'
      BY <1>2, RequestIs DEF AtHand, Gone, Opened
    <2> QED
      BY <1>2, <2>1, RequestIs DEF Standing
  <1> QED
    BY <1>1, <1>2, StepIs, HandlesIs

--------------------------------------------------------------------------------
(* Whatever is kept or found was told of, or redis is ahead by one *)

\* Stored before it was published, by a process that crashed in between; which redis does
\* not lose.
Ahead(id, v) == /\ v - 1 \in States(id) /\ "crash" \in Happened
                /\ Repo \in Persisting /\ redis[id] # None
Told(id, v)  == v \in States(id) \/ Ahead(id, v)

MemoryTold == \A id \in Id, proc \in Proc, v \in Nat :
    memory[proc][id] = v => Told(id, v) \/ (proc = owner /\ AtHand(id) /\ v = root)
RedisTold == \A id \in Id, v \in Nat :
    redis[id] = v => \/ Told(id, v)
                     \/ /\ step = "publish" /\ AtHand(id) /\ v = root
                        /\ v - 1 \in States(id) /\ Repo \in Persisting
SnapshotsTold == \A id \in Id, v \in Nat : \A k \in 1..Len(snapshots) :
    snapshots[k].id = id /\ snapshots[k].value = v => Told(id, v)

\* What a snapshot says, and what is stored after it was said, has been told of before.
Repeating == step = "store" \/ (step \in {"tick", "publish"} /\ IsSnapshot(answer))
RootTold == \A id \in Id, v \in Nat : Cmd.id = id /\ root = v =>
    /\ step = "handle" => Told(id, v) /\ (answer # NoEvent => v \in States(id))
    /\ step = "tick" => /\ v \in States(id) \/ v - 1 \in States(id)
                        /\ answer = NoEvent => v \in States(id)
    /\ Repeating => Told(id, v)
UnkeptOK == \A id \in Id :
    step = "recover" /\ Cmd.id = id /\ Repo \in Persisting => redis[id] = None
ToldOK == MemoryTold /\ RedisTold /\ SnapshotsTold /\ RootTold /\ UnkeptOK

LEMMA StatesStay ==
    ASSUME TypeInv, [Next]_vars
    PROVE  \A id : States(id) \subseteq States(id)'
  <1>1. CASE events' = events
    BY <1>1, SaidStill
  <1>2. CASE \E e \in StateEvent : events' = Append(events, e)
    <2>1. PICK e \in StateEvent : events' = Append(events, e)
      BY <1>2
    <2>2. TopicsOK
      BY DEF TypeInv
    <2>3. ASSUME NEW id PROVE States(id) \subseteq States(id)'
      BY <2>1, <2>2, SaidMore
    <2> QED
      BY <2>3
  <1> QED
    BY <1>1, <1>2, EventsGrow

\* Redis loses no participant.
LEMMA RedisStays ==
    ASSUME TypeInv, OrderOK, [Next]_vars, Repo \in Persisting, NEW id \in Id
    PROVE  /\ redis[id] # None => redis'[id] # None
           /\ redis'[id] = redis[id] \/ \E v \in Nat : Storing(id, v) /\ redis'[id] = v
  <1>1. redis \in [Id -> Value] /\ None \notin Nat
    BY ConstantFacts DEF TypeInv, RepoOK
  <1>2. CASE Standing \/ LoadRoot \/ (\E e \in StateEvent : Saying(e)) \/ Ending \/ Move
             \/ \E i \in Id, v \in Nat : Revising(i, v)
    <2>1. redis' = redis
      BY <1>2 DEF Standing, LoadRoot, Saying, Ending, HandlerForgets, Move, Revising
    <2> QED
      BY <2>1
  <1>3. CASE \E i \in Id, v \in Nat : Storing(i, v)
    <2>1. PICK i \in Id, v \in Nat : Storing(i, v)
      BY <1>3
    <2>2. redis' = redis \/ redis' = [redis EXCEPT ![i] = v]
      BY <2>1, StoresIs DEF Storing
    <2> QED
      BY <1>1, <2>1, <2>2
  <1>4. CASE Expire
    <2>1. redis' = redis
      BY <1>4 DEF Expire, CacheExpires, RedisExpires, Persisting, ParticipantRepo
    <2> QED
      BY <2>1
  <1> QED
    BY <1>2, <1>3, <1>4, MediaIs

LEMMA ToldStays ==
    ASSUME TypeInv, OrderOK, StopOK, [Next]_vars, NEW id \in Id, NEW v \in Nat, Told(id, v)
    PROVE  Told(id, v)'
  <1>1. setting' = setting /\ Happened \subseteq Happened' /\ States(id) \subseteq States(id)'
    BY HappenedIs, StatesStay
  <1>2. Repo' = Repo
    BY <1>1 DEF Repo
  <1>3. CASE v \in States(id)
    BY <1>1, <1>3 DEF Told
  <1>4. CASE Ahead(id, v)
    <2>1. redis'[id] # None
      BY <1>4, RedisStays DEF Ahead
    <2> QED
      BY <1>1, <1>2, <1>4, <2>1 DEF Told, Ahead
  <1> QED
    BY <1>3, <1>4 DEF Told

LEMMA HandNotAt ==
    ASSUME step \notin {"tick", "publish", "store", "commit"}
    PROVE  \A id : ~AtHand(id)
  BY DEF AtHand

LEMMA MemoryToldStep ==
    ASSUME TypeInv, OrderOK, StopOK, ToldOK, [Next]_vars
    PROVE  MemoryTold'
  <1> SUFFICES ASSUME NEW id \in Id, NEW proc \in Proc, NEW v \in Nat, memory'[proc][id] = v
               PROVE  Told(id, v)' \/ (proc = owner' /\ AtHand(id)' /\ v = root')
    BY DEF MemoryTold
  <1>0. memory \in [Proc -> [Id -> Value]] /\ owner \in Proc /\ None \notin Nat
    BY ConstantFacts DEF TypeInv, RepoOK
  <1>1. Told(id, v) => Told(id, v)'
    BY ToldStays
  <1>2. memory[proc][id] = v => Told(id, v) \/ (proc = owner /\ AtHand(id) /\ v = root)
    BY DEF ToldOK, MemoryTold
  <1>3. CASE Standing
    BY <1>1, <1>2, <1>3 DEF Standing
  <1>4. CASE LoadRoot
    <2>1. step = "load" /\ (memory' = memory \/ (Cmd.id \in Id /\ Load(Cmd.id)))
      BY <1>4 DEF LoadRoot, At
    <2>2. PICK i : i = Cmd.id
      OBVIOUS
    <2>3. memory' = memory \/ (i \in Id /\ memory' = [memory EXCEPT ![owner][i] = redis[i]])
      BY <2>1, <2>2, FindsIs
    <2>4. ~AtHand(id)
      BY <2>1, HandNotAt
    <2>5. redis[id] = v => Told(id, v)
      BY <2>1 DEF ToldOK, RedisTold
    <2> QED
      BY <1>0, <1>1, <1>2, <2>3, <2>4, <2>5
  <1>5. CASE \E i \in Id, w \in Nat : Revising(i, w)
    <2>1. PICK i \in Id, w \in Nat : Revising(i, w)
      BY <1>5
    <2>2. ~AtHand(id)
      BY <2>1, HandNotAt DEF Revising
    <2> QED
      BY <1>0, <1>1, <1>2, <2>1, <2>2 DEF Revising
  <1>6. CASE \E i \in Id, w \in Nat : Storing(i, w)
    <2>1. PICK i \in Id, w \in Nat : Storing(i, w)
      BY <1>6
    <2>2. memory' = memory \/ memory' = [memory EXCEPT ![owner][i] = w]
      BY <2>1, StoresIs DEF Storing
    <2>3. Told(id, v) \/ (proc = owner /\ id = i /\ v = w)
      <3>1. memory'[proc][id] = memory[proc][id] \/ (proc = owner /\ id = i /\ v = w)
        BY <1>0, <2>2
      <3>2. AtHand(id) /\ v = root => id = i /\ v = w
        BY <2>1 DEF AtHand, Storing
      <3> QED
        BY <1>2, <3>1, <3>2
    <2>4. CASE proc = owner /\ id = i /\ v = w
      <3>1. Cmd.id = id /\ root = v /\ commands # <<>> /\ UNCHANGED <<owner, commands>>
        BY <2>1, <2>4 DEF Storing
      <3>2. CASE step = "store"
        BY <1>1, <3>1, <3>2 DEF ToldOK, RootTold, Repeating
      <3>3. CASE step = "tick" /\ answer = NoEvent
        BY <1>1, <3>1, <3>3 DEF ToldOK, RootTold, Told
      <3>4. CASE step = "tick" /\ answer # NoEvent
        BY <2>1, <2>4, <3>1, <3>4 DEF Storing, AtHand, Cmd
      <3> QED
        BY <2>1, <3>2, <3>3, <3>4 DEF Storing
    <2> QED
      BY <1>1, <2>3, <2>4
  <1>7. CASE \E e \in StateEvent : Saying(e)
    <2>1. PICK e \in StateEvent : Saying(e)
      BY <1>7
    <2>2. CASE AtHand(id) /\ v = root
      <3>1. e.id = id /\ e.value = v /\ events' = Append(events, e)
        BY <2>1, <2>2 DEF AtHand, Saying
      <3>2. TopicsOK
        BY DEF TypeInv
      <3>3. v \in States(id)'
        BY <3>1, <3>2, SaidMore
      <3> QED
        BY <3>3 DEF Told
    <2> QED
      BY <1>1, <1>2, <2>1, <2>2 DEF Saying
  <1>8. CASE Ending
    <2>1. memory' = [memory EXCEPT ![owner] = NothingRemembered] /\ NothingRemembered[id] = None
      BY <1>8 DEF Ending, HandlerForgets, NothingRemembered
    <2> QED
      BY <1>0, <1>1, <1>2, <2>1
  <1>9. CASE Move
    BY <1>1, <1>2, <1>9, HandNotAt DEF Move
  <1>10. CASE Expire
    <2>1. UNCHANGED <<process, owner, root, commands, step>>
      BY <1>10 DEF Expire, handlerVars
    <2>2. AtHand(id)' <=> AtHand(id)
      BY <2>1 DEF AtHand, Cmd, Gone, Opened
    <2>3. memory'[proc][id] = memory[proc][id] \/ memory'[proc][id] = None
      <3>1. memory' = memory \/ \E i \in Id, p \in Proc : memory' = [memory EXCEPT ![p][i] = None]
        BY <1>10 DEF Expire, CacheExpires, RedisExpires
      <3> QED
        BY <1>0, <3>1
    <2> QED
      BY <1>0, <1>1, <1>2, <2>1, <2>2, <2>3
  <1> QED
    BY <1>3, <1>4, <1>5, <1>6, <1>7, <1>8, <1>9, <1>10, MediaIs

\* What redis has that was not told of is published next, or never.
LEMMA RedisToldStep ==
    ASSUME TypeInv, OrderOK, StopOK, ToldOK, [Next]_vars
    PROVE  RedisTold'
  <1> SUFFICES ASSUME NEW id \in Id, NEW v \in Nat, redis'[id] = v
               PROVE  \/ Told(id, v)'
                      \/ /\ step' = "publish" /\ AtHand(id)' /\ v = root'
                         /\ (v - 1 \in States(id) /\ Repo \in Persisting)'
    BY DEF RedisTold
  <1>0. redis \in [Id -> Value] /\ None \notin Nat
    BY ConstantFacts DEF TypeInv, RepoOK
  <1>1. Told(id, v) => Told(id, v)'
    BY ToldStays
  <1>2. /\ setting' = setting /\ Happened \subseteq Happened' /\ States(id) \subseteq States(id)'
        /\ Ending => "crash" \in Happened'
        /\ process.phase = "stopping" => "crash" \in Happened
    BY HappenedIs, StatesStay
  <1>3. Repo' = Repo
    BY <1>2 DEF Repo
  <1>4. CASE redis[id] # v
    <2>1. PICK i \in Id, w \in Nat : Storing(i, w)
      <3>1. CASE Standing \/ LoadRoot \/ (\E e \in StateEvent : Saying(e)) \/ Ending \/ Move
                 \/ \E i \in Id, w \in Nat : Revising(i, w)
        BY <1>4, <3>1 DEF Standing, LoadRoot, Saying, Ending, HandlerForgets, Move, Revising
      <3>2. CASE Expire
        <4>1. redis' = redis \/ \E i \in Id : redis' = [redis EXCEPT ![i] = None]
          BY <3>2 DEF Expire, CacheExpires, RedisExpires, Persist
        <4> QED
          BY <1>0, <1>4, <4>1
      <3> QED
        BY <3>1, <3>2, MediaIs
    <2>2. redis' = redis \/ redis' = [redis EXCEPT ![i] = w]
      BY <2>1, StoresIs DEF Storing
    <2>3. i = id /\ w = v
      BY <1>0, <1>4, <2>2
    <2>4. Cmd.id = id /\ root = v /\ commands # <<>> /\ commands' = commands
      BY <2>1, <2>3 DEF Storing
    <2>5. CASE step = "store"
      BY <1>1, <2>4, <2>5 DEF ToldOK, RootTold, Repeating
    <2>6. CASE step = "tick" /\ v \in States(id)
      BY <1>1, <2>6 DEF Told
    <2>7. CASE step = "tick" /\ v \notin States(id)
      <3>1. v - 1 \in States(id) /\ answer # NoEvent
        BY <2>4, <2>7 DEF ToldOK, RootTold
      <3>2. step' = "publish" /\ v = root' /\ ParticipantStore(id, v)
        BY <2>1, <2>3, <2>4, <2>7, <3>1 DEF Storing
      <3>3. AtHand(id)'
        BY <2>4, <3>2 DEF AtHand, Cmd
      <3>4. Repo \in Persisting
        <4>1. Repo \in ParticipantRepo
          BY <3>2, StoresIs
        <4>2. redis' # redis
          BY <1>4
        <4>3. Repo \in Writing \union {"CachedRedisParticipantStateRepo"}
          BY <3>2, <4>2, StoresIs
        <4> QED
          BY <4>1, <4>3 DEF Persisting, Writing
      <3> QED
        BY <1>2, <1>3, <3>1, <3>2, <3>3, <3>4
    <2> QED
      BY <2>1, <2>5, <2>6, <2>7 DEF Storing
  <1>5. CASE redis[id] = v /\ Told(id, v)
    BY <1>1, <1>5
  <1>6. CASE redis[id] = v /\ ~Told(id, v)
    <2>1. /\ step = "publish" /\ AtHand(id) /\ v = root /\ v - 1 \in States(id)
          /\ Repo \in Persisting
      BY <1>6 DEF ToldOK, RedisTold
    <2>2. commands # <<>> /\ Cmd.id = id
      BY <2>1 DEF AtHand
    <2>3. "crash" \in Happened' => Told(id, v)'
      BY <1>0, <1>2, <1>3, <2>1 DEF Told, Ahead
    <2>4. ASSUME UNCHANGED <<step, root>>, AtHand(id) => AtHand(id)'
          PROVE  /\ step' = "publish" /\ AtHand(id)' /\ v = root'
                 /\ (v - 1 \in States(id) /\ Repo \in Persisting)'
      BY <1>2, <1>3, <2>1, <2>4
    <2>5. CASE (Aside /\ Elsewhere) \/ Request \/ Expire
      <3>1. UNCHANGED <<step, root>>
        BY <2>5, RequestIs DEF Aside, Expire, handlerVars
      <3>2. AtHand(id)'
        <4>1. CASE Aside /\ Elsewhere
          BY <2>1, <2>2, <3>1, <4>1, AsideIs DEF AtHand
        <4>2. CASE Request
          BY <2>1, <2>2, <3>1, <4>2, RequestIs DEF AtHand
        <4>3. CASE Expire
          BY <2>1, <2>2, <3>1, <4>3 DEF AtHand, Expire, handlerVars, Cmd
        <4> QED
          BY <2>5, <4>1, <4>2, <4>3
      <3> QED
        BY <2>4, <3>1, <3>2
    <2>6. CASE Ending
      BY <1>2, <2>3, <2>6
    <2>7. CASE PublishRefused
      <3>1. process.phase = "stopping"
        BY <2>1, <2>7 DEF PublishRefused, OrderOK, Opened
      <3> QED
        BY <1>2, <2>3, <3>1
    <2>8. CASE PublishAnswer
      <3>1. CASE IsSnapshot(answer)
        BY <1>6, <2>1, <2>2, <3>1 DEF ToldOK, RootTold, Repeating
      <3>2. CASE ~IsSnapshot(answer)
        <4>1. PICK e : e = answer
          OBVIOUS
        <4>2. e \in StateEvent /\ events' = Append(events, e) /\ e.id = id /\ e.value = v /\ TopicsOK
          BY <2>1, <2>2, <2>8, <3>2, <4>1, PublishAnswerIs
             DEF TypeInv, HandlerOK, Decided, IsSnapshot
        <4>3. v \in States(id)'
          BY <4>2, SaidMore
        <4> QED
          BY <4>3 DEF Told
      <3> QED
        BY <3>1, <3>2
    <2>9. ~Move /\ (Handle => PublishAnswer \/ PublishRefused)
      BY <2>1, HandleIs, CreateParticipantIs, PrepareTransferIs, ChangingIs
         DEF Move, LoadRoot, Recover, At, NextTick, StoreRoot, Commit
    <2> QED
      BY <2>5, <2>6, <2>7, <2>8, <2>9, StepIs
  <1> QED
    BY <1>4, <1>5, <1>6

LEMMA SnapshotsGrow ==
    ASSUME TypeInv, [Next]_vars
    PROVE  \/ snapshots' = snapshots
           \/ /\ step = "publish" /\ Decided(answer) /\ Cmd.id \in Id /\ IsSnapshot(answer)
              /\ answer \in SnapshotEvent /\ snapshots' = Append(snapshots, answer)
  <1>1. CASE PublishAnswer
    <2>1. step = "publish"
      BY <1>1 DEF PublishAnswer
    <2> QED
      BY <1>1, <2>1, PublishAnswerIs DEF TypeInv, HandlerOK, IsSnapshot
  <1>2. CASE Aside \/ Ending \/ Request \/ Move \/ Expire
    BY <1>2, RequestIs DEF Aside, Ending, HandlerForgets, Move, Expire, handlerVars
  <1>3. CASE Handle /\ ~PublishAnswer
    <2>1. CASE LoadRoot \/ Recover \/ NextTick \/ PublishRefused \/ StoreRoot \/ Commit
      BY <2>1 DEF LoadRoot, Recover, Recovered, NextTick, PublishRefused, StoreRoot, Commit
    <2>2. CASE CreateParticipant \/ PrepareTransfer \/ Changing
      BY <2>2, CreateParticipantIs, PrepareTransferIs, ChangingIs
    <2> QED
      BY <1>3, <2>1, <2>2, HandleIs
  <1> QED
    BY <1>1, <1>2, <1>3, StepIs

LEMMA SnapshotsToldStep ==
    ASSUME TypeInv, OrderOK, StopOK, ToldOK, [Next]_vars
    PROVE  SnapshotsTold'
  <1> SUFFICES ASSUME NEW id \in Id, NEW v \in Nat, NEW k \in 1..Len(snapshots'),
                      snapshots'[k].id = id, snapshots'[k].value = v
               PROVE  Told(id, v)'
    BY DEF SnapshotsTold
  <1>1. Told(id, v) => Told(id, v)'
    BY ToldStays
  <1>2. CASE snapshots' = snapshots
    BY <1>1, <1>2 DEF ToldOK, SnapshotsTold
  <1>3. CASE /\ step = "publish" /\ Decided(answer) /\ Cmd.id \in Id /\ IsSnapshot(answer)
             /\ answer \in SnapshotEvent /\ snapshots' = Append(snapshots, answer)
    <2>1. snapshots \in Seq(SnapshotEvent) /\ Len(snapshots) \in Nat
      BY DEF TypeInv, TopicsOK
    <2>2. /\ Len(snapshots') = Len(snapshots) + 1
          /\ \A j \in 1..Len(snapshots) : snapshots'[j] = snapshots[j]
          /\ snapshots'[Len(snapshots) + 1] = answer
      BY <1>3, <2>1, AppendProperties
    <2>3. CASE k \in 1..Len(snapshots)
      BY <1>1, <2>2, <2>3 DEF ToldOK, SnapshotsTold
    <2>4. CASE k = Len(snapshots) + 1
      <3>1. Cmd.id = id /\ root = v /\ Repeating
        BY <1>3, <2>2, <2>4 DEF Decided, Repeating
      <3> QED
        BY <1>1, <3>1 DEF ToldOK, RootTold
    <2> QED
      BY <2>1, <2>2, <2>3, <2>4
  <1> QED
    BY <1>2, <1>3, SnapshotsGrow

--------------------------------------------------------------------------------
(* What a recovery finds *)

LEMMA FetchedFrom ==
    ASSUME NEW S, NEW topic \in Seq(S), NEW id,
           NEW f \in FetchAll(topic, id) \union FetchCut(topic, id)
    PROVE  /\ f \in Seq(S)
           /\ f # <<>> => /\ \E k \in 1..Len(topic) : topic[k].id = id /\ f[1] = topic[k]
                          /\ f[Len(f)] \in Range(Of(topic, id))
  <1>1. PICK all, n : all = Of(topic, id) /\ n = Len(topic)
    OBVIOUS
  <1>2. SubSeq(topic, 1, n) = topic /\ n \in 0..Len(topic)
    BY <1>1
  <1>3. Range(all) = {topic[k] : k \in {j \in 1..n : topic[j].id = id}}
    <2>1. OfIs(topic, id, n, Of(SubSeq(topic, 1, n), id))
      BY <1>2, UpToIs
    <2> QED
      BY <1>1, <1>2, <2>1 DEF OfIs
  <1>4. all \in Seq(S)
    <2>1. PICK T : T = {m \in S : m.id = id}
      OBVIOUS
    <2>2. all \in Seq(T) /\ T \subseteq S
      BY <1>1, <2>1, OfMembers
    <2> QED
      BY <2>2
  <1>5. f = all \/ \E m \in 0..Len(all) : f = SubSeq(all, 1, m)
    BY <1>1 DEF FetchAll, FetchCut
  <1>6. f \in Seq(S) /\ (f # <<>> => Len(f) \in 1..Len(all) /\ 1 \in 1..Len(all)
                                     /\ f[1] = all[1] /\ f[Len(f)] = all[Len(f)])
    <2>1. Len(all) \in Nat
      BY <1>4
    <2>2. CASE f = all
      BY <1>4, <2>1, <2>2
    <2>3. CASE f # all
      <3>1. PICK m \in 0..Len(all) : f = SubSeq(all, 1, m)
        BY <1>5, <2>3
      <3>2. \A k \in 1..m : all[k] \in S
        BY <1>4, <2>1
      <3>3. f \in Seq(S) /\ Len(f) = m /\ \A k \in 1..m : f[k] = all[k]
        BY <1>4, <2>1, <3>1, <3>2
      <3>4. f # <<>> => m # 0
        BY <3>3
      <3> QED
        BY <2>1, <3>3, <3>4
    <2> QED
      BY <2>2, <2>3
  <1>7. ASSUME f # <<>> PROVE f[1] \in Range(all) /\ f[Len(f)] \in Range(all)
    <2>1. DOMAIN all = 1..Len(all)
      BY <1>4
    <2> QED
      BY <1>6, <1>7, <2>1 DEF Range
  <1> QED
    BY <1>1, <1>3, <1>6, <1>7

\* The last state an event told of, unless the fetch ended early; then one before it, or
\* that of a snapshot.
LEMMA RecoversIs ==
    ASSUME TypeInv, FollowOK, Recover, NEW id \in Id, Cmd.id = id
    PROVE  /\ root' = None \/ root' \in States(id)
              \/ \E k \in 1..Len(snapshots) : snapshots[k].id = id /\ snapshots[k].value = root'
           /\ root' = LastState(id) \/ Fails("fetch")
  <1>1. PICK s \in FetchAll(snapshots, id) \union FetchCut(snapshots, id),
             e \in FetchAll(events, id) \union FetchCut(events, id) :
               /\ root' = Replay(FetchLast(s), e)
               /\ Fails("fetch") \/ (s \in FetchAll(snapshots, id) /\ e \in FetchAll(events, id))
    BY Zenon DEF Recover, Recovered
  <1>2. PICK T, one, v : /\ T = StateEvent \union SnapshotEvent /\ one = FetchLast(s) /\ v = root'
    OBVIOUS
  <1>3. events \in Seq(StateEvent) /\ snapshots \in Seq(SnapshotEvent) /\ TopicsOK
    BY DEF TypeInv, TopicsOK
  <1>4. /\ e \in Seq(StateEvent)
        /\ e # <<>> => e[Len(e)] \in Range(Of(events, id))
    BY <1>3, FetchedFrom
  <1>5. /\ s \in Seq(SnapshotEvent)
        /\ s # <<>> => \E k \in 1..Len(snapshots) : snapshots[k].id = id /\ s[1] = snapshots[k]
    BY <1>3, FetchedFrom
  <1>6. /\ one \in Seq(SnapshotEvent)
        /\ s = <<>> => one = <<>>
        /\ s # <<>> => one # <<>> /\ one[Len(one)] = s[1]
    <2>1. Len(s) \in Nat /\ (s = <<>> <=> Len(s) = 0)
      BY <1>5
    <2>2. ASSUME s = <<>> PROVE one = <<>>
      <3>1. one = SubSeq(s, 1, 0)
        BY <1>2, <2>2 DEF FetchLast
      <3> QED
        BY <3>1, <2>2
    <2>3. ASSUME s # <<>>
          PROVE  one \in Seq(SnapshotEvent) /\ Len(one) = 1 /\ one[1] = s[1]
      <3>1. one = SubSeq(s, 1, 1) /\ 1 \in 1..Len(s) /\ s[1] \in SnapshotEvent
        BY <1>2, <1>5, <2>1, <2>3 DEF FetchLast
      <3> QED
        BY <1>5, <3>1
    <2>4. <<>> \in Seq(SnapshotEvent)
      OBVIOUS
    <2>5. CASE s = <<>>
      BY <2>2, <2>4, <2>5
    <2>6. CASE s # <<>>
      <3>1. one \in Seq(SnapshotEvent) /\ Len(one) = 1 /\ one[1] = s[1]
        BY <2>3, <2>6
      <3>2. one # <<>>
        BY <3>1
      <3>3. one[Len(one)] = s[1]
        BY <3>1
      <3> QED
        BY <2>6, <3>1, <3>2, <3>3
    <2> QED
      BY <2>5, <2>6
  <1>7. one \in Seq(T) /\ e \in Seq(T)
    BY <1>2, <1>4, <1>6
  <1>8. v = IF e # <<>> THEN e[Len(e)].value
            ELSE IF one # <<>> THEN one[Len(one)].value ELSE None
    BY <1>1, <1>2, <1>7, ReplayIs
  <1>9. v = None \/ v \in States(id)
        \/ \E k \in 1..Len(snapshots) : snapshots[k].id = id /\ snapshots[k].value = v
    <2>1. CASE e # <<>>
      BY <1>4, <1>8, <2>1 DEF States
    <2>2. CASE e = <<>> /\ one # <<>>
      BY <1>5, <1>6, <1>8, <2>2
    <2> QED
      BY <1>8, <2>1, <2>2
  <1>10. ASSUME s \in FetchAll(snapshots, id), e \in FetchAll(events, id) PROVE v = LastState(id)
    <2>1. e = Of(events, id)
      BY <1>10 DEF FetchAll
    <2>2. CASE e # <<>>
      BY <1>8, <2>1, <2>2 DEF LastState, Last
    <2>3. CASE e = <<>>
      <3>1. LastState(id) = None
        BY <2>1, <2>3 DEF LastState
      <3>2. \A k \in 1..Len(events) : events[k].id # id
        BY <1>3, <2>1, <2>3, OfMembers
      <3>3. ~HeardOf(id)
        BY <3>2, CreatedIs, <1>3 DEF FollowOK, HeardOfOK
      <3>4. s = <<>>
        BY <1>5, <3>3 DEF HeardOf
      <3> QED
        BY <1>6, <1>8, <2>3, <3>1, <3>4
    <2> QED
      BY <2>2, <2>3
  <1> QED
    BY <1>1, <1>2, <1>9, <1>10

--------------------------------------------------------------------------------
(* Where a step leaves the handler *)

\* What was recovered is to be stored though the command is refused; or the aggregate
\* changes, or repeats itself for a snapshot.
Keeping  == /\ step = "handle" /\ step' = "tick" /\ answer # NoEvent
            /\ root' = root /\ answer' = NoEvent
Counting == /\ step = "handle" /\ root \in Nat /\ step' \in {"tick", "publish"}
            /\ step' = "tick" => answer # NoEvent
            /\ answer' # NoEvent
            /\ root' = IF IsSnapshot(answer') THEN root ELSE root + 1

LEMMA RulesIs ==
    ASSUME TypeInv, CreateParticipant \/ PrepareTransfer \/ Changing
    PROVE  /\ commands # <<>> /\ commands' = commands
           /\ \/ step' = "commit"
              \/ step' = "publish" /\ ~IsSnapshot(answer')
              \/ Keeping \/ Counting
  <1>1. /\ step \in {"load", "handle"} /\ commands # <<>> /\ commands' = commands
        /\ root \in Value
    BY CreateParticipantIs, PrepareTransferIs, ChangingIs DEF TypeInv, RepoOK
  <1>2. answer.name = "recovered" => step = "handle" /\ answer # NoEvent /\ root # None
    BY <1>1 DEF TypeInv, HandOK, NoEvent, Event
  <1>3. CASE Refused
    BY <1>1, <1>2, <1>3 DEF Refused, Keeping
  <1>4. CASE CreateParticipant /\ ~Refused
    <2>1. root = None /\ Answers(Event("ParticipantCreatedStateEvt", Cmd.id, 0))
      BY <1>4, CreateParticipantIs
    <2> QED
      BY <1>1, <1>2, <2>1 DEF Answers, IsSnapshot, Event
  <1>5. CASE PrepareTransfer /\ ~Refused
    <2>1. step = "load" /\ Answers(Event("TransferPreparedStateEvt", Cmd.id, RECEIVED_PREPARE))
      BY <1>5, PrepareTransferIs
    <2> QED
      BY <1>1, <1>2, <2>1 DEF Answers, IsSnapshot, Event
  <1>6. CASE Changing /\ ~Refused
    <2>1. PICK evt : /\ step = "handle" /\ root # None /\ Answers(evt) /\ Advances(evt)
                     /\ root' = evt.value
      BY <1>6, ChangingIs
    <2>2. root \in Nat /\ evt.value \in Nat
      BY <1>1, <2>1 DEF Value, Advances
    <2>3. evt # NoEvent
      BY <2>2, ConstantFacts DEF NoEvent, Event
    <2>4. answer' = evt /\ step' \in {"tick", "publish"} /\ (step' = "tick" => answer # NoEvent)
      BY <1>2, <2>1 DEF Answers
    <2>5. root' = IF IsSnapshot(answer') THEN root ELSE root + 1
      BY <2>1, <2>4 DEF Advances, IsSnapshot
    <2>6. Counting
      BY <2>1, <2>2, <2>3, <2>4, <2>5 DEF Counting
    <2> QED
      BY <1>1, <2>6
  <1> QED
    BY <1>1, <1>3, <1>4, <1>5, <1>6

LEMMA HandMoves ==
    ASSUME TypeInv, [Next]_vars, step' \notin {"load", "commit"}
    PROVE  /\ commands # <<>> /\ commands' # <<>> /\ Cmd' = Cmd
           /\ \/ UNCHANGED <<step, root, answer, events>>
              \/ LoadRoot \/ Recover
              \/ step' = "publish" /\ ~IsSnapshot(answer')
              \/ Keeping /\ events' = events
              \/ Counting /\ events' = events
              \/ /\ step = "tick" /\ step' = "publish" /\ answer # NoEvent
                 /\ UNCHANGED <<root, answer, events>>
              \/ PublishAnswer
  <1>0. commands = <<>> => step = "load"
    BY DEF TypeInv, HandOK
  <1>1. CASE Aside
    BY <1>0, <1>1, AsideIs DEF Aside
  <1>2. CASE Request
    BY <1>0, <1>2, RequestIs
  <1>3. CASE Move \/ Expire
    <2>1. UNCHANGED <<step, root, answer, events, commands>>
      BY <1>3 DEF Move, Expire, handlerVars
    <2> QED
      BY <1>0, <2>1 DEF Cmd
  <1>4. CASE Ending
    BY <1>4 DEF Ending, HandlerForgets, Fresh
  <1>5. CASE LoadRoot \/ Recover \/ PublishAnswer
    <2>1. commands # <<>> /\ commands' = commands
      BY <1>5 DEF LoadRoot, Recover, Recovered, At, PublishAnswer
    <2> QED
      BY <1>5, <2>1 DEF Cmd
  <1>6. CASE NextTick
    BY <1>6 DEF NextTick, Cmd
  <1>7. CASE PublishRefused \/ StoreRoot \/ Commit
    BY <1>7 DEF PublishRefused, StoreRoot, Commit, Fresh
  <1>8. CASE CreateParticipant \/ PrepareTransfer \/ Changing
    <2>1. events' = events
      BY <1>8, CreateParticipantIs, PrepareTransferIs, ChangingIs
    <2> QED
      BY <1>8, <2>1, RulesIs DEF Cmd
  <1> QED
    BY <1>1, <1>2, <1>3, <1>4, <1>5, <1>6, <1>7, <1>8, StepIs, HandleIs

\* What the handler finds is what it or redis was told of; what it does not find, redis has
\* not.
LEMMA LoadsTold ==
    ASSUME TypeInv, ToldOK, LoadRoot, NEW id \in Id, Cmd.id = id
    PROVE  /\ root' \in Nat => Told(id, root')
           /\ root' = None /\ Repo \in Persisting => redis[id] = None
  <1>1. step = "load" /\ Load(id)
    BY DEF LoadRoot, At
  <1>2. owner \in Proc /\ ~AtHand(id)
    BY <1>1, HandNotAt DEF TypeInv, RepoOK
  <1>3. PICK v : v = root'
    OBVIOUS
  <1>4. \/ Repo \in Remembering /\ v = memory[owner][id] /\ (Repo \in Layered => v # None)
        \/ v = redis[id]
    BY <1>1, <1>3, FindsIs
  <1>5. ASSUME v \in Nat PROVE Told(id, v)
    BY <1>1, <1>2, <1>4, <1>5 DEF ToldOK, MemoryTold, RedisTold
  <1>6. Repo \in Persisting /\ Repo \in Remembering => Repo \in Layered
    BY DEF Persisting, ParticipantRepo, Remembering, Layered
  <1> QED
    BY <1>3, <1>4, <1>5, <1>6

LEMMA RootToldStep ==
    ASSUME TypeInv, OrderOK, StopOK, FollowOK, ToldOK, [Next]_vars
    PROVE  RootTold'
  <1> SUFFICES ASSUME NEW id \in Id, NEW v \in Nat, Cmd'.id = id, root' = v
               PROVE  /\ step' = "handle" =>
                            Told(id, v)' /\ (answer' # NoEvent => v \in States(id)')
                      /\ step' = "tick" => /\ v \in States(id)' \/ v - 1 \in States(id)'
                                           /\ answer' = NoEvent => v \in States(id)'
                      /\ Repeating' => Told(id, v)'
    BY DEF RootTold
  <1>1. SUFFICES ASSUME step' \notin {"load", "commit"}
                 PROVE  /\ step' = "handle" =>
                              Told(id, v)' /\ (answer' # NoEvent => v \in States(id)')
                        /\ step' = "tick" => /\ v \in States(id)' \/ v - 1 \in States(id)'
                                             /\ answer' = NoEvent => v \in States(id)'
                        /\ Repeating' => Told(id, v)'
    BY DEF Repeating
  <1>2. Cmd' = Cmd /\ Cmd.id = id /\ commands # <<>>
    BY <1>1, HandMoves
  <1>3. States(id) \subseteq States(id)' /\ (Told(id, v) => Told(id, v)')
    BY ToldStays, StatesStay
  <1>4. root = v =>
          /\ step = "handle" => Told(id, v) /\ (answer # NoEvent => v \in States(id))
          /\ step = "tick" => /\ v \in States(id) \/ v - 1 \in States(id)
                              /\ answer = NoEvent => v \in States(id)
          /\ Repeating => Told(id, v)
    BY <1>2 DEF ToldOK, RootTold
  <1>5. Told(id, v) => Told(id, v)'
    BY <1>3
  <1>6. CASE UNCHANGED <<step, root, answer, events>>
    BY <1>3, <1>4, <1>6 DEF Repeating, IsSnapshot
  <1>7. CASE LoadRoot
    <2>1. Told(id, v) /\ step' \in {"handle", "recover"} /\ answer' = NoEvent
      BY <1>2, <1>7, LoadsTold DEF LoadRoot, At, TypeInv, HandOK
    <2> QED
      BY <1>3, <2>1 DEF Repeating
  <1>8. CASE Recover
    <2>1. step = "recover" /\ step' = "handle"
      BY <1>8 DEF Recover, Recovered, At
    <2>2. Told(id, v)
      <3>1. v # None
        BY ConstantFacts
      <3> QED
        BY <1>2, <1>8, <3>1, RecoversIs DEF ToldOK, SnapshotsTold, Told
    <2>3. v \in States(id)
      BY <1>2, <2>1, <2>2 DEF ToldOK, UnkeptOK, Told, Ahead
    <2> QED
      BY <1>3, <2>1, <2>2, <2>3 DEF Repeating
  <1>9. CASE step' = "publish" /\ ~IsSnapshot(answer')
    BY <1>9 DEF Repeating, IsSnapshot
  <1>10. CASE Keeping
    BY <1>3, <1>4, <1>10 DEF Keeping, Repeating
  <1>11. CASE Counting
    <2>1. root \in Nat /\ step = "handle" /\ answer' # NoEvent /\ step' \in {"tick", "publish"}
          /\ (step' = "tick" => answer # NoEvent)
      BY <1>11 DEF Counting
    <2>2. step' = "tick" => root \in States(id)
      BY <1>2, <2>1 DEF ToldOK, RootTold
    <2>3. CASE IsSnapshot(answer')
      <3>1. root = v
        BY <1>11, <2>3 DEF Counting
      <3> QED
        BY <1>3, <1>4, <2>1, <2>2, <3>1
    <2>4. CASE ~IsSnapshot(answer')
      <3>1. v - 1 = root
        BY <1>11, <2>1, <2>4 DEF Counting
      <3>2. ~Repeating'
        BY <2>1, <2>4 DEF Repeating, IsSnapshot
      <3> QED
        BY <1>3, <2>1, <2>2, <3>1, <3>2
    <2> QED
      BY <2>3, <2>4
  <1>12. CASE /\ step = "tick" /\ step' = "publish" /\ answer # NoEvent
              /\ UNCHANGED <<root, answer, events>>
    BY <1>3, <1>4, <1>12 DEF Repeating, IsSnapshot
  <1>13. CASE PublishAnswer
    <2>1. step = "publish" /\ step' = "store" /\ root' = root
      BY <1>13 DEF PublishAnswer, repoVars
    <2>2. CASE IsSnapshot(answer)
      BY <1>3, <1>4, <2>1, <2>2 DEF Repeating
    <2>3. CASE ~IsSnapshot(answer)
      <3>1. PICK e : e = answer
        OBVIOUS
      <3>2. /\ e \in StateEvent /\ events' = Append(events, e) /\ e.id = id /\ e.value = v
            /\ TopicsOK
        BY <1>2, <1>13, <2>1, <2>3, <3>1, PublishAnswerIs
           DEF TypeInv, HandlerOK, Decided, IsSnapshot
      <3>3. v \in States(id)'
        BY <3>2, SaidMore
      <3> QED
        BY <2>1, <3>3 DEF Told
    <2> QED
      BY <2>2, <2>3
  <1> QED
    BY <1>1, <1>6, <1>7, <1>8, <1>9, <1>10, <1>11, <1>12, <1>13, HandMoves

LEMMA UnkeptStep ==
    ASSUME TypeInv, OrderOK, ToldOK, [Next]_vars
    PROVE  UnkeptOK'
  <1>1. setting' = setting
    BY AlwaysIs
  <1> SUFFICES ASSUME NEW id \in Id, step' = "recover", Cmd'.id = id, Repo \in Persisting
               PROVE  redis'[id] = None
    BY <1>1 DEF UnkeptOK, Repo
  <1>2. Cmd' = Cmd /\ Cmd.id = id
    BY HandMoves
  <1>3. CASE UNCHANGED <<step, root, answer, events>>
    <2>1. redis[id] = None /\ step = "recover"
      BY <1>2, <1>3 DEF ToldOK, UnkeptOK
    <2>2. redis'[id] = redis[id] \/ \E v \in Nat : Storing(id, v)
      BY RedisStays
    <2> QED
      BY <2>1, <2>2 DEF Storing
  <1>4. CASE LoadRoot
    <2>1. root' = None /\ redis' = redis
      BY <1>4 DEF LoadRoot
    <2> QED
      BY <1>2, <1>4, <2>1, LoadsTold
  <1>5. CASE Recover \/ PublishAnswer
    BY <1>5 DEF Recover, Recovered, PublishAnswer
  <1>6. CASE Keeping \/ Counting
    BY <1>6 DEF Keeping, Counting
  <1> QED
    BY <1>3, <1>4, <1>5, <1>6, HandMoves

LEMMA ToldStep ==
    ASSUME TypeInv, OrderOK, StopOK, FollowOK, ToldOK, [Next]_vars
    PROVE  ToldOK'
  BY MemoryToldStep, RedisToldStep, SnapshotsToldStep, RootToldStep, UnkeptStep DEF ToldOK

LEMMA ToldInit == Init => OwnOK /\ ToldOK
  <1> SUFFICES ASSUME Init PROVE OwnOK /\ ToldOK
    OBVIOUS
  <1>1. None \notin Nat
    BY ConstantFacts
  <1>2. /\ \A id \in Id : redis[id] = None
        /\ \A proc \in Proc, id \in Id : memory[proc][id] = None
        /\ root = None
    BY DEF Init, RepoInit, NothingRemembered
  <1>3. step = "load" /\ commands = <<>> /\ snapshots = <<>>
    BY DEF Init, HandlerInit
  <1>4. ~up
    BY DEF Init, OperatorInit
  <1> QED
    BY <1>1, <1>2, <1>3, <1>4
       DEF OwnOK, UpOK, HandledOK, ToldOK, MemoryTold, RedisTold, SnapshotsTold, RootTold, UnkeptOK

--------------------------------------------------------------------------------
(* Unless something happened that the repository does not survive, what is kept is the *)
(* last state                                                                          *)

MemoryLast == Repo \in Remembering =>
    \A id \in Id : memory[owner][id] \in {None, LastState(id)} \/ AtHand(id)
RedisLast  == Repo \in Writing =>
    \A id \in Id : redis[id] \in {None, LastState(id)} \/ AtHand(id)
\* Redis is behind where only what the process does not remember is written.
BothHave   == Repo = "CachedRedisParticipantStateRepo" =>
    \A id \in Id : redis[id] # None => memory[owner][id] # None
RootLast   == \A id \in Id : Cmd.id = id =>
    /\ step = "handle" => root \in {None, LastState(id)}
    /\ Repeating \/ (step = "tick" /\ answer = NoEvent) => root = LastState(id)
LastOK == MemoryLast /\ RedisLast /\ BothHave /\ RootLast

\* Redis gets no transfer where it is only read.
NeverInRedis ==
    Repo = "CachedRedisTransferStateRepo" => \A id \in Id : redis[id] = None

LEMMA UnharmedIs ==
    ASSUME TypeInv, StopOK, [Next]_vars, NEW K, Happened' \intersect K = {}
    PROVE  /\ Happened \intersect K = {}
           /\ \A kind \in K : ~Fails(kind)
           /\ "crash" \in K => ~Ending /\ process.phase # "stopping"
  BY HappenedIs

\* A redis that is open gets what is stored, or fails.
LEMMA RedisGets ==
    ASSUME OrderOK, NEW id, NEW v, RedisSet(id, v), step # "load",
           process.phase # "stopping", ~Fails("store")
    PROVE  redis' = [redis EXCEPT ![id] = v]
  BY DEF RedisSet, Persist, OrderOK

LEMMA NeverInRedisStep ==
    ASSUME TypeInv, OrderOK, NeverInRedis, [Next]_vars
    PROVE  NeverInRedis'
  <1>1. Repo' = Repo
    BY AlwaysIs DEF Repo
  <1> SUFFICES ASSUME Repo = "CachedRedisTransferStateRepo" PROVE redis' = redis
    BY <1>1 DEF NeverInRedis
  <1>2. CASE Standing \/ LoadRoot \/ (\E e \in StateEvent : Saying(e)) \/ Ending \/ Move
             \/ \E id \in Id, v \in Nat : Revising(id, v)
    BY <1>2 DEF Standing, LoadRoot, Saying, Ending, HandlerForgets, Move, Revising
  <1>3. CASE \E id \in Id, v \in Nat : Storing(id, v)
    <2>1. PICK id \in Id, v \in Nat : Storing(id, v)
      BY <1>3
    <2> QED
      BY <2>1, StoresIs DEF Storing, Writing
  <1>4. CASE Expire
    BY <1>4 DEF Expire, CacheExpires, RedisExpires
  <1> QED
    BY <1>2, <1>3, <1>4, MediaIs

\* What a process finds is what it remembers, or what redis has.
LEMMA LoadsLatest ==
    ASSUME TypeInv, NeverInRedis, LastOK, LoadRoot, NEW id \in Id, Cmd.id = id
    PROVE  /\ root' \in {None, LastState(id)}
           /\ Repo \in Layered /\ memory[owner][id] = None => redis[id] \in {None, LastState(id)}
  <1>1. step = "load" /\ Load(id)
    BY DEF LoadRoot, At
  <1>2. ~AtHand(id)
    BY <1>1, HandNotAt
  <1>3. Repo \in Remembering => memory[owner][id] \in {None, LastState(id)}
    BY <1>2 DEF LastOK, MemoryLast
  <1>4. Repo \in Writing => redis[id] \in {None, LastState(id)}
    BY <1>2 DEF LastOK, RedisLast
  <1>5. Repo \in Layered /\ memory[owner][id] = None => redis[id] \in {None, LastState(id)}
    BY <1>4 DEF LastOK, BothHave, NeverInRedis, Layered, Writing
  <1>6. \/ Repo \in Remembering /\ root' = memory[owner][id]
        \/ Repo \in Layered /\ memory[owner][id] = None /\ root' = redis[id]
        \/ Repo \in {"RedisParticipantStateRepo", "RedisTransferStateRepo"} /\ root' = redis[id]
    BY <1>1, FindsIs
  <1> QED
    BY <1>3, <1>4, <1>5, <1>6 DEF Writing

\* Who stores and goes on to commit has the last state at hand.
LEMMA StoresLatest ==
    ASSUME TypeInv, LastOK, NEW id \in Id, NEW v \in Nat, Storing(id, v)
    PROVE  /\ v = LastState(id) \/ AtHand(id)'
           /\ \A i : AtHand(i) => i = id
           /\ events' = events /\ owner' = owner
  <1>1. /\ root = v /\ Cmd.id = id /\ UNCHANGED <<owner, events, commands>> /\ commands # <<>>
        /\ \/ step = "store"
           \/ step = "tick" /\ step' = IF answer = NoEvent THEN "commit" ELSE "publish"
    BY DEF Storing
  <1>2. ASSUME step = "store" \/ (step = "tick" /\ answer = NoEvent) PROVE v = LastState(id)
    BY <1>1, <1>2 DEF LastOK, RootLast, Repeating
  <1>3. ASSUME step = "tick", answer # NoEvent PROVE AtHand(id)'
    BY <1>1, <1>3 DEF AtHand, Cmd
  <1>4. \A i : AtHand(i) => i = id
    BY <1>1 DEF AtHand
  <1> QED
    BY <1>1, <1>2, <1>3, <1>4

LEMMA SaysLatest ==
    ASSUME TypeInv, NEW e \in StateEvent, Saying(e), NEW id
    PROVE  AtHand(id)' \/ (LastState(id)' = LastState(id) /\ ~AtHand(id))
  <1>1. AtHand(e.id) /\ AtHand(e.id)' /\ events' = Append(events, e) /\ TopicsOK
    BY DEF Saying, TypeInv
  <1>2. CASE e.id = id
    BY <1>1, <1>2
  <1>3. CASE e.id # id
    <2>1. LastState(id)' = LastState(id)
      BY <1>1, <1>3, SaidMore
    <2>2. ~AtHand(id)
      BY <1>1, <1>3 DEF AtHand
    <2> QED
      BY <2>1, <2>2
  <1> QED
    BY <1>2, <1>3

LEMMA MemoryLastStep ==
    ASSUME TypeInv, OrderOK, StopOK, NeverInRedis, LastOK, [Next]_vars,
           Happened' \intersect StaleAfter = {}
    PROVE  MemoryLast'
  <1>0. Repo' = Repo
    BY AlwaysIs DEF Repo
  <1> SUFFICES ASSUME Repo \in Remembering, NEW id \in Id
               PROVE  memory'[owner'][id] \in {None, LastState(id)'} \/ AtHand(id)'
    BY <1>0 DEF MemoryLast
  <1>1. memory \in [Proc -> [Id -> Value]] /\ owner \in Proc
    BY DEF TypeInv, RepoOK
  <1>2. memory[owner][id] \in {None, LastState(id)} \/ AtHand(id)
    BY DEF LastOK, MemoryLast
  <1>3. CASE Standing
    BY <1>2, <1>3, SaidStill DEF Standing
  <1>4. CASE LoadRoot
    <2>1. /\ UNCHANGED <<events, owner>> /\ ~AtHand(id)
          /\ memory' = memory \/ (Cmd.id \in Id /\ Load(Cmd.id))
      BY <1>4, HandNotAt DEF LoadRoot, At
    <2>2. LastState(id)' = LastState(id)
      BY <2>1, SaidStill
    <2>3. CASE memory' = memory
      BY <1>2, <2>1, <2>2, <2>3
    <2>4. CASE memory' # memory
      <3>1. PICK i \in Id : i = Cmd.id
        BY <2>1, <2>4
      <3>2. /\ Repo \in Layered /\ memory[owner][i] = None
            /\ memory' = [memory EXCEPT ![owner][i] = redis[i]]
        BY <2>1, <2>4, <3>1, FindsIs
      <3>3. redis[i] \in {None, LastState(i)}
        BY <1>4, <3>1, <3>2, LoadsLatest
      <3>4. memory'[owner][id] = IF i = id THEN redis[i] ELSE memory[owner][id]
        BY <1>1, <3>2
      <3> QED
        BY <1>2, <2>1, <2>2, <3>3, <3>4
    <2> QED
      BY <2>3, <2>4
  <1>5. CASE \E i \in Id, w \in Nat : Revising(i, w)
    <2>1. PICK i \in Id, w \in Nat : Revising(i, w)
      BY <1>5
    <2>2. ~AtHand(id) /\ LastState(id)' = LastState(id) /\ owner' = owner /\ AtHand(i)'
      BY <2>1, HandNotAt, SaidStill DEF Revising
    <2>3. CASE i = id
      BY <2>2, <2>3
    <2>4. CASE i # id
      <3>1. memory'[owner][id] = memory[owner][id]
        BY <1>1, <2>1, <2>4 DEF Revising
      <3> QED
        BY <1>2, <2>2, <3>1
    <2> QED
      BY <2>3, <2>4
  <1>6. CASE \E i \in Id, w \in Nat : Storing(i, w)
    <2>1. PICK i \in Id, w \in Nat : Storing(i, w)
      BY <1>6
    <2>2. /\ w = LastState(i) \/ AtHand(i)'
          /\ \A j : AtHand(j) => j = i
          /\ events' = events /\ owner' = owner
      BY <2>1, StoresLatest
    <2>3. LastState(id)' = LastState(id)
      BY <2>2, SaidStill
    <2>4. memory' = [memory EXCEPT ![owner][i] = w]
      BY <2>1, StoresIs DEF Storing
    <2>5. memory'[owner][id] = IF i = id THEN w ELSE memory[owner][id]
      BY <1>1, <2>4
    <2>6. CASE i = id
      BY <2>2, <2>3, <2>5, <2>6
    <2>7. CASE i # id
      BY <1>2, <2>2, <2>3, <2>5, <2>7
    <2> QED
      BY <2>6, <2>7
  <1>7. CASE \E e \in StateEvent : Saying(e)
    <2>1. PICK e \in StateEvent : Saying(e)
      BY <1>7
    <2>2. memory' = memory /\ owner' = owner
      BY <2>1 DEF Saying
    <2>3. AtHand(id)' \/ (LastState(id)' = LastState(id) /\ ~AtHand(id))
      BY <2>1, SaysLatest
    <2> QED
      BY <1>2, <2>2, <2>3
  <1>8. CASE Ending
    <2>1. memory' = [memory EXCEPT ![owner] = NothingRemembered] /\ NothingRemembered[id] = None
          /\ owner' = owner
      BY <1>8 DEF Ending, HandlerForgets, NothingRemembered
    <2> QED
      BY <1>1, <2>1
  <1>9. ~Move
    BY UnharmedIs, SurvivalIs DEF Move
  <1>10. CASE Expire
    <2>1. UNCHANGED <<process, owner, commands, step, events>>
      BY <1>10 DEF Expire, handlerVars
    <2>2. (AtHand(id)' <=> AtHand(id)) /\ LastState(id)' = LastState(id)
      BY <2>1, SaidStill DEF AtHand, Cmd, Gone, Opened
    <2>3. memory'[owner][id] = memory[owner][id] \/ memory'[owner][id] = None
      <3>1. memory' = memory \/ \E i \in Id, p \in Proc : memory' = [memory EXCEPT ![p][i] = None]
        BY <1>10 DEF Expire, CacheExpires, RedisExpires
      <3> QED
        BY <1>1, <3>1
    <2> QED
      BY <1>2, <2>1, <2>2, <2>3
  <1> QED
    BY <1>3, <1>4, <1>5, <1>6, <1>7, <1>8, <1>9, <1>10, MediaIs

LEMMA RedisLastStep ==
    ASSUME TypeInv, OrderOK, StopOK, LastOK, [Next]_vars,
           Happened' \intersect StaleAfter = {}
    PROVE  RedisLast'
  <1>0. Repo' = Repo
    BY AlwaysIs DEF Repo
  <1> SUFFICES ASSUME Repo \in Writing, NEW id \in Id
               PROVE  redis'[id] \in {None, LastState(id)'} \/ AtHand(id)'
    BY <1>0 DEF RedisLast
  <1>1. redis \in [Id -> Value]
    BY DEF TypeInv, RepoOK
  <1>2. redis[id] \in {None, LastState(id)} \/ AtHand(id)
    BY DEF LastOK, RedisLast
  <1>3. ~Ending /\ process.phase # "stopping" /\ ~Fails("store")
    BY UnharmedIs, SurvivalIs
  <1>4. CASE Standing
    BY <1>2, <1>4, SaidStill DEF Standing
  <1>5. CASE LoadRoot \/ Move \/ \E i \in Id, w \in Nat : Revising(i, w)
    <2>1. ~AtHand(id) /\ redis' = redis /\ events' = events
      BY <1>5, HandNotAt DEF LoadRoot, At, Move, handlerVars, Revising
    <2> QED
      BY <1>2, <2>1, SaidStill
  <1>6. CASE \E i \in Id, w \in Nat : Storing(i, w)
    <2>1. PICK i \in Id, w \in Nat : Storing(i, w)
      BY <1>6
    <2>2. /\ w = LastState(i) \/ AtHand(i)'
          /\ \A j : AtHand(j) => j = i
          /\ events' = events
      BY <2>1, StoresLatest
    <2>3. LastState(id)' = LastState(id)
      BY <2>2, SaidStill
    <2>4. redis' = [redis EXCEPT ![i] = w]
      <3>1. RedisSet(i, w) /\ step # "load"
        BY <2>1, StoresIs DEF Storing
      <3> QED
        BY <1>3, <3>1, RedisGets
    <2>5. redis'[id] = IF i = id THEN w ELSE redis[id]
      BY <1>1, <2>4
    <2>6. CASE i = id
      BY <2>2, <2>3, <2>5, <2>6
    <2>7. CASE i # id
      BY <1>2, <2>2, <2>3, <2>5, <2>7
    <2> QED
      BY <2>6, <2>7
  <1>7. CASE \E e \in StateEvent : Saying(e)
    <2>1. PICK e \in StateEvent : Saying(e)
      BY <1>7
    <2>2. redis' = redis
      BY <2>1 DEF Saying
    <2>3. AtHand(id)' \/ (LastState(id)' = LastState(id) /\ ~AtHand(id))
      BY <2>1, SaysLatest
    <2> QED
      BY <1>2, <2>2, <2>3
  <1>8. CASE Expire
    <2>1. UNCHANGED <<process, commands, step, events>>
      BY <1>8 DEF Expire, handlerVars
    <2>2. (AtHand(id)' <=> AtHand(id)) /\ LastState(id)' = LastState(id)
      BY <2>1, SaidStill DEF AtHand, Cmd, Gone, Opened
    <2>3. redis' = redis \/ \E i \in Id : redis' = [redis EXCEPT ![i] = None]
      BY <1>8 DEF Expire, CacheExpires, RedisExpires, Persist
    <2>4. redis'[id] = redis[id] \/ redis'[id] = None
      BY <1>1, <2>3
    <2> QED
      BY <1>2, <2>2, <2>4
  <1> QED
    BY <1>3, <1>4, <1>5, <1>6, <1>7, <1>8, MediaIs

LEMMA BothHaveStep ==
    ASSUME TypeInv, OrderOK, StopOK, LastOK, [Next]_vars,
           Happened' \intersect StaleAfter = {}
    PROVE  BothHave'
  <1>0. Repo' = Repo
    BY AlwaysIs DEF Repo
  <1> SUFFICES ASSUME Repo = "CachedRedisParticipantStateRepo", NEW id \in Id, redis'[id] # None
               PROVE  memory'[owner'][id] # None
    BY <1>0 DEF BothHave
  <1>1. /\ memory \in [Proc -> [Id -> Value]] /\ redis \in [Id -> Value] /\ owner \in Proc
        /\ None \notin Nat
    BY ConstantFacts DEF TypeInv, RepoOK
  <1>2. redis[id] # None => memory[owner][id] # None
    BY DEF LastOK, BothHave
  <1>3. Repo \in Remembering /\ Repo \in Layered
    BY DEF Remembering, Layered
  <1>4. CASE Standing \/ \E e \in StateEvent : Saying(e)
    BY <1>2, <1>4 DEF Standing, Saying
  <1>5. CASE LoadRoot
    <2>1. redis' = redis /\ owner' = owner /\ (memory' = memory \/ (Cmd.id \in Id /\ Load(Cmd.id)))
      BY <1>5 DEF LoadRoot, At
    <2>2. PICK i : i = Cmd.id
      OBVIOUS
    <2>3. memory' = memory
          \/ (i \in Id /\ memory' = [memory EXCEPT ![owner][i] = redis[i]])
      BY <2>1, <2>2, FindsIs
    <2>4. memory'[owner][id] \in {memory[owner][id], redis[id]}
      BY <1>1, <2>3
    <2> QED
      BY <1>2, <2>1, <2>4
  <1>6. CASE \E i \in Id, w \in Nat : Revising(i, w)
    <2>1. PICK i \in Id, w \in Nat : Revising(i, w)
      BY <1>6
    <2>2. memory'[owner][id] \in {memory[owner][id], w}
      BY <1>1, <2>1 DEF Revising
    <2> QED
      BY <1>1, <1>2, <2>1, <2>2 DEF Revising
  <1>7. CASE \E i \in Id, w \in Nat : Storing(i, w)
    <2>1. PICK i \in Id, w \in Nat : Storing(i, w)
      BY <1>7
    <2>2. /\ memory' = [memory EXCEPT ![owner][i] = w] /\ owner' = owner
          /\ redis' = redis \/ redis' = [redis EXCEPT ![i] = w]
      BY <1>3, <2>1, StoresIs DEF Storing
    <2>3. memory'[owner][id] = IF i = id THEN w ELSE memory[owner][id]
      BY <1>1, <2>2
    <2>4. i # id => redis'[id] = redis[id]
      BY <1>1, <2>2
    <2> QED
      BY <1>1, <1>2, <2>2, <2>3, <2>4
  <1>8. ~Ending /\ ~Move
    BY <1>3, UnharmedIs, SurvivalIs DEF Move
  <1>9. ~Expire
    BY DEF Expire, CacheExpires, RedisExpires
  <1> QED
    BY <1>4, <1>5, <1>6, <1>7, <1>8, <1>9, MediaIs

LEMMA RootLastStep ==
    ASSUME TypeInv, OrderOK, StopOK, OwnOK, FollowOK, NeverInRedis, LastOK, [Next]_vars,
           Happened' \intersect StaleAfter = {}
    PROVE  RootLast'
  <1> SUFFICES ASSUME NEW id \in Id, Cmd'.id = id, step' \notin {"load", "commit"}
               PROVE  /\ step' = "handle" => root' \in {None, LastState(id)'}
                      /\ Repeating' \/ (step' = "tick" /\ answer' = NoEvent)
                            => root' = LastState(id)'
    BY DEF RootLast, Repeating
  <1>1. Cmd' = Cmd /\ Cmd.id = id /\ commands # <<>>
    BY HandMoves
  <1>2. /\ step = "handle" => root \in {None, LastState(id)}
        /\ Repeating \/ (step = "tick" /\ answer = NoEvent) => root = LastState(id)
    BY <1>1 DEF LastOK, RootLast
  <1>3. events' = events => LastState(id)' = LastState(id)
    BY SaidStill
  <1>4. CASE UNCHANGED <<step, root, answer, events>>
    BY <1>2, <1>3, <1>4 DEF Repeating, IsSnapshot
  <1>5. CASE LoadRoot
    <2>1. root' \in {None, LastState(id)} /\ step' \in {"handle", "recover"} /\ events' = events
      BY <1>1, <1>5, LoadsLatest DEF LoadRoot
    <2> QED
      BY <1>3, <2>1 DEF Repeating
  <1>6. CASE Recover
    <2>1. step' = "handle" /\ events' = events /\ Cmd.name \in ParticipantCmd
      BY <1>6 DEF Recover, Recovered, At
    <2>2. ~Fails("fetch")
      BY <1>1, <2>1, OwnIs, UnharmedIs, SurvivalIs
    <2>3. root' = LastState(id)
      BY <1>1, <1>6, <2>2, RecoversIs
    <2> QED
      BY <1>3, <2>1, <2>3 DEF Repeating
  <1>7. CASE step' = "publish" /\ ~IsSnapshot(answer')
    BY <1>7 DEF Repeating, IsSnapshot
  <1>8. CASE Keeping /\ events' = events
    <2>1. root # None
      BY <1>8 DEF Keeping, TypeInv, HandOK
    <2> QED
      BY <1>2, <1>3, <1>8, <2>1 DEF Keeping
  <1>9. CASE Counting /\ events' = events
    <2>1. /\ root \in Nat /\ step = "handle" /\ answer' # NoEvent /\ step' \in {"tick", "publish"}
          /\ (IsSnapshot(answer') => root' = root)
      BY <1>9 DEF Counting
    <2>2. root = LastState(id)
      BY <1>2, <2>1, ConstantFacts
    <2>3. Repeating' => IsSnapshot(answer')
      BY <2>1 DEF Repeating, IsSnapshot
    <2> QED
      BY <1>3, <1>9, <2>1, <2>2, <2>3
  <1>10. CASE /\ step = "tick" /\ step' = "publish" /\ answer # NoEvent
              /\ UNCHANGED <<root, answer, events>>
    BY <1>2, <1>3, <1>10 DEF Repeating, IsSnapshot
  <1>11. CASE PublishAnswer
    <2>1. step = "publish" /\ step' = "store" /\ root' = root
      BY <1>11 DEF PublishAnswer, repoVars
    <2>2. CASE IsSnapshot(answer)
      <3>1. events' = events
        BY <1>11, <2>2 DEF PublishAnswer, IsSnapshot
      <3> QED
        BY <1>2, <1>3, <2>1, <2>2, <3>1 DEF Repeating
    <2>3. CASE ~IsSnapshot(answer)
      <3>1. PICK e : e = answer
        OBVIOUS
      <3>2. /\ e \in StateEvent /\ events' = Append(events, e) /\ e.id = id /\ e.value = root
            /\ TopicsOK
        BY <1>1, <1>11, <2>1, <2>3, <3>1, PublishAnswerIs
           DEF TypeInv, HandlerOK, Decided, IsSnapshot
      <3>3. LastState(id)' = root
        BY <3>2, SaidMore
      <3> QED
        BY <2>1, <3>3
    <2> QED
      BY <2>2, <2>3
  <1> QED
    BY <1>4, <1>5, <1>6, <1>7, <1>8, <1>9, <1>10, <1>11, HandMoves

--------------------------------------------------------------------------------
(* Unless something happened that the repository does not survive, a transfer that was *)
(* prepared is found                                                                   *)

MemoryKeeps == Repo \in Volatile =>
    \A id \in Id : LastState(id) # None => memory[owner][id] # None \/ AtHand(id)
RedisKeeps  == Repo \in Lasting =>
    \A id \in Id : LastState(id) # None => redis[id] # None \/ AtHand(id)
RootKeeps   == \A id \in Id : Cmd.id = id /\ step = "handle" => LastState(id) = None \/ root # None
KeepsOK == MemoryKeeps /\ RedisKeeps /\ RootKeeps

LEMMA MemoryKeepsStep ==
    ASSUME TypeInv, OrderOK, StopOK, KeepsOK, [Next]_vars,
           Happened' \intersect ForgottenAfter = {}
    PROVE  MemoryKeeps'
  <1>0. Repo' = Repo
    BY AlwaysIs DEF Repo
  <1> SUFFICES ASSUME Repo \in Volatile, NEW id \in Id, LastState(id)' # None, ~AtHand(id)'
               PROVE  memory'[owner'][id] # None
    BY <1>0 DEF MemoryKeeps, Volatile
  <1>1. /\ memory \in [Proc -> [Id -> Value]] /\ redis \in [Id -> Value] /\ owner \in Proc
        /\ None \notin Nat
    BY ConstantFacts DEF TypeInv, RepoOK
  <1>2. LastState(id) # None /\ ~AtHand(id) => memory[owner][id] # None
    BY DEF KeepsOK, MemoryKeeps
  <1>3. Repo \in Remembering
    BY DEF Remembering, Layered, Volatile
  <1>4. CASE Standing
    <2>1. LastState(id)' = LastState(id) /\ ~AtHand(id) /\ memory' = memory /\ owner' = owner
      BY <1>4, SaidStill DEF Standing
    <2> QED
      BY <1>2, <2>1
  <1>5. CASE LoadRoot
    <2>1. /\ UNCHANGED <<events, owner>> /\ ~AtHand(id)
          /\ memory' = memory \/ (Cmd.id \in Id /\ Load(Cmd.id))
      BY <1>5, HandNotAt DEF LoadRoot, At
    <2>2. memory[owner][id] # None
      BY <1>2, <2>1, SaidStill
    <2>3. PICK i : i = Cmd.id
      OBVIOUS
    <2>4. memory' = memory
          \/ (i \in Id /\ memory[owner][i] = None /\ memory' = [memory EXCEPT ![owner][i] = redis[i]])
      BY <2>1, <2>3, FindsIs
    <2>5. memory'[owner][id] = memory[owner][id]
      BY <1>1, <2>2, <2>4
    <2> QED
      BY <2>1, <2>2, <2>5
  <1>6. CASE \E i \in Id, w \in Nat : Revising(i, w)
    <2>1. PICK i \in Id, w \in Nat : Revising(i, w)
      BY <1>6
    <2>2. memory[owner][id] # None /\ owner' = owner
      BY <1>2, <2>1, HandNotAt, SaidStill DEF Revising
    <2>3. memory'[owner][id] \in {memory[owner][id], w}
      BY <1>1, <2>1 DEF Revising
    <2> QED
      BY <1>1, <2>2, <2>3
  <1>7. CASE \E i \in Id, w \in Nat : Storing(i, w)
    <2>1. PICK i \in Id, w \in Nat : Storing(i, w)
      BY <1>7
    <2>2. /\ memory' = [memory EXCEPT ![owner][i] = w] /\ owner' = owner
          /\ LastState(id)' = LastState(id)
      BY <1>3, <2>1, StoresIs, SaidStill DEF Storing
    <2>3. memory'[owner][id] = IF i = id THEN w ELSE memory[owner][id]
      BY <1>1, <2>2
    <2>4. i # id => ~AtHand(id)
      BY <2>1 DEF Storing, AtHand
    <2> QED
      BY <1>1, <1>2, <2>2, <2>3, <2>4
  <1>8. CASE \E e \in StateEvent : Saying(e)
    <2>1. PICK e \in StateEvent : Saying(e)
      BY <1>8
    <2>2. memory' = memory /\ owner' = owner
      BY <2>1 DEF Saying
    <2>3. LastState(id)' = LastState(id) /\ ~AtHand(id)
      BY <2>1, SaysLatest
    <2> QED
      BY <1>2, <2>2, <2>3
  <1>9. ~Ending /\ ~Move
    BY UnharmedIs, SurvivalIs DEF Move
  <1>10. ~Expire
    <2>1. ~Fails("expiry") \/ Repo # "InMemoryNodeCacheTransferStateRepo"
      BY UnharmedIs, SurvivalIs
    <2> QED
      BY <2>1 DEF Expire, CacheExpires, RedisExpires, Volatile
  <1> QED
    BY <1>4, <1>5, <1>6, <1>7, <1>8, <1>9, <1>10, MediaIs

LEMMA RedisKeepsStep ==
    ASSUME TypeInv, OrderOK, StopOK, KeepsOK, [Next]_vars,
           Happened' \intersect ForgottenAfter = {}
    PROVE  RedisKeeps'
  <1>0. Repo' = Repo
    BY AlwaysIs DEF Repo
  <1> SUFFICES ASSUME Repo \in Lasting, NEW id \in Id, LastState(id)' # None, ~AtHand(id)'
               PROVE  redis'[id] # None
    BY <1>0 DEF RedisKeeps
  <1>1. redis \in [Id -> Value] /\ None \notin Nat
    BY ConstantFacts DEF TypeInv, RepoOK
  <1>2. LastState(id) # None /\ ~AtHand(id) => redis[id] # None
    BY DEF KeepsOK, RedisKeeps
  <1>3. ~Ending /\ ~Expire /\ process.phase # "stopping" /\ ~Fails("store")
    BY UnharmedIs, SurvivalIs DEF Expire, CacheExpires, RedisExpires
  <1>4. CASE Standing
    <2>1. LastState(id)' = LastState(id) /\ ~AtHand(id) /\ redis' = redis
      BY <1>4, SaidStill DEF Standing
    <2> QED
      BY <1>2, <2>1
  <1>5. CASE LoadRoot \/ Move \/ \E i \in Id, w \in Nat : Revising(i, w)
    <2>1. ~AtHand(id) /\ redis' = redis /\ events' = events
      BY <1>5, HandNotAt DEF LoadRoot, At, Move, handlerVars, Revising
    <2> QED
      BY <1>2, <2>1, SaidStill
  <1>6. CASE \E i \in Id, w \in Nat : Storing(i, w)
    <2>1. PICK i \in Id, w \in Nat : Storing(i, w)
      BY <1>6
    <2>2. RedisSet(i, w) /\ step # "load" /\ LastState(id)' = LastState(id)
      BY <2>1, StoresIs, SaidStill DEF Storing, Lasting, Writing
    <2>3. redis' = [redis EXCEPT ![i] = w]
      BY <1>3, <2>2, RedisGets
    <2>4. redis'[id] = IF i = id THEN w ELSE redis[id]
      BY <1>1, <2>3
    <2>5. i # id => ~AtHand(id)
      BY <2>1 DEF Storing, AtHand
    <2> QED
      BY <1>1, <1>2, <2>2, <2>4, <2>5
  <1>7. CASE \E e \in StateEvent : Saying(e)
    <2>1. PICK e \in StateEvent : Saying(e)
      BY <1>7
    <2>2. redis' = redis
      BY <2>1 DEF Saying
    <2>3. LastState(id)' = LastState(id) /\ ~AtHand(id)
      BY <2>1, SaysLatest
    <2> QED
      BY <1>2, <2>2, <2>3
  <1> QED
    BY <1>3, <1>4, <1>5, <1>6, <1>7, MediaIs

LEMMA RootKeepsStep ==
    ASSUME TypeInv, OrderOK, StopOK, OwnOK, FollowOK, KeepsOK, [Next]_vars,
           Happened' \intersect ForgottenAfter = {}
    PROVE  RootKeeps'
  <1> SUFFICES ASSUME NEW id \in Id, Cmd'.id = id, step' = "handle", root' = None
               PROVE  LastState(id)' = None
    BY DEF RootKeeps
  <1>1. Cmd' = Cmd /\ Cmd.id = id /\ commands # <<>>
    BY HandMoves
  <1>2. events' = events => LastState(id)' = LastState(id)
    BY SaidStill
  <1>3. CASE UNCHANGED <<step, root, answer, events>>
    BY <1>1, <1>2, <1>3 DEF KeepsOK, RootKeeps
  <1>4. CASE LoadRoot
    <2>1. /\ step = "load" /\ Load(id) /\ events' = events
          /\ Cmd.name \notin ParticipantCmd /\ ~AtHand(id)
      BY <1>1, <1>4, HandNotAt DEF LoadRoot, At
    <2>2. Repo \in Volatile \union Lasting
      BY <1>1, <2>1, OwnIs, RepoIs DEF TransferRepo, Volatile, Lasting
    <2>3. \/ Repo \in Remembering \ Layered /\ memory[owner][id] = None
          \/ Repo \in Layered /\ memory[owner][id] = None /\ redis[id] = None
          \/ Repo \in {"RedisParticipantStateRepo", "RedisTransferStateRepo"} /\ redis[id] = None
      BY <2>1, FindsIs
    <2>4. CASE Repo \in Volatile
      <3>1. memory[owner][id] = None
        BY <2>3, <2>4 DEF Volatile
      <3> QED
        BY <1>2, <2>1, <2>4, <3>1 DEF KeepsOK, MemoryKeeps
    <2>5. CASE Repo \in Lasting
      <3>1. redis[id] = None
        BY <2>3, <2>5 DEF Lasting, Remembering, Layered
      <3> QED
        BY <1>2, <2>1, <2>5, <3>1 DEF KeepsOK, RedisKeeps
    <2> QED
      BY <2>2, <2>4, <2>5
  <1>5. CASE Recover
    <2>1. events' = events /\ Cmd.name \in ParticipantCmd
      BY <1>5 DEF Recover, Recovered, At
    <2>2. ~Fails("fetch")
      BY <1>1, <2>1, OwnIs, UnharmedIs, SurvivalIs
    <2> QED
      BY <1>1, <1>2, <1>5, <2>1, <2>2, RecoversIs
  <1>6. CASE Keeping \/ Counting \/ PublishAnswer
    BY <1>6 DEF Keeping, Counting, PublishAnswer
  <1> QED
    BY <1>3, <1>4, <1>5, <1>6, HandMoves

LEMMA LastInit == Init => NeverInRedis /\ LastOK /\ KeepsOK
  <1> SUFFICES ASSUME Init PROVE NeverInRedis /\ LastOK /\ KeepsOK
    OBVIOUS
  <1>1. /\ redis = NothingRemembered /\ memory = [proc \in Proc |-> NothingRemembered]
        /\ owner = CHOOSE proc \in Proc : TRUE
        /\ step = "load" /\ events = <<>> /\ Proc # {}
    BY RepositoriesAssumption DEF Init, RepoInit, HandlerInit, RepositoriesAssumption
  <1>2. owner \in Proc
    BY <1>1
  <1>3. \A id \in Id : redis[id] = None /\ memory[owner][id] = None
    BY <1>1, <1>2 DEF NothingRemembered
  <1>4. \A id : LastState(id) = None
    <2> SUFFICES ASSUME NEW id PROVE LastState(id) = None
      OBVIOUS
    <2>1. TopicsOK /\ 1..Len(events) = {}
      BY <1>1, TypeInit DEF TypeInv
    <2> QED
      BY <2>1, SaidIs
  <1>5. NeverInRedis /\ MemoryLast /\ RedisLast /\ BothHave
    BY <1>3 DEF NeverInRedis, MemoryLast, RedisLast, BothHave
  <1>6. RootLast /\ KeepsOK
    BY <1>1, <1>4 DEF RootLast, Repeating, KeepsOK, MemoryKeeps, RedisKeeps, RootKeeps
  <1> QED
    BY <1>5, <1>6 DEF LastOK

LEMMA SameSurvival ==
    ASSUME TypeInv, [Next]_vars
    PROVE  StaleAfter' = StaleAfter /\ ForgottenAfter' = ForgottenAfter
  <1>1. Repo' = Repo
    BY AlwaysIs DEF Repo
  <1> QED
    BY <1>1 DEF StaleAfter, ForgottenAfter, Volatile

Stale    == Happened \intersect StaleAfter # {}
Forgot   == Happened \intersect ForgottenAfter # {}
LoadsInv == /\ StopOK /\ OwnOK /\ ToldOK /\ NeverInRedis
            /\ Stale \/ LastOK
            /\ Forgot \/ KeepsOK

LEMMA LoadsStep ==
    ASSUME TypeInv, FollowsOK, LoadsInv, [Next]_vars
    PROVE  LoadsInv'
  <1>1. OrderOK /\ FollowOK /\ StopOK /\ OwnOK /\ ToldOK /\ NeverInRedis
    BY DEF FollowsOK, LoadsInv
  <1>2. StopOK' /\ OwnOK' /\ ToldOK' /\ NeverInRedis'
    BY <1>1, StopStep, OwnStep, ToldStep, NeverInRedisStep
  <1>3. ASSUME ~Stale' PROVE LastOK'
    <2>1. Happened' \intersect StaleAfter = {}
      BY <1>3, SameSurvival DEF Stale
    <2>2. LastOK
      BY <1>1, <2>1, UnharmedIs DEF LoadsInv, Stale
    <2>3. MemoryLast' /\ RedisLast'
      BY <1>1, <2>1, <2>2, MemoryLastStep, RedisLastStep
    <2>4. BothHave' /\ RootLast'
      BY <1>1, <2>1, <2>2, BothHaveStep, RootLastStep
    <2> QED
      BY <2>3, <2>4 DEF LastOK
  <1>4. ASSUME ~Forgot' PROVE KeepsOK'
    <2>1. Happened' \intersect ForgottenAfter = {}
      BY <1>4, SameSurvival DEF Forgot
    <2>2. KeepsOK
      BY <1>1, <2>1, UnharmedIs DEF LoadsInv, Forgot
    <2> QED
      BY <1>1, <2>1, <2>2, MemoryKeepsStep, RedisKeepsStep, RootKeepsStep DEF KeepsOK
  <1> QED
    BY <1>2, <1>3, <1>4 DEF LoadsInv

\* A command is ruled on with the state its aggregate's last state event gave it.  Otherwise
\* something failed that the repository does not survive: then a transfer may not be found,
\* an older state may be, or one that redis got before a process crashed that would have
\* published it.
THEOREM HandlersLoadLast == Spec => []LoadsLast
  <1>1. Init => LoadsInv
    BY DocsInit, ToldInit, LastInit DEF LoadsInv
  <1>2. TypeInv /\ FollowsOK /\ LoadsInv /\ [Next]_vars => LoadsInv'
    BY LoadsStep
  <1>3. TypeInv /\ LoadsInv => LoadsLast
    <2> SUFFICES ASSUME TypeInv, LoadsInv, commands # <<>>, step = "handle", NEW id \in Id,
                        Cmd.id = id
                 PROVE  \/ root = LastState(id)
                        \/ root = None /\ Forgot
                        \/ root \in States(id) /\ Stale
                        \/ root - 1 \in States(id) /\ Happened \intersect AheadAfter # {}
      BY DEF LoadsLast, Stale, Forgot
    <2>1. root = None \/ root \in Nat
      BY DEF TypeInv, RepoOK, Value
    <2>2. CASE root = None
      BY <2>2 DEF LoadsInv, KeepsOK, RootKeeps
    <2>3. CASE root \in States(id)
      <3>1. root # None
        BY <2>3, SaidIs, ConstantFacts DEF TypeInv
      <3> QED
        BY <2>3, <3>1 DEF LoadsInv, LastOK, RootLast
    <2>4. CASE root \in Nat /\ root \notin States(id)
      <3>1. PICK v \in Nat : v = root
        BY <2>4
      <3>2. Ahead(id, v)
        BY <2>4, <3>1 DEF LoadsInv, ToldOK, RootTold, Told
      <3>3. Happened \intersect AheadAfter # {}
        BY <3>2, SurvivalIs DEF Ahead
      <3> QED
        BY <3>1, <3>2, <3>3 DEF Ahead
    <2> QED
      BY <2>1, <2>2, <2>3, <2>4
  <1> QED
    BY <1>1, <1>2, <1>3, TypeInvariant, KeptIsCreated, PTL DEF Spec

================================================================================
