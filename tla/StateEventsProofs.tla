---------------------------- MODULE StateEventsProofs ----------------------------
(******************************************************************************)
(* Proofs about StateEvents, for every value of its constants.                *)
(******************************************************************************)
EXTENDS StateEvents, SequenceTheorems, FiniteSetTheorems, WellFoundedInduction, TLAPS

--------------------------------------------------------------------------------
(* What a topic holds of an aggregate *)

\* What holds of 0 and of each next number holds up to n.
LEMMA CountingUp ==
    ASSUME NEW n \in Nat, NEW Good \in SUBSET Nat, 0 \in Good,
           \A k \in 0..(n - 1) : k \in Good => k + 1 \in Good
    PROVE  0..n \subseteq Good
  <1> DEFINE Bad == (0..n) \ Good
  <1> SUFFICES ASSUME Bad # {} PROVE FALSE
    OBVIOUS
  <1>1. \E R : IsWellFoundedOn(R, Nat) /\ \A j, k \in Nat : j < k => <<j, k>> \in R
    <2>1. \A j, k \in Nat : j < k => <<j, k>> \in OpToRel(<, Nat)
      BY Zenon DEF OpToRel
    <2> QED
      BY <2>1, NatLessThanWellFounded, Zenon
  <1>2. PICK R : IsWellFoundedOn(R, Nat) /\ \A j, k \in Nat : j < k => <<j, k>> \in R
    BY <1>1
  <1>3. Bad \subseteq Nat
    OBVIOUS
  <1> HIDE DEF Bad
  <1>4. PICK k \in Bad : \A j \in Bad : ~ (<<j, k>> \in R)
    <2>1. PICK U, T : U = Nat /\ T = Bad
      OBVIOUS
    <2>2. IsWellFoundedOn(R, U)
      BY <1>2, <2>1
    <2>3. T \subseteq U /\ T # {}
      BY <1>3, <2>1
    <2>4. \E x \in T : \A y \in T : ~ (<<y, x>> \in R)
      BY <2>2, <2>3, WFMin
    <2> QED
      BY <2>1, <2>4
  <1>5. k \in 1..n /\ k \notin Good
    BY DEF Bad
  <1>6. k - 1 \in 0..(n - 1) /\ k - 1 \in Nat /\ k - 1 < k
    BY <1>5
  <1>7. k - 1 \notin Good
    BY <1>5, <1>6
  <1>8. <<k - 1, k>> \in R
    BY <1>2, <1>5, <1>6
  <1>9. k - 1 \in Bad
    BY <1>5, <1>6, <1>7 DEF Bad
  <1> QED
    BY <1>4, <1>8, <1>9

Keeps(topic, id, n, before) ==
    IF topic[n].id = id THEN Append(before, topic[n]) ELSE before

KeptBy(f, topic, id, n) ==
    f = [k \in 0..n |-> IF k = 0 THEN <<>> ELSE Keeps(topic, id, k, f[k - 1])]

LEMMA OfUnfolds ==
    ASSUME NEW topic, NEW id
    PROVE  Of(topic, id) = (CHOOSE f : KeptBy(f, topic, id, Len(topic)))[Len(topic)]
  BY Zenon DEF Of, KeptBy, Keeps

LEMMA KeptExists ==
    ASSUME NEW topic, NEW id, NEW n \in Nat
    PROVE  \E f : KeptBy(f, topic, id, n)
  <1> DEFINE Good == {k \in Nat : \E f : KeptBy(f, topic, id, k)}
  <1>1. 0 \in Good
    <2>1. KeptBy([k \in 0..0 |-> <<>>], topic, id, 0)
      BY DEF KeptBy
    <2> QED
      BY <2>1
  <1>2. ASSUME NEW k \in 0..(n - 1), k \in Good PROVE k + 1 \in Good
    <2>1. PICK f : KeptBy(f, topic, id, k)
      BY <1>2
    <2> DEFINE g == [j \in 0..(k + 1) |-> IF j = k + 1 THEN Keeps(topic, id, k + 1, f[k]) ELSE f[j]]
    <2>2. \A j \in 0..(k + 1) : j # 0 => j - 1 \in 0..k /\ g[j - 1] = f[j - 1]
      OBVIOUS
    <2>3. \A j \in 0..k : f[j] = IF j = 0 THEN <<>> ELSE Keeps(topic, id, j, f[j - 1])
      BY <2>1 DEF KeptBy
    <2>4. \A j \in 0..(k + 1) : g[j] = IF j = 0 THEN <<>> ELSE Keeps(topic, id, j, g[j - 1])
      <3> TAKE j \in 0..(k + 1)
      <3>1. CASE j = k + 1
        <4>1. g[j] = Keeps(topic, id, j, f[k]) /\ j # 0 /\ j - 1 = k
          BY <3>1
        <4> QED
          BY <2>2, <4>1
      <3>2. CASE j \in 0..k
        <4>1. g[j] = f[j]
          BY <3>2
        <4> HIDE DEF g
        <4> QED
          BY <2>2, <2>3, <3>2, <4>1
      <3> QED
        BY <3>1, <3>2
    <2>5. g = [j \in 0..(k + 1) |-> g[j]]
      OBVIOUS
    <2> HIDE DEF g
    <2>6. g = [j \in 0..(k + 1) |-> IF j = 0 THEN <<>> ELSE Keeps(topic, id, j, g[j - 1])]
      BY <2>4, <2>5
    <2>7. KeptBy(g, topic, id, k + 1)
      BY <2>6 DEF KeptBy
    <2> QED
      BY <2>7
  <1> HIDE DEF Good
  <1>3. Good \in SUBSET Nat
    BY DEF Good
  <1>4. n \in Good
    BY <1>1, <1>2, <1>3, CountingUp
  <1> QED
    BY <1>4 DEF Good

\* What is kept of a topic depends on nothing behind it.
LEMMA KeptOnce ==
    ASSUME NEW id, NEW topic, NEW longer, NEW n \in Nat, NEW m \in Nat, n <= m,
           \A k \in 1..n : longer[k] = topic[k],
           NEW f, KeptBy(f, topic, id, n), NEW g, KeptBy(g, longer, id, m)
    PROVE  f[n] = g[n]
  <1> DEFINE Same == {k \in 0..n : f[k] = g[k]}
  <1>1. \A k \in 0..n : f[k] = IF k = 0 THEN <<>> ELSE Keeps(topic, id, k, f[k - 1])
    BY DEF KeptBy
  <1>2. \A k \in 0..n : g[k] = IF k = 0 THEN <<>> ELSE Keeps(longer, id, k, g[k - 1])
    BY DEF KeptBy
  <1>3. 0 \in Same
    BY <1>1, <1>2
  <1>4. ASSUME NEW k \in 0..(n - 1), k \in Same PROVE k + 1 \in Same
    <2>1. k + 1 \in 1..n /\ k + 1 \in 0..n /\ k + 1 # 0 /\ (k + 1) - 1 = k
      OBVIOUS
    <2>2. f[k + 1] = Keeps(topic, id, k + 1, f[k])
      BY <1>1, <2>1
    <2>3. g[k + 1] = Keeps(longer, id, k + 1, g[k])
      BY <1>2, <2>1
    <2>4. Keeps(topic, id, k + 1, f[k]) = Keeps(longer, id, k + 1, g[k])
      BY <1>4, <2>1 DEF Keeps
    <2> QED
      BY <2>1, <2>2, <2>3, <2>4
  <1>5. Same \in SUBSET Nat /\ Same \subseteq 0..n
    OBVIOUS
  <1> HIDE DEF Same
  <1>6. 0..n \subseteq Same
    BY <1>3, <1>4, <1>5, CountingUp
  <1> QED
    BY <1>6 DEF Same

LEMMA OfPrefix ==
    ASSUME NEW S, NEW topic \in Seq(S), NEW id, NEW longer, NEW m \in Nat, Len(topic) <= m,
           \A k \in 1..Len(topic) : longer[k] = topic[k],
           NEW g, KeptBy(g, longer, id, m)
    PROVE  Of(topic, id) = g[Len(topic)]
  <1>1. Len(topic) \in Nat
    OBVIOUS
  <1>2. PICK f : f = CHOOSE h : KeptBy(h, topic, id, Len(topic))
    OBVIOUS
  <1>3. KeptBy(f, topic, id, Len(topic))
    BY <1>1, <1>2, KeptExists
  <1>4. Of(topic, id) = f[Len(topic)]
    BY <1>2, OfUnfolds, Zenon
  <1> QED
    BY <1>1, <1>3, <1>4, KeptOnce

\* What is new is kept, behind the rest, if it is of id.
LEMMA OfAppend ==
    ASSUME NEW S, NEW topic \in Seq(S), NEW e \in S, NEW id
    PROVE  Of(Append(topic, e), id) = IF e.id = id THEN Append(Of(topic, id), e) ELSE Of(topic, id)
  <1>1. PICK longer, m : longer = Append(topic, e) /\ m = Len(topic) + 1
    OBVIOUS
  <1>2. /\ longer \in Seq(S) /\ m \in Nat /\ Len(longer) = m /\ Len(topic) \in Nat
        /\ \A k \in 1..Len(topic) : longer[k] = topic[k]
        /\ longer[m] = e
    BY <1>1, AppendProperties
  <1>3. PICK f : KeptBy(f, longer, id, m)
    BY <1>2, KeptExists
  <1>4. Of(longer, id) = f[m]
    BY <1>2, <1>3, OfPrefix
  <1>5. Of(topic, id) = f[Len(topic)]
    <2>1. Len(topic) <= m
      BY <1>1, <1>2
    <2>2. \A k \in 1..Len(topic) : longer[k] = topic[k]
      BY <1>2
    <2> QED
      BY <1>2, <1>3, <2>1, <2>2, OfPrefix
  <1>6. f[m] = Keeps(longer, id, m, f[m - 1])
    BY <1>1, <1>2, <1>3 DEF KeptBy
  <1>7. m - 1 = Len(topic)
    BY <1>1, <1>2
  <1> QED
    BY <1>1, <1>2, <1>4, <1>5, <1>6, <1>7 DEF Keeps

LEMMA OfNothing == ASSUME NEW id PROVE Of(<<>>, id) = <<>>
  <1>1. Len(<<>>) = 0
    OBVIOUS
  <1>2. PICK f : f = CHOOSE h : KeptBy(h, <<>>, id, 0)
    OBVIOUS
  <1>3. KeptBy(f, <<>>, id, 0)
    BY <1>2, KeptExists
  <1>4. Of(<<>>, id) = f[0]
    BY <1>1, <1>2, OfUnfolds
  <1>5. f[0] = <<>>
    BY <1>3 DEF KeptBy
  <1> QED
    BY <1>4, <1>5

\* It holds what the topic holds of id, and nothing else.
LEMMA OfMembers ==
    ASSUME NEW S, NEW topic \in Seq(S), NEW id
    PROVE  /\ Of(topic, id) \in Seq({m \in S : m.id = id})
           /\ Of(topic, id) = <<>> <=> \A k \in 1..Len(topic) : topic[k].id # id
  <1> DEFINE Own == {m \in S : m.id = id}
  <1>0. Len(topic) \in Nat /\ \A k \in 1..Len(topic) : topic[k] \in S
    OBVIOUS
  <1>1. PICK f : KeptBy(f, topic, id, Len(topic))
    BY <1>0, KeptExists
  <1>2. \A k \in 0..Len(topic) : f[k] = IF k = 0 THEN <<>> ELSE Keeps(topic, id, k, f[k - 1])
    BY <1>1 DEF KeptBy
  <1> DEFINE Good == {k \in 0..Len(topic) :
                         /\ f[k] \in Seq(Own)
                         /\ f[k] = <<>> <=> \A j \in 1..k : topic[j].id # id}
  <1>3. 0 \in Good
    <2>1. f[0] = <<>> /\ 1..0 = {} /\ 0 \in 0..Len(topic)
      BY <1>0, <1>2
    <2>2. <<>> \in Seq(Own)
      OBVIOUS
    <2> QED
      BY <2>1, <2>2
  <1>4. ASSUME NEW k \in 0..(Len(topic) - 1), k \in Good PROVE k + 1 \in Good
    <2>1. k + 1 \in 1..Len(topic) /\ k + 1 \in 0..Len(topic) /\ k + 1 # 0 /\ (k + 1) - 1 = k
      BY <1>0
    <2>2. f[k + 1] = Keeps(topic, id, k + 1, f[k])
      BY <1>2, <2>1
    <2>3. f[k] \in Seq(Own) /\ (f[k] = <<>> <=> \A j \in 1..k : topic[j].id # id)
      BY <1>4
    <2>4. CASE topic[k + 1].id = id
      <3>1. topic[k + 1] \in Own
        BY <1>0, <2>1, <2>4
      <3>2. f[k + 1] = Append(f[k], topic[k + 1])
        BY <2>2, <2>4 DEF Keeps
      <3>3. f[k + 1] \in Seq(Own) /\ f[k + 1] # <<>>
        <4>1. PICK v, w, T : v = f[k] /\ w = topic[k + 1] /\ T = Own
          OBVIOUS
        <4>2. v \in Seq(T) /\ w \in T
          BY <2>3, <3>1, <4>1
        <4>3. Append(v, w) \in Seq(T) /\ Append(v, w) # <<>>
          BY <4>2, AppendProperties
        <4> QED
          BY <3>2, <4>1, <4>3
      <3> QED
        BY <2>1, <2>4, <3>3
    <2>5. CASE topic[k + 1].id # id
      <3>1. f[k + 1] = f[k]
        BY <2>2, <2>5 DEF Keeps
      <3>2. (\A j \in 1..k : topic[j].id # id) <=> (\A j \in 1..(k + 1) : topic[j].id # id)
        BY <2>1, <2>5
      <3> QED
        BY <2>1, <2>3, <3>1, <3>2
    <2> QED
      BY <2>4, <2>5
  <1>5. Good \in SUBSET Nat
    OBVIOUS
  <1> HIDE DEF Good
  <1>6. 0..Len(topic) \subseteq Good
    BY <1>0, <1>3, <1>4, <1>5, CountingUp
  <1>7. Len(topic) \in Good
    BY <1>0, <1>6
  <1>8. Of(topic, id) = f[Len(topic)]
    BY <1>1, OfPrefix
  <1> QED
    BY <1>7, <1>8 DEF Good

LEMMA ReplayIs ==
    ASSUME NEW S, NEW snapshot \in Seq(S), NEW evts \in Seq(S)
    PROVE  Replay(snapshot, evts) =
               IF evts # <<>> THEN evts[Len(evts)].value
               ELSE IF snapshot # <<>> THEN snapshot[Len(snapshot)].value ELSE None
  <1>1. PICK all : all = snapshot \o evts
    OBVIOUS
  <1>2. /\ all \in Seq(S) /\ Len(all) = Len(snapshot) + Len(evts)
        /\ DOMAIN all = 1..Len(all)
        /\ evts # <<>> => all[Len(all)] = evts[Len(evts)] /\ Len(all) # 0
        /\ evts = <<>> => all = snapshot
    BY <1>1, ConcatProperties
  <1> DEFINE Sub == SUBSET DOMAIN all
             F == [s \in Sub |-> IF s = {} THEN None ELSE all[Max(s)].value]
             Folds(f) == f = [s \in Sub |->
                           IF s = {} THEN None
                           ELSE ApplyStateEvent(f[s \ {Max(s)}], all[Max(s)])]
  <1>3. Replay(snapshot, evts) = (CHOOSE f : Folds(f))[DOMAIN all]
    BY <1>1, Zenon DEF Replay, FoldLeft, MapThenFoldSet
  <1>4. \A f : Folds(f) <=> f = F
    BY DEF ApplyStateEvent
  <1>5. Replay(snapshot, evts) = F[DOMAIN all]
    BY <1>3, <1>4
  <1>6. F[DOMAIN all] = IF all = <<>> THEN None ELSE all[Max(DOMAIN all)].value
    BY <1>2
  <1>7. all # <<>> => Max(DOMAIN all) = Len(all)
    BY <1>2 DEF Max
  <1> QED
    BY <1>2, <1>5, <1>6, <1>7

--------------------------------------------------------------------------------
(* Type correctness *)

Value   == Nat \union {None}
CmdId   == Id \union {Key(i) : i \in Id}
Phase   == {"off", "starting", "running", "stopping", "stuck"}
Step    == {"load", "recover", "handle", "tick", "publish", "store", "commit"}

CommandType   == [name : ParticipantCmd \union TransferCmd, id : CmdId]
StateEvent    == [name : StateEventName, id : Id, value : Nat]
SnapshotEvent == [name : {"ParticipantStateSnapshotEvt"}, id : Id, value : Nat]
CounterType   == [left : {n \in Int : n <= MaxEvents}, last : {"never", "recent", "old"}]
Counters      == UNION {[D -> CounterType] : D \in SUBSET CmdId}

FaultsOK  == /\ setting \in Settings
             /\ faults \in [count : 0..setting.faults, kinds : SUBSET setting.failures]
ProcessOK == process \in [phase : Phase, open : SUBSET (Handlers \X Resource),
                          api : BOOLEAN, stops : 0..setting.stops]
RepoOK ==
    /\ memory \in [Proc -> [Id -> Value]]
    /\ redis \in [Id -> Value]
    /\ known \in [Proc \union {"redis"} -> SUBSET Id]
    /\ owner \in Proc
    /\ root \in Value

\* Only the operator asks for something of what no participant has.
CommandsOK ==
    /\ asked \in 0..Len(setting.requests)
    /\ commands \in Seq(CommandType)
    /\ \A k \in 1..Len(commands) :
          commands[k].name # "SnapshotParticipantStateCmd" => commands[k].id \in Id
TopicsOK == events \in Seq(StateEvent) /\ snapshots \in Seq(SnapshotEvent)

\* There is an answer from the ruling to the commit, and it has the state that is
\* stored.
Decided(e) == e \in StateEvent \union SnapshotEvent /\ e.id = Cmd.id /\ e.value = root
HandOK ==
    /\ step \in Step
    /\ commands = <<>> => step = "load"
    /\ step = "load" => root = None
    /\ step \in {"load", "recover"} => answer = NoEvent
    /\ step = "handle" =>
          /\ Cmd.id \notin Id => root = None
          /\ answer # NoEvent => answer = Event("recovered", Cmd.id, None) /\ root # None
    /\ step = "tick" => answer = NoEvent \/ Decided(answer)
    /\ step \in {"publish", "store"} => Decided(answer)
    /\ step \in {"tick", "publish", "store"} => root # None /\ Cmd.id \in Id

\* What is not up has nothing to publish.
OperatorOK ==
    /\ up \in BOOLEAN
    /\ counters \in Counters /\ saved \in Counters
    /\ ticks \in 0..MaxPending
    /\ batches \in Seq((SUBSET CmdId) \ {{}})
    /\ ~up => batches = <<>>
    /\ heard \in [events : 0..Len(events), snapshots : 0..Len(snapshots)]
    /\ since \in [Id -> Nat]
    /\ hours \in 0..setting.hours
ReadOK == docs \in [Id -> Seq(Nat)] /\ read \in 0..Len(events)

TypeInv == FaultsOK /\ ProcessOK /\ RepoOK /\ CommandsOK /\ TopicsOK /\ HandOK /\ OperatorOK /\ ReadOK

LEMMA SettingFacts ==
    ASSUME NEW s \in Settings
    PROVE  /\ s.application \in {"participants", "transfers", "simulator", "adapter"}
           /\ s.started \in BOOLEAN
           /\ s.disableApi \in BOOLEAN
           /\ s.stops \in Nat /\ s.hours \in Nat /\ s.faults \in Nat
           /\ s.requests \in Seq([name : ParticipantCmd \union TransferCmd, id : Id])
           /\ Len(s.requests) \in Nat
           /\ \A k \in 1..Len(s.requests) : s.requests[k] \in CommandType /\ s.requests[k].id \in Id
  <1>1. s \in Setting
    BY RepositoriesAssumption DEF RepositoriesAssumption
  <1>2. s.requests \in Seq([name : ParticipantCmd \union TransferCmd, id : Id])
    BY <1>1 DEF Setting
  <1>3. \A k \in 1..Len(s.requests) : s.requests[k] \in [name : ParticipantCmd \union TransferCmd, id : Id]
    <2>1. PICK r, T : r = s.requests /\ T = [name : ParticipantCmd \union TransferCmd, id : Id]
      OBVIOUS
    <2>2. r \in Seq(T)
      BY <1>2, <2>1
    <2>3. \A k \in 1..Len(r) : r[k] \in T
      BY <2>2
    <2> QED
      BY <2>1, <2>3
  <1>4. Len(s.requests) \in Nat
    <2>1. PICK r, T : r = s.requests /\ T = [name : ParticipantCmd \union TransferCmd, id : Id]
      OBVIOUS
    <2>2. r \in Seq(T)
      BY <1>2, <2>1
    <2> QED
      BY <2>1, <2>2
  <1>5. \A k \in 1..Len(s.requests) : s.requests[k] \in CommandType /\ s.requests[k].id \in Id
    BY <1>3 DEF CommandType, CmdId
  <1>6. /\ s.application \in {"participants", "transfers", "simulator", "adapter"}
        /\ s.started \in BOOLEAN
        /\ s.disableApi \in BOOLEAN
        /\ s.stops \in Nat /\ s.hours \in Nat /\ s.faults \in Nat
    BY <1>1 DEF Setting
  <1> QED
    BY <1>2, <1>4, <1>5, <1>6

LEMMA ConstantFacts ==
    /\ MaxEvents \in Nat \ {0} /\ MaxPending \in Nat \ {0}
    /\ IsFiniteSet(Id) /\ Proc # {} /\ "redis" \notin Proc
    /\ None \in Value /\ None \notin Nat /\ Value \subseteq Int /\ 0 \in Value
    /\ NothingRemembered \in [Id -> Value]
    /\ NoEvent = [name |-> "none", id |-> "none", value |-> None]
  BY RepositoriesAssumption
     DEF RepositoriesAssumption, Value, None, NothingRemembered, NoEvent, Event

LEMMA TypesFollow == TypeInv => TypeOK
  <1> SUFFICES ASSUME TypeInv PROVE TypeOK
    OBVIOUS
  <1> USE DEF TypeInv
  <1>1. ProcessTypeOK
    BY DEF FaultsOK, ProcessOK, ProcessTypeOK, Phase
  <1>2. RepoTypeOK
    <2>1. Value \subseteq Int
      BY ConstantFacts
    <2> QED
      BY <2>1 DEF RepoOK, RepoTypeOK
  <1>3. HandlerTypeOK
    <2>1. DOMAIN commands = 1..Len(commands) /\ \A k \in 1..Len(commands) : commands[k] \in CommandType
      BY DEF CommandsOK
    <2>2. DOMAIN events = 1..Len(events) /\ \A k \in 1..Len(events) : events[k] \in StateEvent
      BY DEF TopicsOK
    <2>3. /\ DOMAIN snapshots = 1..Len(snapshots)
          /\ \A k \in 1..Len(snapshots) : snapshots[k] \in SnapshotEvent
      BY DEF TopicsOK
    <2> QED
      BY <2>1, <2>2, <2>3
         DEF HandlerTypeOK, CommandsOK, HandOK, Step, CommandType, CmdId, StateEvent, SnapshotEvent
  <1>4. OperatorTypeOK
    <2>1. ASSUME NEW c \in Counters
          PROVE  /\ DOMAIN c \subseteq CmdId
                 /\ \A id \in DOMAIN c : c[id] \in CounterType
      BY DEF Counters
    <2>2. \A k \in DOMAIN batches : batches[k] # {}
      BY DEF OperatorOK
    <2> QED
      BY <2>1, <2>2 DEF OperatorOK, OperatorTypeOK, CmdId, CounterType
  <1>5. ReadTypeOK
    BY DEF ReadOK, ReadTypeOK
  <1> QED
    BY <1>1, <1>2, <1>3, <1>4, <1>5 DEF TypeOK

\* What every step of a handler leaves to the others.
MayFail == UNCHANGED faults \/ \E kind : Fails(kind)
Leaves  == /\ setting' = setting /\ process' = process /\ MayFail
           /\ Len(events) <= Len(events') /\ Len(snapshots) <= Len(snapshots')

HandlerOK == RepoOK /\ CommandsOK /\ TopicsOK /\ HandOK

LEMMA FaultsStep ==
    ASSUME FaultsOK, setting' = setting, MayFail
    PROVE  FaultsOK'
  <1>1. setting.faults \in Nat
    BY SettingFacts DEF FaultsOK
  <1>2. CASE UNCHANGED faults
    BY <1>2 DEF FaultsOK
  <1>3. CASE \E kind : Fails(kind)
    <2>1. PICK kind : Fails(kind)
      BY <1>3
    <2>2. faults.count \in 0..setting.faults /\ faults.kinds \subseteq setting.failures
      BY DEF FaultsOK
    <2>3. /\ faults.count + 1 \in 0..setting.faults
          /\ faults.kinds \union {kind} \subseteq setting.failures
          /\ faults' = [count |-> faults.count + 1, kinds |-> faults.kinds \union {kind}]
      BY <1>1, <2>1, <2>2 DEF Fails
    <2> QED
      BY <2>3 DEF FaultsOK
  <1> QED
    BY <1>2, <1>3 DEF MayFail

LEMMA HandlersFixed ==
    ASSUME setting' = setting
    PROVE  InOrder' = InOrder /\ Handlers' = Handlers /\ ToOpen' = ToOpen
  <1>1. InOrder' = InOrder
    BY DEF InOrder, IsParticipants, IsAdapter
  <1>2. \A h : Runs(h)' = Runs(h)
    BY DEF Runs
  <1>3. Handlers' = Handlers
    BY <1>1, <1>2, Zenon DEF Handlers
  <1>4. \A h : StartOf(h)' = StartOf(h)
    BY DEF StartOf
  <1>5. ToOpen' = ToOpen
    BY <1>3, <1>4, Zenon DEF ToOpen
  <1> QED
    BY <1>1, <1>3, <1>5

LEMMA LoadTyped ==
    ASSUME RepoOK, NEW id \in Id, Load(id)
    PROVE  root' \in Value /\ memory' \in [Proc -> [Id -> Value]]
  <1>1. InMemory(id) \in Value /\ redis[id] \in Value
    BY DEF RepoOK, InMemory
  <1>2. CASE FromMemory(id)
    BY <1>1, <1>2 DEF FromMemory, RepoOK
  <1>3. CASE FromRedis(id)
    BY <1>1, <1>3 DEF FromRedis, RepoOK
  <1>4. CASE FromEither(id) /\ ~FromMemory(id)
    <2>1. root' = redis[id] /\ memory' = [memory EXCEPT ![owner][id] = redis[id]]
      BY <1>4 DEF FromEither, Remember
    <2> QED
      BY <1>1, <2>1 DEF RepoOK
  <1> QED
    BY <1>2, <1>3, <1>4
       DEF Load, InMemoryParticipantLoad, RedisParticipantLoad, CachedRedisParticipantLoad,
           CachedPersistedRedisParticipantLoad, InMemoryTransferLoad, NodeCacheTransferLoad,
           RedisTransferLoad, CachedRedisTransferLoad, CachedPersistedRedisTransferLoad

\* Whatever a repository is, storing changes nothing but what is kept of id, in the
\* process's memory and in redis.
Stored(id, v) ==
    /\ memory' = memory \/ Remember(id, v)
    /\ redis' = redis \/ Persist(id, v)
    /\ MayFail

LEMMA StoreIs ==
    ASSUME NEW id, NEW v, ParticipantStore(id, v) \/ TransferStore(id, v)
    PROVE  Stored(id, v)
  <1>1. ASSUME RedisSet(id, v) PROVE (redis' = redis \/ Persist(id, v)) /\ MayFail
    BY <1>1 DEF RedisSet, MayFail
  <1>2. ASSUME MemoryOnly(id, v) PROVE Stored(id, v)
    BY <1>2 DEF MemoryOnly, Stored, MayFail
  <1>3. CASE ParticipantStore(id, v)
    BY <1>1, <1>2, <1>3
       DEF ParticipantStore, InMemoryParticipantStore, RedisParticipantStore,
           CachedRedisParticipantStore, CachedPersistedRedisParticipantStore, Stored, MayFail
  <1>4. CASE TransferStore(id, v)
    BY <1>1, <1>2, <1>4
       DEF TransferStore, InMemoryTransferStore, NodeCacheTransferStore, RedisTransferStore,
           CachedRedisTransferStore, CachedPersistedRedisTransferStore, Stored, MayFail
  <1> QED
    BY <1>3, <1>4

LEMMA StoreTyped ==
    ASSUME RepoOK, NEW id \in Id, NEW v \in Value, ParticipantStore(id, v) \/ TransferStore(id, v),
           UNCHANGED <<known, owner, root>>
    PROVE  RepoOK' /\ MayFail
  <1>1. Stored(id, v)
    BY StoreIs
  <1>2. memory' \in [Proc -> [Id -> Value]]
    BY <1>1 DEF Stored, Remember, RepoOK
  <1>3. redis' \in [Id -> Value]
    BY <1>1 DEF Stored, Persist, RepoOK
  <1> QED
    BY <1>1, <1>2, <1>3 DEF Stored, RepoOK

LEMMA FetchedIs ==
    ASSUME NEW S, NEW topic \in Seq(S), NEW id, NEW Own, Own = {m \in S : m.id = id},
           NEW f, f \in FetchAll(topic, id) \/ f \in FetchCut(topic, id)
    PROVE  /\ f \in Seq(Own)
           /\ f \in FetchAll(topic, id) /\ f = <<>> => \A k \in 1..Len(topic) : topic[k].id # id
           /\ f # <<>> => \E k \in 1..Len(topic) : topic[k].id = id
  <1>1. PICK all, T : all = Of(topic, id) /\ T = Own
    OBVIOUS
  <1>2. all \in Seq(T) /\ Len(all) \in Nat
    <2>1. all \in Seq(T)
      BY <1>1, OfMembers
    <2> QED
      BY <2>1
  <1>3. all = <<>> <=> \A k \in 1..Len(topic) : topic[k].id # id
    BY <1>1, OfMembers
  <1>4. CASE f \in FetchAll(topic, id)
    BY <1>1, <1>2, <1>3, <1>4 DEF FetchAll
  <1>5. CASE f \in FetchCut(topic, id) /\ f # all
    <2>1. PICK n \in 0..Len(all) : f = SubSeq(all, 1, n)
      BY <1>1, <1>5 DEF FetchCut
    <2>2. f \in Seq(T)
      <3>1. \A k \in 1..n : all[k] \in T
        BY <1>2, <2>1
      <3> QED
        BY <1>2, <2>1, <3>1
    <2>3. f # <<>> => all # <<>>
      <3>1. all = <<>> => n = 0
        BY <2>1
      <3> QED
        BY <2>1, <3>1
    <2>4. f \notin FetchAll(topic, id)
      BY <1>1, <1>5 DEF FetchAll
    <2> QED
      BY <1>1, <1>3, <2>2, <2>3, <2>4
  <1> QED
    BY <1>1, <1>4, <1>5 DEF FetchAll

\* What is recovered is the value of some message of id; of none, if there is none.
LEMMA RecoveredIs ==
    ASSUME TopicsOK, NEW id,
           NEW s \in FetchAll(snapshots, id) \union FetchCut(snapshots, id),
           NEW e \in FetchAll(events, id) \union FetchCut(events, id),
           NEW v, v = Replay(FetchLast(s), e)
    PROVE  /\ v \in Value
           /\ v # None => id \in Id /\ \/ \E k \in 1..Len(events) : events[k].id = id
                                       \/ \E k \in 1..Len(snapshots) : snapshots[k].id = id
           /\ v = None /\ e \in FetchAll(events, id) => \A k \in 1..Len(events) : events[k].id # id
  <1> DEFINE M == {m \in StateEvent \union SnapshotEvent : m.id = id}
  <1>1. s \in Seq(M) /\ (s # <<>> => \E k \in 1..Len(snapshots) : snapshots[k].id = id)
    <2>1. PICK T, topic, S : /\ topic = snapshots /\ S = SnapshotEvent
                               /\ T = {m \in S : m.id = id}
      OBVIOUS
    <2>2. s \in Seq(T) /\ (s # <<>> => \E k \in 1..Len(snapshots) : snapshots[k].id = id)
      <3>1. topic \in Seq(S) /\ (s \in FetchAll(topic, id) \/ s \in FetchCut(topic, id))
        BY <2>1 DEF TopicsOK
      <3>2. /\ s \in Seq(T)
            /\ s # <<>> => \E k \in 1..Len(topic) : topic[k].id = id
            /\ s \in FetchAll(topic, id) /\ s = <<>> => \A k \in 1..Len(topic) : topic[k].id # id
        BY <2>1, <3>1, FetchedIs
      <3> QED
        BY <2>1, <3>2
    <2>3. T \subseteq M
      BY <2>1
    <2> HIDE DEF M
    <2> QED
      BY <2>2, <2>3
  <1>2. /\ e \in Seq(M)
        /\ e # <<>> => \E k \in 1..Len(events) : events[k].id = id
        /\ e \in FetchAll(events, id) /\ e = <<>> => \A k \in 1..Len(events) : events[k].id # id
    <2>1. PICK T, topic, S : /\ topic = events /\ S = StateEvent
                               /\ T = {m \in S : m.id = id}
      OBVIOUS
    <2>2. /\ e \in Seq(T)
          /\ e # <<>> => \E k \in 1..Len(events) : events[k].id = id
          /\ e \in FetchAll(events, id) /\ e = <<>> => \A k \in 1..Len(events) : events[k].id # id
      <3>1. topic \in Seq(S) /\ (e \in FetchAll(topic, id) \/ e \in FetchCut(topic, id))
        BY <2>1 DEF TopicsOK
      <3>2. /\ e \in Seq(T)
            /\ e # <<>> => \E k \in 1..Len(topic) : topic[k].id = id
            /\ e \in FetchAll(topic, id) /\ e = <<>> => \A k \in 1..Len(topic) : topic[k].id # id
        BY <2>1, <3>1, FetchedIs
      <3> QED
        BY <2>1, <3>2
    <2>3. T \subseteq M
      BY <2>1
    <2> HIDE DEF M
    <2> QED
      BY <2>2, <2>3
  <1>3. \A m \in M : m.value \in Nat /\ m.id = id /\ id \in Id
    BY DEF StateEvent, SnapshotEvent
  <1> HIDE DEF M
  <1>4. PICK f : f = FetchLast(s)
    OBVIOUS
  <1>5. f \in Seq(M) /\ (f # <<>> => s # <<>>)
    <2>1. CASE s = <<>>
      BY <1>4, <2>1 DEF FetchLast
    <2>2. CASE s # <<>>
      <3>1. f = SubSeq(s, 1, 1) /\ Len(s) \in Nat /\ Len(s) # 0 /\ s[1] \in M
        BY <1>1, <1>4, <2>2 DEF FetchLast
      <3>2. f \in Seq(M)
        BY <1>1, <3>1
      <3> QED
        BY <2>2, <3>2
    <2> QED
      BY <2>1, <2>2
  <1>6. v = IF e # <<>> THEN e[Len(e)].value ELSE IF f # <<>> THEN f[Len(f)].value ELSE None
    BY <1>2, <1>4, <1>5, ReplayIs
  <1>7. e # <<>> => e[Len(e)] \in M
    BY <1>2
  <1>8. f # <<>> => f[Len(f)] \in M
    BY <1>5
  <1>9. None \notin Nat /\ None \in Value /\ Nat \subseteq Value
    BY ConstantFacts DEF Value
  <1> QED
    BY <1>1, <1>2, <1>3, <1>5, <1>6, <1>7, <1>8, <1>9

LEMMA CmdIs ==
    ASSUME CommandsOK, commands # <<>>
    PROVE  /\ Cmd = commands[1] /\ Cmd \in CommandType
           /\ Cmd.id \in CmdId
           /\ Cmd.name # "SnapshotParticipantStateCmd" => Cmd.id \in Id
  <1>1. Len(commands) \in Nat /\ Len(commands) # 0
    BY DEF CommandsOK
  <1>2. Cmd = commands[1] /\ 1 \in 1..Len(commands)
    BY <1>1 DEF Cmd
  <1>3. commands[1] \in CommandType
    BY <1>2 DEF CommandsOK
  <1> QED
    BY <1>2, <1>3 DEF CommandsOK, CommandType

LEMMA NothingSaid ==
    ASSUME TopicsOK, UNCHANGED <<setting, process, events, snapshots>>, MayFail
    PROVE  TopicsOK' /\ Leaves
  BY DEF TopicsOK, Leaves

LEMMA LoadRootTyped == HandlerOK /\ LoadRoot => HandlerOK' /\ Leaves
  <1> SUFFICES ASSUME HandlerOK, LoadRoot PROVE HandlerOK' /\ Leaves
    OBVIOUS
  <1> USE DEF HandlerOK
  <1>1. commands # <<>> /\ step = "load" /\ root = None /\ answer = NoEvent
    BY DEF LoadRoot, At, HandOK
  <1>2. UNCHANGED <<setting, process, redis, known, owner, faults, asked, commands, answer,
                    events, snapshots>>
    BY DEF LoadRoot
  <1>3. root' \in Value /\ memory' \in [Proc -> [Id -> Value]] /\ (Cmd.id \notin Id => root' = None)
    <2>1. CASE Cmd.id \in Id /\ Load(Cmd.id)
      BY <2>1, LoadTyped
    <2>2. CASE Cmd.id \notin Id /\ root' = None /\ UNCHANGED memory
      BY <2>2, ConstantFacts DEF RepoOK
    <2> QED
      BY <2>1, <2>2 DEF LoadRoot
  <1>4. step' = "recover" \/ step' = "handle"
    BY DEF LoadRoot
  <1>5. RepoOK'
    BY <1>2, <1>3 DEF RepoOK
  <1>6. CommandsOK'
    BY <1>2 DEF CommandsOK
  <1>7. Cmd' = Cmd
    BY <1>2 DEF Cmd
  <1>8. HandOK'
    BY <1>1, <1>2, <1>3, <1>4, <1>7 DEF HandOK, Step
  <1> QED
    BY <1>2, <1>5, <1>6, <1>8, NothingSaid DEF MayFail

LEMMA RecoverTyped == HandlerOK /\ Recover => HandlerOK' /\ Leaves
  <1> SUFFICES ASSUME HandlerOK, Recover PROVE HandlerOK' /\ Leaves
    OBVIOUS
  <1> USE DEF HandlerOK
  <1>1. commands # <<>> /\ step = "recover" /\ answer = NoEvent
    BY DEF Recover, At, HandOK
  <1>2. PICK s \in FetchAll(snapshots, Cmd.id) \union FetchCut(snapshots, Cmd.id),
             e \in FetchAll(events, Cmd.id) \union FetchCut(events, Cmd.id) : Recovered(s, e)
    BY Zenon DEF Recover
  <1>3. /\ root' = Replay(FetchLast(s), e) /\ step' = "handle"
        /\ UNCHANGED <<setting, process, memory, redis, known, owner, asked, commands,
                       events, snapshots>>
    BY <1>2 DEF Recovered
  <1>4. root' \in Value /\ (root' # None => Cmd.id \in Id)
    <2>1. PICK v, id : v = root' /\ id = Cmd.id
      OBVIOUS
    <2>2. v \in Value /\ (v # None => id \in Id)
      BY <1>2, <1>3, <2>1, RecoveredIs
    <2> QED
      BY <2>1, <2>2
  <1>5. MayFail
    BY DEF Recover, MayFail
  <1>6. RepoOK'
    BY <1>3, <1>4 DEF RepoOK
  <1>7. CommandsOK' /\ Cmd' = Cmd
    BY <1>3 DEF CommandsOK, Cmd
  <1>8. answer' = IF root' = None THEN NoEvent ELSE Event("recovered", Cmd.id, None)
    BY DEF Recover, Recovering
  <1>9. HandOK'
    BY <1>1, <1>3, <1>4, <1>7, <1>8 DEF HandOK, Step
  <1> QED
    BY <1>3, <1>5, <1>6, <1>7, <1>9, NothingSaid

KnownOK == known \in [Proc \union {"redis"} -> SUBSET Id]

LEMMA AnsweredTyped ==
    ASSUME HandlerOK, NEW evt \in StateEvent \union SnapshotEvent, Changed(evt) \/ Made(evt),
           evt.id = Cmd.id, Cmd.id \in Id, commands # <<>>, KnownOK'
    PROVE  HandlerOK' /\ Leaves
  <1> USE DEF HandlerOK
  <1>1. Published(evt, evt.value)
    BY DEF Changed, Made
  <1>2. /\ root' = evt.value /\ answer' = evt /\ (step' = "tick" \/ step' = "publish")
        /\ UNCHANGED <<setting, process, redis, owner, faults, asked, commands, events, snapshots>>
    BY <1>1 DEF Published
  <1>3. evt.value \in Nat /\ evt.value \in Value /\ evt.value # None
    BY ConstantFacts DEF StateEvent, SnapshotEvent, Value
  <1>4. memory' \in [Proc -> [Id -> Value]]
    <2>1. CASE UNCHANGED memory
      BY <2>1 DEF RepoOK
    <2>2. CASE Remember(evt.id, evt.value)
      BY <1>3, <2>2 DEF Remember, RepoOK
    <2> QED
      BY <2>1, <2>2 DEF Changed, Made
  <1>5. RepoOK'
    BY <1>2, <1>3, <1>4 DEF RepoOK, KnownOK
  <1>6. CommandsOK' /\ Cmd' = Cmd
    BY <1>2 DEF CommandsOK, Cmd
  <1>7. HandOK'
    BY <1>2, <1>3, <1>6 DEF HandOK, Step, Decided
  <1> QED
    BY <1>2, <1>5, <1>6, <1>7, NothingSaid DEF MayFail

LEMMA RefusedTyped ==
    ASSUME HandlerOK, Refused, commands # <<>>, step \in {"load", "handle"}, KnownOK'
    PROVE  HandlerOK' /\ Leaves
  <1> USE DEF HandlerOK
  <1>1. /\ answer' = NoEvent
        /\ step' = IF answer.name = "recovered" THEN "tick" ELSE "commit"
        /\ UNCHANGED <<setting, process, memory, redis, owner, root, faults, asked, commands,
                       events, snapshots>>
    BY DEF Refused
  <1>2. answer.name = "recovered" => root # None /\ Cmd.id \in Id
    BY ConstantFacts DEF HandOK
  <1>3. RepoOK'
    BY <1>1 DEF RepoOK, KnownOK
  <1>4. CommandsOK' /\ Cmd' = Cmd
    BY <1>1 DEF CommandsOK, Cmd
  <1>5. HandOK'
    BY <1>1, <1>2, <1>4 DEF HandOK, Step
  <1> QED
    BY <1>1, <1>3, <1>4, <1>5, NothingSaid DEF MayFail

\* The state events a ruling may answer with are what they should be.
LEMMA AnswersTyped ==
    ASSUME NEW id \in Id, NEW v \in Nat
    PROVE  /\ ParticipantCreatedStateEvt(id, v) \in StateEvent
           /\ ParticipantPositionChangedStateEvt(id, v) \in StateEvent
           /\ ParticipantStateSnapshotEvt(id, v) \in SnapshotEvent
           /\ TransferPreparedStateEvt(id, v) \in StateEvent
           /\ TransferStateChangedStateEvt(id, v) \in StateEvent
           /\ TransferFulfiledStateEvt(id, v) \in StateEvent
           /\ ParticipantCreatedStateEvt(id, v).id = id
           /\ ParticipantPositionChangedStateEvt(id, v).id = id
           /\ ParticipantStateSnapshotEvt(id, v).id = id
           /\ TransferPreparedStateEvt(id, v).id = id
           /\ TransferStateChangedStateEvt(id, v).id = id
           /\ TransferFulfiledStateEvt(id, v).id = id
  BY DEF ParticipantCreatedStateEvt, ParticipantPositionChangedStateEvt,
         ParticipantStateSnapshotEvt, TransferPreparedStateEvt, TransferStateChangedStateEvt,
         TransferFulfiledStateEvt, Event, StateEvent, SnapshotEvent, StateEventName

Ruling == \/ CreateParticipant \/ ChangePosition \/ SnapshotParticipant
          \/ PrepareTransfer \/ AckPayerFundsReserved \/ FulfilTransfer \/ AckPayeeFundsCommitted

\* A ruling refuses the command, or answers it with an event about its aggregate; it
\* makes an aggregate only where it found none.
LEMMA RulingIs ==
    ASSUME HandlerOK, Ruling
    PROVE  /\ commands # <<>> /\ step \in {"load", "handle"}
           /\ KnownOK'
           /\ \/ Refused
              \/ \E evt \in StateEvent \union SnapshotEvent :
                    /\ evt.id = Cmd.id /\ Cmd.id \in Id
                    /\ \/ Changed(evt) /\ root # None /\ evt.name \notin
                             {"ParticipantCreatedStateEvt", "TransferPreparedStateEvt"}
                       \/ Made(evt) /\ root = None
  <1> USE DEF HandlerOK
  <1>0. KnownOK /\ root \in Value
    BY DEF RepoOK, KnownOK
  <1>1. root # None => root \in Nat /\ root + 1 \in Nat
    BY <1>0 DEF Value
  <1>2. step = "handle" /\ root # None => Cmd.id \in Id
    BY DEF HandOK
  <1>3. RECEIVED_PREPARE \in Nat /\ RESERVED \in Nat /\ RECEIVED_FULFIL \in Nat /\ COMMITTED \in Nat
        /\ None \notin {RECEIVED_PREPARE, RESERVED, RECEIVED_FULFIL}
    BY DEF RECEIVED_PREPARE, RESERVED, RECEIVED_FULFIL, COMMITTED, None
  <1>4. CASE CreateParticipant
    <2>1. /\ commands # <<>> /\ step = "handle" /\ Cmd.name = "CreateParticipantCmd"
          /\ known' = known
      BY <1>4 DEF CreateParticipant, At
    <2>2. Cmd.id \in Id
      BY <2>1, CmdIs
    <2>3. CASE root = None /\ Made(ParticipantCreatedStateEvt(Cmd.id, 0))
      BY <1>0, <2>1, <2>2, <2>3, AnswersTyped DEF KnownOK
    <2> QED
      BY <1>0, <1>4, <2>1, <2>3 DEF CreateParticipant, KnownOK
  <1>5. CASE ChangePosition
    <2>1. commands # <<>> /\ step = "handle" /\ known' = known
      BY <1>5 DEF ChangePosition, At
    <2>2. CASE root # None /\ Changed(ParticipantPositionChangedStateEvt(Cmd.id, root + 1))
      <3>1. ParticipantPositionChangedStateEvt(Cmd.id, root + 1) \in StateEvent
            /\ ParticipantPositionChangedStateEvt(Cmd.id, root + 1).id = Cmd.id
        BY <1>1, <1>2, <2>1, <2>2, AnswersTyped
      <3>2. ParticipantPositionChangedStateEvt(Cmd.id, root + 1).name
                = "ParticipantPositionChangedStateEvt"
        BY DEF ParticipantPositionChangedStateEvt, Event
      <3> QED
        BY <1>0, <1>2, <2>1, <2>2, <3>1, <3>2 DEF KnownOK
    <2> QED
      BY <1>0, <1>5, <2>1, <2>2 DEF ChangePosition, KnownOK
  <1>6. CASE SnapshotParticipant
    <2>1. commands # <<>> /\ step = "handle" /\ known' = known
      BY <1>6 DEF SnapshotParticipant, At
    <2>2. CASE root # None /\ Changed(ParticipantStateSnapshotEvt(Cmd.id, root))
      <3>1. ParticipantStateSnapshotEvt(Cmd.id, root) \in SnapshotEvent
            /\ ParticipantStateSnapshotEvt(Cmd.id, root).id = Cmd.id
        BY <1>1, <1>2, <2>1, <2>2, AnswersTyped
      <3>2. ParticipantStateSnapshotEvt(Cmd.id, root).name = "ParticipantStateSnapshotEvt"
        BY DEF ParticipantStateSnapshotEvt, Event
      <3> QED
        BY <1>0, <1>2, <2>1, <2>2, <3>1, <3>2 DEF KnownOK
    <2> QED
      BY <1>0, <1>6, <2>1, <2>2 DEF SnapshotParticipant, KnownOK
  <1>7. CASE PrepareTransfer
    <2>1. commands # <<>> /\ step = "load" /\ Cmd.name = "PrepareTransferCmd"
      BY <1>7 DEF PrepareTransfer, At
    <2>2. Cmd.id \in Id /\ root = None
      BY <2>1, CmdIs DEF HandOK
    <2>3. PICK new \in BOOLEAN : /\ AddId(Cmd.id, new)
                                 /\ \/ ~new /\ Refused
                                    \/ new /\ Made(TransferPreparedStateEvt(Cmd.id, RECEIVED_PREPARE))
      BY <1>7 DEF PrepareTransfer
    <2>4. KnownOK'
      BY <1>0, <2>2, <2>3 DEF AddId, RedisAdd, ShardedAdd, InMemoryAdd, KnownOK, RepoOK
    <2>5. CASE Made(TransferPreparedStateEvt(Cmd.id, RECEIVED_PREPARE))
      BY <1>3, <2>1, <2>2, <2>4, <2>5, AnswersTyped
    <2> QED
      BY <2>1, <2>3, <2>4, <2>5
  <1>8. ASSUME NEW evt \in StateEvent, evt.id = Cmd.id, step = "handle", commands # <<>>,
               known' = known, root # None, Changed(evt),
               evt.name \in {"TransferStateChangedStateEvt", "TransferFulfiledStateEvt"}
        PROVE  /\ commands # <<>> /\ step \in {"load", "handle"}
               /\ KnownOK'
               /\ \/ Refused
                  \/ \E e \in StateEvent \union SnapshotEvent :
                        /\ e.id = Cmd.id /\ Cmd.id \in Id
                        /\ \/ Changed(e) /\ root # None /\ e.name \notin
                                 {"ParticipantCreatedStateEvt", "TransferPreparedStateEvt"}
                           \/ Made(e) /\ root = None
    BY <1>0, <1>2, <1>8 DEF KnownOK
  <1>9. CASE AckPayerFundsReserved
    <2>1. commands # <<>> /\ step = "handle" /\ known' = known
      BY <1>9 DEF AckPayerFundsReserved, At
    <2>2. CASE root = RECEIVED_PREPARE /\ Changed(TransferStateChangedStateEvt(Cmd.id, RESERVED))
      <3>1. PICK evt : evt = TransferStateChangedStateEvt(Cmd.id, RESERVED)
        OBVIOUS
      <3>2. root # None /\ Cmd.id \in Id
        BY <1>2, <1>3, <2>1, <2>2
      <3>3. evt \in StateEvent /\ evt.id = Cmd.id
        BY <1>3, <3>1, <3>2, AnswersTyped
      <3>4. evt.name = "TransferStateChangedStateEvt"
        BY <3>1 DEF TransferStateChangedStateEvt, Event
      <3>5. Changed(evt)
        BY <2>2, <3>1
      <3> QED
        BY <1>8, <2>1, <3>2, <3>3, <3>4, <3>5
    <2> QED
      BY <1>0, <1>9, <2>1, <2>2 DEF AckPayerFundsReserved, KnownOK
  <1>10. CASE FulfilTransfer
    <2>1. commands # <<>> /\ step = "handle" /\ known' = known
      BY <1>10 DEF FulfilTransfer, At
    <2>2. CASE root = RESERVED /\ Changed(TransferFulfiledStateEvt(Cmd.id, RECEIVED_FULFIL))
      <3>1. PICK evt : evt = TransferFulfiledStateEvt(Cmd.id, RECEIVED_FULFIL)
        OBVIOUS
      <3>2. root # None /\ Cmd.id \in Id
        BY <1>2, <1>3, <2>1, <2>2
      <3>3. evt \in StateEvent /\ evt.id = Cmd.id
        BY <1>3, <3>1, <3>2, AnswersTyped
      <3>4. evt.name = "TransferFulfiledStateEvt"
        BY <3>1 DEF TransferFulfiledStateEvt, Event
      <3>5. Changed(evt)
        BY <2>2, <3>1
      <3> QED
        BY <1>8, <2>1, <3>2, <3>3, <3>4, <3>5
    <2> QED
      BY <1>0, <1>10, <2>1, <2>2 DEF FulfilTransfer, KnownOK
  <1>11. CASE AckPayeeFundsCommitted
    <2>1. commands # <<>> /\ step = "handle" /\ known' = known
      BY <1>11 DEF AckPayeeFundsCommitted, At
    <2>2. CASE root = RECEIVED_FULFIL /\ Changed(TransferStateChangedStateEvt(Cmd.id, COMMITTED))
      <3>1. PICK evt : evt = TransferStateChangedStateEvt(Cmd.id, COMMITTED)
        OBVIOUS
      <3>2. root # None /\ Cmd.id \in Id
        BY <1>2, <1>3, <2>1, <2>2
      <3>3. evt \in StateEvent /\ evt.id = Cmd.id
        BY <1>3, <3>1, <3>2, AnswersTyped
      <3>4. evt.name = "TransferStateChangedStateEvt"
        BY <3>1 DEF TransferStateChangedStateEvt, Event
      <3>5. Changed(evt)
        BY <2>2, <3>1
      <3> QED
        BY <1>8, <2>1, <3>2, <3>3, <3>4, <3>5
    <2> QED
      BY <1>0, <1>11, <2>1, <2>2 DEF AckPayeeFundsCommitted, KnownOK
  <1> QED
    BY <1>4, <1>5, <1>6, <1>7, <1>9, <1>10, <1>11 DEF Ruling

LEMMA RulingTyped == HandlerOK /\ Ruling => HandlerOK' /\ Leaves
  <1> SUFFICES ASSUME HandlerOK, Ruling PROVE HandlerOK' /\ Leaves
    OBVIOUS
  <1>1. commands # <<>> /\ step \in {"load", "handle"} /\ KnownOK'
    BY RulingIs
  <1>2. CASE Refused
    BY <1>1, <1>2, RefusedTyped
  <1>3. CASE ~Refused
    <2>1. PICK evt \in StateEvent \union SnapshotEvent :
             evt.id = Cmd.id /\ Cmd.id \in Id /\ (Changed(evt) \/ Made(evt))
      BY <1>3, RulingIs
    <2> QED
      BY <1>1, <2>1, AnsweredTyped
  <1> QED
    BY <1>2, <1>3

LEMMA NextTickTyped == HandlerOK /\ NextTick => HandlerOK' /\ Leaves
  <1> SUFFICES ASSUME HandlerOK, NextTick PROVE HandlerOK' /\ Leaves
    OBVIOUS
  <1> USE DEF HandlerOK
  <1>1. /\ commands # <<>> /\ step = "tick" /\ ParticipantStore(Cmd.id, root)
        /\ step' = IF answer = NoEvent THEN "commit" ELSE "publish"
        /\ UNCHANGED <<setting, process, known, owner, root, asked, commands, answer, events,
                       snapshots>>
    BY DEF NextTick
  <1>2. root \in Value /\ root # None /\ Cmd.id \in Id /\ (answer = NoEvent \/ Decided(answer))
    BY <1>1 DEF HandOK, RepoOK
  <1>3. RepoOK' /\ MayFail
    BY <1>1, <1>2, StoreTyped
  <1>4. CommandsOK' /\ Cmd' = Cmd
    BY <1>1 DEF CommandsOK, Cmd
  <1>5. HandOK'
    BY <1>1, <1>2, <1>4 DEF HandOK, Step, Decided
  <1> QED
    BY <1>1, <1>3, <1>4, <1>5, NothingSaid

LEMMA StoreRootTyped == HandlerOK /\ StoreRoot => HandlerOK' /\ Leaves
  <1> SUFFICES ASSUME HandlerOK, StoreRoot PROVE HandlerOK' /\ Leaves
    OBVIOUS
  <1> USE DEF HandlerOK
  <1>1. /\ commands # <<>> /\ step = "store"
        /\ ParticipantStore(Cmd.id, root) \/ TransferStore(Cmd.id, root)
        /\ step' = "commit"
        /\ UNCHANGED <<setting, process, known, owner, root, asked, commands, answer, events,
                       snapshots>>
    BY DEF StoreRoot
  <1>2. root \in Value /\ Cmd.id \in Id
    BY <1>1 DEF HandOK, RepoOK
  <1>3. RepoOK' /\ MayFail
    BY <1>1, <1>2, StoreTyped
  <1>4. CommandsOK' /\ Cmd' = Cmd
    BY <1>1 DEF CommandsOK, Cmd
  <1>5. HandOK'
    BY <1>1, <1>4 DEF HandOK, Step
  <1> QED
    BY <1>1, <1>3, <1>4, <1>5, NothingSaid

\* A topic only grows, by the event that was decided.
LEMMA PublishAnswerIs ==
    ASSUME HandlerOK, PublishAnswer
    PROVE  /\ Decided(answer) /\ Cmd.id \in Id
           /\ \/ /\ answer \in SnapshotEvent /\ answer.name = "ParticipantStateSnapshotEvt"
                 /\ snapshots' = Append(snapshots, answer) /\ events' = events
              \/ /\ answer \in StateEvent /\ answer.name # "ParticipantStateSnapshotEvt"
                 /\ events' = Append(events, answer) /\ snapshots' = snapshots
           /\ TopicsOK'
           /\ Len(events) <= Len(events') /\ Len(snapshots) <= Len(snapshots')
  <1> USE DEF HandlerOK
  <1>1. Decided(answer) /\ Cmd.id \in Id
    BY DEF PublishAnswer, HandOK
  <1>2. answer \in SnapshotEvent <=> answer.name = "ParticipantStateSnapshotEvt"
    BY <1>1 DEF Decided, SnapshotEvent, StateEvent, StateEventName
  <1>3. events \in Seq(StateEvent) /\ snapshots \in Seq(SnapshotEvent)
    BY DEF TopicsOK
  <1>4. CASE answer.name = "ParticipantStateSnapshotEvt"
    <2>1. snapshots' = Append(snapshots, answer) /\ events' = events /\ answer \in SnapshotEvent
      BY <1>2, <1>4 DEF PublishAnswer
    <2>2. snapshots' \in Seq(SnapshotEvent) /\ Len(snapshots') = Len(snapshots) + 1
      BY <1>3, <2>1, AppendProperties
    <2> QED
      BY <1>1, <1>3, <1>4, <2>1, <2>2 DEF TopicsOK
  <1>5. CASE answer.name # "ParticipantStateSnapshotEvt"
    <2>1. events' = Append(events, answer) /\ snapshots' = snapshots /\ answer \in StateEvent
      BY <1>1, <1>2, <1>5 DEF PublishAnswer, Decided
    <2>2. events' \in Seq(StateEvent) /\ Len(events') = Len(events) + 1
      BY <1>3, <2>1, AppendProperties
    <2> QED
      BY <1>1, <1>3, <1>5, <2>1, <2>2 DEF TopicsOK
  <1> QED
    BY <1>4, <1>5

LEMMA PublishTyped == HandlerOK /\ (PublishAnswer \/ PublishRefused) => HandlerOK' /\ Leaves
  <1> SUFFICES ASSUME HandlerOK, PublishAnswer \/ PublishRefused PROVE HandlerOK' /\ Leaves
    OBVIOUS
  <1> USE DEF HandlerOK
  <1>1. /\ commands # <<>> /\ step = "publish" /\ (step' = "store" \/ step' = "commit")
        /\ UNCHANGED <<repoVars, asked, commands, answer>>
    BY DEF PublishAnswer, PublishRefused
  <1>2. TopicsOK' /\ Len(events) <= Len(events') /\ Len(snapshots) <= Len(snapshots')
    <2>1. CASE PublishRefused
      BY <2>1 DEF PublishRefused, TopicsOK
    <2> QED
      BY <2>1, PublishAnswerIs
  <1>3. RepoOK'
    BY <1>1 DEF repoVars, RepoOK
  <1>4. CommandsOK' /\ Cmd' = Cmd
    BY <1>1 DEF CommandsOK, Cmd, repoVars
  <1>5. HandOK'
    BY <1>1, <1>4 DEF HandOK, Step, Decided, repoVars
  <1> QED
    BY <1>1, <1>2, <1>3, <1>4, <1>5 DEF Leaves, MayFail, repoVars

LEMMA CommitTyped == HandlerOK /\ Commit => HandlerOK' /\ Leaves
  <1> SUFFICES ASSUME HandlerOK, Commit PROVE HandlerOK' /\ Leaves
    OBVIOUS
  <1> USE DEF HandlerOK
  <1>1. /\ commands # <<>> /\ commands' = Tail(commands) /\ Fresh
        /\ UNCHANGED <<setting, process, memory, redis, known, owner, faults, asked, events,
                       snapshots>>
    BY DEF Commit
  <1>2. RepoOK'
    BY <1>1, ConstantFacts DEF RepoOK, Fresh
  <1>3. CommandsOK'
    <2>1. commands \in Seq(CommandType)
      BY DEF CommandsOK
    <2>2. /\ commands' \in Seq(CommandType) /\ Len(commands') = Len(commands) - 1
          /\ \A i \in 1..Len(commands') : commands'[i] = commands[i + 1]
          /\ Len(commands) \in Nat /\ Len(commands') \in Nat
      BY <1>1, <2>1, HeadTailProperties
    <2>3. \A i \in 1..Len(commands') : i + 1 \in 1..Len(commands)
      BY <2>2
    <2> QED
      BY <1>1, <2>2, <2>3 DEF CommandsOK
  <1>4. HandOK'
    BY <1>1 DEF HandOK, Fresh, Step
  <1> QED
    BY <1>1, <1>2, <1>3, <1>4, NothingSaid DEF MayFail

LEMMA HandleTyped == HandlerOK /\ Handle => HandlerOK' /\ Leaves
  BY LoadRootTyped, RecoverTyped, RulingTyped, NextTickTyped, PublishTyped, StoreRootTyped,
     CommitTyped DEF Handle, Ruling

\* Commands that come in behind the others change nothing for the one that is handled.
LEMMA CommandsCome ==
    ASSUME HandlerOK, NEW more \in Seq(CommandType), commands' = commands \o more,
           \A k \in 1..Len(more) :
               more[k].name # "SnapshotParticipantStateCmd" => more[k].id \in Id,
           asked' \in 0..Len(setting'.requests),
           UNCHANGED <<step, answer, root>>
    PROVE  CommandsOK' /\ HandOK'
  <1> USE DEF HandlerOK
  <1>1. commands \in Seq(CommandType) /\ Len(commands) \in Nat /\ Len(more) \in Nat
    BY DEF CommandsOK
  <1>2. /\ commands' \in Seq(CommandType) /\ Len(commands') = Len(commands) + Len(more)
        /\ \A i \in 1..(Len(commands) + Len(more)) :
              commands'[i] = IF i <= Len(commands) THEN commands[i] ELSE more[i - Len(commands)]
    BY <1>1, ConcatProperties
  <1>3. CommandsOK'
    <2>1. \A k \in 1..Len(commands') :
              commands'[k].name # "SnapshotParticipantStateCmd" => commands'[k].id \in Id
      <3> TAKE k \in 1..Len(commands')
      <3>1. CASE k <= Len(commands)
        <4>1. k \in 1..Len(commands) /\ commands'[k] = commands[k]
          BY <1>1, <1>2, <3>1
        <4> QED
          BY <4>1 DEF CommandsOK
      <3>2. CASE k > Len(commands)
        <4>1. k - Len(commands) \in 1..Len(more) /\ commands'[k] = more[k - Len(commands)]
          BY <1>1, <1>2, <3>2
        <4> QED
          BY <4>1
      <3> QED
        BY <1>1, <1>2, <3>1, <3>2
    <2> QED
      BY <1>2, <2>1 DEF CommandsOK
  <1>4. commands # <<>> => Cmd' = Cmd /\ commands' # <<>>
    <2>1. SUFFICES ASSUME commands # <<>> PROVE Cmd' = Cmd /\ commands' # <<>>
      OBVIOUS
    <2>2. Len(commands) # 0 /\ Len(commands') # 0
      BY <1>1, <1>2, <2>1
    <2>3. commands'[1] = commands[1]
      BY <1>1, <1>2, <2>2
    <2>4. Head(commands) = commands[1] /\ Head(commands') = commands'[1]
      BY <1>1, <1>2, <2>2
    <2> QED
      BY <1>2, <2>2, <2>3, <2>4 DEF Cmd
  <1>5. step' = step /\ answer' = answer /\ root' = root
    OBVIOUS
  <1>6. HandOK'
    <2>1. CASE commands = <<>>
      <3>1. step = "load" /\ root = None /\ answer = NoEvent
        BY <2>1 DEF HandOK
      <3> QED
        BY <1>5, <3>1 DEF HandOK, Step
    <2>2. CASE commands # <<>>
      <3>1. HandOK
        OBVIOUS
      <3>2. \A e : Decided(e) => Decided(e)'
        BY <1>4, <1>5, <2>2 DEF Decided
      <3> QED
        BY <1>4, <1>5, <2>2, <3>1, <3>2 DEF HandOK
    <2> QED
      BY <2>1, <2>2
  <1> QED
    BY <1>3, <1>6

LEMMA RequestTyped == FaultsOK /\ HandlerOK /\ Request => HandlerOK' /\ Leaves
  <1> SUFFICES ASSUME FaultsOK, HandlerOK, Request PROVE HandlerOK' /\ Leaves
    OBVIOUS
  <1> USE DEF HandlerOK
  <1>1. /\ asked < Len(setting.requests) /\ asked' = asked + 1
        /\ commands' = Append(commands, setting.requests[asked + 1])
        /\ UNCHANGED <<repoVars, step, answer, events, snapshots>>
    BY DEF Request
  <1>2. asked \in 0..Len(setting.requests) /\ Len(setting.requests) \in Nat
    BY SettingFacts DEF CommandsOK, FaultsOK
  <1>3. asked + 1 \in 1..Len(setting.requests)
    BY <1>1, <1>2
  <1>4. setting.requests[asked + 1] \in CommandType /\ setting.requests[asked + 1].id \in Id
    BY <1>3, SettingFacts DEF FaultsOK
  <1>5. PICK more : more = <<setting.requests[asked + 1]>>
    OBVIOUS
  <1>6. /\ more \in Seq(CommandType)
        /\ \A k \in 1..Len(more) : more[k].id \in Id
    BY <1>4, <1>5
  <1>7. commands' = commands \o more
    BY <1>1, <1>4, <1>5 DEF CommandsOK
  <1>8. asked' \in 0..Len(setting'.requests)
    BY <1>1, <1>2, <1>3 DEF repoVars
  <1>9. CommandsOK' /\ HandOK'
    BY <1>1, <1>6, <1>7, <1>8, CommandsCome DEF repoVars
  <1>10. RepoOK'
    BY <1>1 DEF repoVars, RepoOK
  <1> QED
    BY <1>1, <1>9, <1>10, NothingSaid DEF repoVars, MayFail

LEMMA ForgetsTyped ==
    ASSUME HandlerOK, HandlerForgets, setting' = setting
    PROVE  HandlerOK' /\ UNCHANGED <<events, snapshots>>
  <1> USE DEF HandlerOK
  <1>1. /\ memory' = [memory EXCEPT ![owner] = NothingRemembered]
        /\ known' = [known EXCEPT ![owner] = {}]
        /\ root' = None /\ answer' = NoEvent /\ step' = "load"
        /\ UNCHANGED <<redis, owner, asked, commands, events, snapshots>>
    BY DEF HandlerForgets, Fresh
  <1>2. RepoOK'
    BY <1>1, ConstantFacts DEF RepoOK
  <1>3. CommandsOK' /\ TopicsOK'
    BY <1>1 DEF CommandsOK, TopicsOK
  <1>4. HandOK'
    BY <1>1 DEF HandOK, Step
  <1> QED
    BY <1>1, <1>2, <1>3, <1>4

\* The partition moves; what is kept expires.
LEMMA ElsewhereTyped == HandlerOK /\ (CrashHandler \/ Move \/ Expire) => HandlerOK' /\ Leaves
  <1> SUFFICES ASSUME HandlerOK, CrashHandler \/ Move \/ Expire PROVE HandlerOK' /\ Leaves
    OBVIOUS
  <1>1. CASE CrashHandler
    <2>1. HandlerForgets /\ UNCHANGED <<setting, process>> /\ MayFail
      BY <1>1 DEF CrashHandler, MayFail
    <2>2. HandlerOK' /\ UNCHANGED <<events, snapshots>>
      BY <2>1, ForgetsTyped
    <2> QED
      BY <2>1, <2>2, NothingSaid DEF HandlerOK
  <1>2. CASE Move
    <2>1. /\ MayFail /\ owner' \in Proc
          /\ UNCHANGED <<setting, process, memory, redis, known, root, handlerVars>>
      BY <1>2 DEF Move, MayFail
    <2>2. RepoOK'
      BY <2>1 DEF RepoOK, HandlerOK
    <2>3. CommandsOK' /\ Cmd' = Cmd
      BY <2>1 DEF CommandsOK, Cmd, handlerVars, HandlerOK
    <2>4. HandOK'
      BY <2>1, <2>3 DEF HandOK, Decided, handlerVars, HandlerOK
    <2> QED
      BY <2>1, <2>2, <2>3, <2>4, NothingSaid DEF HandlerOK, handlerVars
  <1>3. CASE Expire
    <2>1. PICK id \in Id : CacheExpires(id) \/ RedisExpires(id)
      BY <1>3 DEF Expire
    <2>2. UNCHANGED <<setting, process, known, owner, root, handlerVars>>
      BY <1>3 DEF Expire
    <2>3. MayFail
      BY <2>1 DEF CacheExpires, RedisExpires, MayFail
    <2>4. memory' \in [Proc -> [Id -> Value]] /\ redis' \in [Id -> Value]
      <3>1. None \in Value
        BY ConstantFacts
      <3>2. CASE CacheExpires(id)
        BY <3>1, <3>2 DEF CacheExpires, RepoOK, HandlerOK
      <3>3. CASE RedisExpires(id)
        BY <3>1, <3>3 DEF RedisExpires, Persist, RepoOK, HandlerOK
      <3> QED
        BY <2>1, <3>2, <3>3
    <2>5. RepoOK'
      BY <2>2, <2>4 DEF RepoOK, HandlerOK
    <2>6. CommandsOK' /\ Cmd' = Cmd
      BY <2>2 DEF CommandsOK, Cmd, handlerVars, HandlerOK
    <2>7. HandOK'
      BY <2>2, <2>6 DEF HandOK, Decided, handlerVars, HandlerOK
    <2> QED
      BY <2>2, <2>3, <2>5, <2>6, <2>7, NothingSaid DEF HandlerOK, handlerVars
  <1> QED
    BY <1>1, <1>2, <1>3

--------------------------------------------------------------------------------
(* The process *)

LEMMA RangeOf ==
    /\ \A x : Range(<<x>>) = {x}
    /\ \A x, y : Range(<<x, y>>) = {x, y}
    /\ \A x, y, z : Range(<<x, y, z>>) = {x, y, z}
    /\ \A x, y, z, u : Range(<<x, y, z, u>>) = {x, y, z, u}
    /\ \A x, y, z, u, v : Range(<<x, y, z, u, v>>) = {x, y, z, u, v}
  <1>1. ASSUME NEW x, NEW y, NEW z, NEW u, NEW v
        PROVE  /\ DOMAIN <<x>> = {1} /\ DOMAIN <<x, y>> = {1, 2}
               /\ DOMAIN <<x, y, z>> = {1, 2, 3} /\ DOMAIN <<x, y, z, u>> = {1, 2, 3, 4}
               /\ DOMAIN <<x, y, z, u, v>> = {1, 2, 3, 4, 5}
    OBVIOUS
  <1> QED
    BY <1>1 DEF Range

LEMMA InOrderIs ==
    ASSUME setting \in Settings
    PROVE  /\ setting.application = "participants" =>
                  Range(InOrder) = {"Evt", "Cmd", "StateEvt", "SnapshotOperator"}
           /\ setting.application = "transfers" => Range(InOrder) = {"Evt", "Cmd", "StateEvt"}
           /\ setting.application = "simulator" => Range(InOrder) = {"Evt"}
           /\ setting.application = "adapter" => Range(InOrder) = {"Notification"}
  <1>1. setting.application = "participants" => InOrder = <<"Evt", "Cmd", "StateEvt", "SnapshotOperator">>
    BY DEF InOrder, IsParticipants, IsAdapter, ParticipantHandlers
  <1>2. setting.application = "transfers" => InOrder = <<"Evt", "Cmd", "StateEvt">>
    BY DEF InOrder, IsParticipants, IsAdapter, TransferHandlers
  <1>3. setting.application = "simulator" => InOrder = <<"Evt">>
    BY DEF InOrder, IsParticipants, IsAdapter, SimulatorHandlers
  <1>4. setting.application = "adapter" => InOrder = <<"Notification">>
    BY DEF InOrder, IsParticipants, IsAdapter, AdapterHandlers
  <1> QED
    BY <1>1, <1>2, <1>3, <1>4, RangeOf

LEMMA StartsTyped ==
    ASSUME setting \in Settings, NEW h \in Handlers
    PROVE  Range(StartOf(h)) \subseteq Resource
  <1>1. setting.application \in {"participants", "transfers", "simulator", "adapter"}
    BY SettingFacts
  <1>2. h \in Range(InOrder)
    BY DEF Handlers
  <1>3. CASE setting.application = "participants"
    <2>1. Range(InOrder) = {"Evt", "Cmd", "StateEvt", "SnapshotOperator"}
      BY <1>3, InOrderIs
    <2>2. h \in {"Evt", "Cmd", "StateEvt", "SnapshotOperator"}
      BY <1>2, <2>1
    <2>3. StartOf(h) = IF h = "Evt" THEN ParticipantEvtStart
                       ELSE IF h = "Cmd" THEN ParticipantCmdStart
                       ELSE IF h = "StateEvt" THEN ParticipantStateEvtStart
                       ELSE SnapshotOperatorStart
      BY <1>3, <2>2 DEF StartOf, Starts
    <2> QED
      BY <2>2, <2>3, RangeOf
         DEF ParticipantEvtStart, ParticipantCmdStart, ParticipantStateEvtStart,
             SnapshotOperatorStart, Resource
  <1>4. CASE setting.application = "transfers"
    <2>1. Range(InOrder) = {"Evt", "Cmd", "StateEvt"}
      BY <1>4, InOrderIs
    <2>2. h \in {"Evt", "Cmd", "StateEvt"}
      BY <1>2, <2>1
    <2>3. StartOf(h) = IF h = "Evt" THEN TransferEvtStart
                       ELSE IF h = "Cmd" THEN TransferCmdStart ELSE TransferStateEvtStart
      BY <1>4, <2>2 DEF StartOf, Starts
    <2> QED
      BY <2>2, <2>3, RangeOf
         DEF TransferEvtStart, TransferCmdStart, TransferStateEvtStart, Resource
  <1>5. CASE setting.application = "simulator"
    <2>1. h = "Evt"
      BY <1>2, <1>5, InOrderIs
    <2> QED
      BY <1>5, <2>1, RangeOf DEF StartOf, Starts, SimulatorEvtStart, Resource
  <1>6. CASE setting.application = "adapter"
    <2>1. h = "Notification"
      BY <1>2, <1>6, InOrderIs
    <2> QED
      BY <1>6, <2>1, RangeOf DEF StartOf, Starts, NotificationStart, Resource
  <1> QED
    BY <1>1, <1>3, <1>4, <1>5, <1>6

LEMMA ToOpenTyped ==
    ASSUME setting \in Settings
    PROVE  ToOpen \subseteq Handlers \X Resource
  <1>1. ASSUME NEW r \in ToOpen PROVE r \in Handlers \X Resource
    <2>1. PICK h \in Handlers : r \in {h} \X Range(StartOf(h))
      BY DEF ToOpen
    <2>2. Range(StartOf(h)) \subseteq Resource
      BY StartsTyped
    <2> QED
      BY <2>1, <2>2
  <1> QED
    BY <1>1

\* What opening the next resource comes to.
LEMMA OpenNextIs ==
    ASSUME OpenNext
    PROVE  /\ process.phase = "starting" /\ setting' = setting /\ MayFail
           /\ \E r \in Missing : IsNext(r) /\
                 \/ process' = [process EXCEPT !.open = @ \union {r}]
                 \/ process' = [process EXCEPT !.phase = "stuck"]
                 \/ r[2] = "producers" /\ process' = Off(process.stops)
  <1>1. PICK r \in Missing :
          /\ IsNext(r)
          /\ \/ r[2] = "repo" /\ OpenRepo(r)
             \/ r[2] = "ids" /\ OpenRedis(r)
             \/ r[2] = "duplicates" /\ OpenDuplicates(r)
             \/ r[2] = "offsets" /\ OpenOffsets(r)
             \/ r[2] = "mongo" /\ OpenMongo(r)
             \/ r[2] = "publisher" /\ OpenPublisher(r)
             \/ r[2] = "producers" /\ OpenProducers(r)
             \/ r[2] \in {"consumer", "timer"} /\ OpenConsumer(r)
    BY DEF OpenNext
  <1>2. \/ Open(r) \/ CannotOpen
        \/ r[2] = "producers" /\ Fails("down") /\ process' = Off(process.stops)
    BY <1>1 DEF OpenRepo, OpenRedis, OpenDuplicates, OpenOffsets, OpenMongo, OpenPublisher,
                OpenProducers, OpenConsumer, MayOpen
  <1>3. MayFail
    BY <1>2 DEF Open, CannotOpen, MayFail
  <1> QED
    BY <1>1, <1>2, <1>3 DEF OpenNext, Open, CannotOpen

LEMMA OffTyped ==
    ASSUME NEW n \in 0..setting.stops
    PROVE  Off(n) \in [phase : Phase, open : SUBSET (Handlers \X Resource), api : BOOLEAN,
                       stops : 0..setting.stops]
  BY DEF Off, Phase

ProcessSteps == \/ Restart \/ OpenNext \/ AdapterListens \/ Ready \/ CloseApi \/ Exit
                \/ Interrupt \/ InterruptEarly \/ Destroy

LEMMA ProcessTyped ==
    ASSUME FaultsOK, ProcessOK, ProcessSteps
    PROVE  ProcessOK' /\ setting' = setting /\ MayFail
  <1> DEFINE Kind == [phase : Phase, open : SUBSET (Handlers \X Resource), api : BOOLEAN,
                      stops : 0..setting.stops]
  <1>1. setting \in Settings /\ setting.stops \in Nat /\ setting.disableApi \in BOOLEAN
    BY SettingFacts DEF FaultsOK
  <1>2. process \in Kind
    BY DEF ProcessOK
  <1>3. process.stops \in 0..setting.stops
    BY <1>2
  <1>4. CASE OpenNext
    <2>1. PICK r \in Missing :
             \/ process' = [process EXCEPT !.open = @ \union {r}]
             \/ process' = [process EXCEPT !.phase = "stuck"]
             \/ process' = Off(process.stops)
      BY <1>4, OpenNextIs
    <2>2. r \in Handlers \X Resource
      BY <1>1, ToOpenTyped DEF Missing
    <2>3. process' \in Kind
      <3>1. CASE process' = [process EXCEPT !.open = @ \union {r}]
        BY <1>2, <2>2, <3>1
      <3>2. CASE process' = [process EXCEPT !.phase = "stuck"]
        BY <1>2, <3>2 DEF Phase
      <3>3. CASE process' = Off(process.stops)
        BY <1>3, <3>3, OffTyped
      <3> QED
        BY <2>1, <3>1, <3>2, <3>3
    <2>4. setting' = setting /\ MayFail
      BY <1>4, OpenNextIs
    <2> QED
      BY <2>3, <2>4, HandlersFixed DEF ProcessOK
  <1>5. CASE Destroy
    <2>1. PICK h, x : Close(h, x)
      BY <1>5 DEF Destroy
    <2>2. process' \in Kind
      BY <1>2, <2>1 DEF Close
    <2>3. setting' = setting /\ MayFail
      BY <1>5 DEF Destroy, MayFail
    <2> QED
      BY <2>2, <2>3, HandlersFixed DEF ProcessOK
  <1>6. CASE Exit \/ InterruptEarly
    <2>1. PICK n \in 0..setting.stops : process' = Off(n)
      <3>1. CASE Exit
        BY <1>3, <3>1 DEF Exit
      <3>2. CASE InterruptEarly
        <4>1. process.stops + 1 \in 0..setting.stops /\ process' = Off(process.stops + 1)
          BY <1>1, <1>3, <3>2 DEF InterruptEarly
        <4> QED
          BY <4>1
      <3> QED
        BY <1>6, <3>1, <3>2
    <2>2. process' \in Kind
      BY <2>1, OffTyped
    <2>3. setting' = setting /\ MayFail
      BY <1>6 DEF Exit, InterruptEarly, MayFail
    <2> QED
      BY <2>2, <2>3, HandlersFixed DEF ProcessOK
  <1>7. CASE Interrupt
    <2>1. process.stops + 1 \in 0..setting.stops
      BY <1>1, <1>3, <1>7 DEF Interrupt
    <2>2. process' \in Kind
      BY <1>2, <1>7, <2>1 DEF Interrupt, Phase
    <2>3. setting' = setting /\ MayFail
      BY <1>7 DEF Interrupt, MayFail
    <2> QED
      BY <2>2, <2>3, HandlersFixed DEF ProcessOK
  <1>8. CASE Restart \/ AdapterListens \/ Ready \/ CloseApi
    <2>1. process' \in Kind
      BY <1>1, <1>2, <1>8 DEF Restart, AdapterListens, Ready, ServeApi, CloseApi, Phase
    <2>2. setting' = setting /\ MayFail
      BY <1>8 DEF Restart, AdapterListens, Ready, CloseApi, MayFail
    <2> QED
      BY <2>1, <2>2, HandlersFixed DEF ProcessOK
  <1> QED
    BY <1>4, <1>5, <1>6, <1>7, <1>8 DEF ProcessSteps

LEMMA CommitRefusedTyped ==
    ASSUME ProcessOK, NEW h, CommitRefused(h), setting' = setting
    PROVE  ProcessOK' /\ MayFail
  <1>1. process' = [process EXCEPT !.open = @ \ {<<h, "consumer">>}] /\ UNCHANGED faults
    BY DEF CommitRefused, Close
  <1>2. process' \in [phase : Phase, open : SUBSET (Handlers \X Resource), api : BOOLEAN,
                      stops : 0..setting.stops]
    BY <1>1 DEF ProcessOK
  <1> QED
    BY <1>1, <1>2, HandlersFixed DEF ProcessOK, MayFail

LEMMA ProcessStill ==
    ASSUME ProcessOK, setting' = setting, process' = process
    PROVE  ProcessOK'
  BY HandlersFixed DEF ProcessOK

--------------------------------------------------------------------------------
(* The snapshot operator and the read side *)

LEMMA ImageIsFinite ==
    ASSUME NEW S, NEW T, NEW f \in Surjection(S, T), IsFiniteSet(S)
    PROVE  IsFiniteSet(T)
  BY FS_Surjection

LEMMA CmdIdFinite == IsFiniteSet(CmdId)
  <1>1. IsFiniteSet(Id)
    BY ConstantFacts
  <1> DEFINE Keys == {Key(i) : i \in Id}
             f == [i \in Id |-> Key(i)]
  <1>2. f \in Surjection(Id, Keys)
    BY DEF Surjection
  <1> HIDE DEF Keys, f
  <1>3. IsFiniteSet(Keys)
    BY <1>1, <1>2, ImageIsFinite
  <1>4. IsFiniteSet(Id \union Keys)
    BY <1>1, <1>3, FS_Union
  <1> QED
    BY <1>4 DEF CmdId, Keys

LEMMA SetToSeqIs ==
    ASSUME NEW S, IsFiniteSet(S)
    PROVE  SetToSeq(S) \in Seq(S)
  <1>1. Cardinality(S) \in Nat /\ ExistsBijection(1..Cardinality(S), S)
    BY FS_CardinalityType
  <1>2. \E f \in [1..Cardinality(S) -> S] : IsInjective(f)
    BY <1>1 DEF ExistsBijection, Bijection, Injection
  <1>3. SetToSeq(S) \in [1..Cardinality(S) -> S]
    BY <1>2 DEF SetToSeq
  <1> QED
    BY <1>1, <1>3

\* The commands that ask for snapshots of ids.
LEMMA SnapshotCommands ==
    ASSUME NEW ids \in SUBSET CmdId,
           NEW more, more = SetToSeq({SnapshotParticipantStateCmd(id) : id \in ids})
    PROVE  /\ more \in Seq(CommandType)
           /\ \A k \in 1..Len(more) : more[k].name = "SnapshotParticipantStateCmd"
  <1> DEFINE asks == {SnapshotParticipantStateCmd(id) : id \in ids}
             f == [id \in ids |-> SnapshotParticipantStateCmd(id)]
  <1>1. IsFiniteSet(ids)
    BY CmdIdFinite, FS_Subset
  <1>2. f \in Surjection(ids, asks)
    BY DEF Surjection
  <1>3. asks \subseteq CommandType /\ \A c \in asks : c.name = "SnapshotParticipantStateCmd"
    <2>1. ASSUME NEW c \in asks
          PROVE  c \in CommandType /\ c.name = "SnapshotParticipantStateCmd"
      <3>1. PICK id \in ids : c = SnapshotParticipantStateCmd(id)
        BY <2>1
      <3>2. c = [name |-> "SnapshotParticipantStateCmd", id |-> id] /\ id \in CmdId
        BY <3>1 DEF SnapshotParticipantStateCmd, Command
      <3>3. c.name = "SnapshotParticipantStateCmd"
        BY <3>2
      <3>4. "SnapshotParticipantStateCmd" \in ParticipantCmd
        BY DEF ParticipantCmd
      <3>5. c \in CommandType
        BY <3>2, <3>4 DEF CommandType
      <3> QED
        BY <3>3, <3>5
    <2> QED
      BY <2>1
  <1>4. more = SetToSeq(asks)
    OBVIOUS
  <1> HIDE DEF asks, f
  <1>5. IsFiniteSet(asks)
    BY <1>1, <1>2, ImageIsFinite
  <1>6. more \in Seq(asks)
    BY <1>4, <1>5, SetToSeqIs
  <1>7. more \in Seq(CommandType)
    BY <1>3, <1>6, SeqMonotonic
  <1>8. \A k \in 1..Len(more) : more[k] \in asks
    BY <1>6
  <1> QED
    BY <1>3, <1>7, <1>8

LEMMA CountersAre ==
    ASSUME NEW c
    PROVE  c \in Counters <=> DOMAIN c \subseteq CmdId /\ c \in [DOMAIN c -> CounterType]
  BY DEF Counters

IsOver(o, m, n) ==
    /\ o \in Counters
    /\ DOMAIN o = DOMAIN m \union DOMAIN n
    /\ \A id \in DOMAIN o : o[id] = IF id \in DOMAIN m THEN m[id] ELSE n[id]

LEMMA OverIs ==
    ASSUME NEW m, m \in Counters, NEW n, n \in Counters
    PROVE  IsOver(Over(m, n), m, n)
  <1>1. DOMAIN m \subseteq CmdId /\ m \in [DOMAIN m -> CounterType]
    BY CountersAre
  <1>2. DOMAIN n \subseteq CmdId /\ n \in [DOMAIN n -> CounterType]
    BY CountersAre
  <1>3. PICK o : o = Over(m, n)
    OBVIOUS
  <1>4. /\ DOMAIN o = DOMAIN m \union DOMAIN n
        /\ \A id \in DOMAIN o : o[id] = IF id \in DOMAIN m THEN m[id] ELSE n[id]
        /\ o \in [DOMAIN m \union DOMAIN n -> CounterType]
    BY <1>1, <1>2, <1>3 DEF Over
  <1>5. o \in Counters
    BY <1>1, <1>2, <1>4, CountersAre
  <1> QED
    BY <1>3, <1>4, <1>5 DEF IsOver

LEMMA OnlyIs ==
    ASSUME NEW id \in CmdId, NEW s \in CounterType
    PROVE  Only(id, s) \in Counters /\ DOMAIN Only(id, s) = {id} /\ Only(id, s)[id] = s
  <1>1. /\ DOMAIN Only(id, s) = {id} /\ Only(id, s)[id] = s
        /\ Only(id, s) \in [{id} -> CounterType]
    BY DEF Only
  <1> QED
    BY <1>1, CountersAre

LEMMA CountersTyped ==
    /\ Unseen \in CounterType /\ Unseen.left = MaxEvents
    /\ Unknown \in Counters /\ DOMAIN Unknown = {}
    /\ [key \in GetAllIds |-> Unseen] \in Counters
    /\ ParticipantSnapshotState(MaxEvents, "recent") \in CounterType
  <1>1. Unseen \in CounterType /\ Unseen.left = MaxEvents
        /\ ParticipantSnapshotState(MaxEvents, "recent") \in CounterType
    BY ConstantFacts DEF Unseen, ParticipantSnapshotState, CounterType
  <1>2. DOMAIN Unknown = {} /\ Unknown \in [{} -> CounterType]
    BY DEF Unknown
  <1>3. Unknown \in Counters
    BY <1>2, CountersAre
  <1>4. GetAllIds \subseteq CmdId
    BY DEF GetAllIds, CmdId
  <1>5. [key \in GetAllIds |-> Unseen] \in [GetAllIds -> CounterType]
    BY <1>1
  <1>6. [key \in GetAllIds |-> Unseen] \in Counters
    BY <1>4, <1>5 DEF Counters
  <1> QED
    BY <1>1, <1>2, <1>3, <1>6

\* What the counters become when id is heard of: only its own changes.
HeardAs(next, id, left) ==
    /\ next \in Counters /\ DOMAIN next = DOMAIN counters \union {id}
    /\ next[id].left = left
    /\ \A i \in DOMAIN counters \ {id} : next[i] = counters[i]

LEMMA HeardIs ==
    ASSUME counters \in Counters, NEW id \in CmdId
    PROVE  /\ HeardAs(Reset(id), id, MaxEvents)
           /\ HeardAs(Added(id), id, MaxEvents)
           /\ id \in DOMAIN counters => HeardAs(Count(id), id, counters[id].left - 1)
  <1>1. ASSUME NEW s \in CounterType
        PROVE  HeardAs(Over(Only(id, s), counters), id, s.left)
    <2>1. PICK o, next, c : o = Only(id, s) /\ next = Over(o, counters) /\ c = counters
      OBVIOUS
    <2>2. o \in Counters /\ DOMAIN o = {id} /\ o[id] = s
      BY <2>1, OnlyIs
    <2>3. IsOver(next, o, c)
      BY <2>1, <2>2, OverIs, Zenon
    <2>4. HeardAs(next, id, s.left)
      BY <2>1, <2>2, <2>3 DEF HeardAs, IsOver
    <2> QED
      BY <2>1, <2>4
  <1>2. HeardAs(Reset(id), id, MaxEvents)
    <2>1. PICK s : s = ParticipantSnapshotState(MaxEvents, "recent")
      OBVIOUS
    <2>2. s \in CounterType /\ s.left = MaxEvents
      BY <2>1, CountersTyped DEF ParticipantSnapshotState
    <2> QED
      BY <1>1, <2>1, <2>2 DEF Reset
  <1>3. HeardAs(Added(id), id, MaxEvents)
    BY <1>1, CountersTyped DEF Added
  <1>4. ASSUME id \in DOMAIN counters
        PROVE  HeardAs(Count(id), id, counters[id].left - 1)
    <2>1. PICK s : s = [counters[id] EXCEPT !.left = @ - 1]
      OBVIOUS
    <2>2. counters[id] \in CounterType
      BY <1>4, CountersAre
    <2>3. s \in CounterType /\ s.left = counters[id].left - 1
      BY <2>1, <2>2, ConstantFacts DEF CounterType
    <2>4. HeardAs(Over(Only(id, s), counters), id, s.left)
      BY <1>1, <2>3
    <2> QED
      BY <2>1, <2>3, <2>4 DEF Count
  <1> QED
    BY <1>2, <1>3, <1>4

LEMMA HandlerStill ==
    ASSUME HandlerOK, setting' = setting,
           UNCHANGED <<memory, redis, known, owner, root, handlerVars>>
    PROVE  HandlerOK' /\ UNCHANGED <<events, snapshots>>
  <1> USE DEF HandlerOK
  <1>1. UNCHANGED <<asked, commands, step, answer, events, snapshots>>
    BY DEF handlerVars
  <1>2. RepoOK' /\ CommandsOK' /\ TopicsOK'
    BY <1>1 DEF RepoOK, CommandsOK, TopicsOK
  <1>3. Cmd' = Cmd
    BY <1>1 DEF Cmd
  <1>4. HandOK'
    BY <1>1, <1>3 DEF HandOK, Decided
  <1> QED
    BY <1>1, <1>2, <1>4

Batch == (SUBSET CmdId) \ {{}}

\* How the work on a message ends: committed or not.
Ends(next, more) ==
    \/ counters' = next /\ batches' = more /\ UpdateState /\ UNCHANGED <<process, up>>
    \/ /\ counters' = next /\ batches' = more
       /\ CommitRefused("SnapshotOperator") /\ saved' = next /\ up' = up
    \/ Fails("operatorCrash") /\ OperatorForgets /\ saved' = next /\ process' = process

LEMMA EndsTyped ==
    ASSUME OperatorOK, ProcessOK, up, NEW next, next \in Counters, NEW more, more \in Seq(Batch),
           Ends(next, more), setting' = setting
    PROVE  /\ up' \in BOOLEAN /\ counters' \in Counters /\ saved' \in Counters
           /\ batches' \in Seq(Batch) /\ (~up' => batches' = <<>>)
           /\ ProcessOK' /\ MayFail
  <1>1. saved \in Counters /\ up \in BOOLEAN
    BY DEF OperatorOK
  <1>2. CASE counters' = next /\ batches' = more /\ UpdateState /\ UNCHANGED <<process, up>>
    <2>1. saved' \in Counters /\ MayFail
      BY <1>1, <1>2 DEF UpdateState, MayFail
    <2> QED
      BY <1>1, <1>2, <2>1, ProcessStill
  <1>3. CASE /\ counters' = next /\ batches' = more
             /\ CommitRefused("SnapshotOperator") /\ saved' = next /\ up' = up
    <2>1. ProcessOK' /\ MayFail
      BY <1>3, CommitRefusedTyped
    <2> QED
      BY <1>1, <1>3, <2>1
  <1>4. CASE Fails("operatorCrash") /\ OperatorForgets /\ saved' = next /\ process' = process
    <2>1. up' = FALSE /\ counters' = Unknown /\ batches' = <<>>
      BY <1>4 DEF OperatorForgets
    <2>2. <<>> \in Seq(Batch)
      OBVIOUS
    <2>3. ProcessOK' /\ MayFail
      BY <1>4, ProcessStill DEF MayFail
    <2> QED
      BY <1>4, <2>1, <2>2, <2>3, CountersTyped
  <1> QED
    BY <1>2, <1>3, <1>4 DEF Ends

\* The next state event or snapshot, and what the counters become with it.
LEMMA HearIs ==
    ASSUME TopicsOK, OperatorOK, HearStateEvent \/ HearSnapshot
    PROVE  /\ up /\ setting' = setting /\ hours' = hours
           /\ UNCHANGED <<memory, redis, known, owner, root, handlerVars>>
           /\ ticks' = ticks
           /\ heard' \in [events : 0..Len(events), snapshots : 0..Len(snapshots)]
           /\ \E id \in Id : \E next :
                 /\ Ends(next, batches)
                 /\ \/ /\ id \in DOMAIN counters /\ HeardAs(next, id, counters[id].left - 1)
                       /\ since' = [since EXCEPT ![id] = @ + 1]
                    \/ /\ id \in DOMAIN counters /\ HeardAs(next, id, MaxEvents)
                       /\ since' = [since EXCEPT ![id] = 0]
                    \/ /\ id \notin DOMAIN counters /\ HeardAs(next, id, MaxEvents)
                       /\ since' = since
  <1>1. /\ heard.events \in 0..Len(events) /\ heard.snapshots \in 0..Len(snapshots)
        /\ Len(events) \in Nat /\ Len(snapshots) \in Nat
        /\ heard \in [events : 0..Len(events), snapshots : 0..Len(snapshots)]
        /\ counters \in Counters /\ since \in [Id -> Nat]
    BY DEF OperatorOK, TopicsOK
  <1>2. CASE HearStateEvent
    <2> DEFINE evt == events[heard.events + 1]
               next == IF evt.id \in DOMAIN counters THEN Count(evt.id) ELSE Added(evt.id)
    <2>1. /\ up /\ heard.events < Len(events)
          /\ Committed(next, batches,
                       heard' = [heard EXCEPT !.events = @ + 1] /\ UNCHANGED ticks)
          /\ since' = [since EXCEPT ![evt.id] = IF evt.id \in DOMAIN counters THEN @ + 1 ELSE @]
          /\ UNCHANGED <<setting, memory, redis, known, owner, root, handlerVars, hours>>
      BY <1>2 DEF HearStateEvent, Takes
    <2>2. heard.events + 1 \in 1..Len(events)
      BY <1>1, <2>1
    <2>3. evt \in StateEvent
      BY <2>2 DEF TopicsOK
    <2>4. evt.id \in Id /\ evt.id \in CmdId
      BY <2>3 DEF StateEvent, CmdId
    <2>5. /\ HeardAs(Added(evt.id), evt.id, MaxEvents)
          /\ evt.id \in DOMAIN counters => HeardAs(Count(evt.id), evt.id, counters[evt.id].left - 1)
      BY <1>1, <2>4, HeardIs
    <2>6. /\ Ends(next, batches) /\ ticks' = ticks
          /\ heard' = [heard EXCEPT !.events = @ + 1] \/ heard' = heard
      BY <2>1 DEF Committed, Ends
    <2>7. heard' \in [events : 0..Len(events), snapshots : 0..Len(snapshots)]
      BY <1>1, <2>2, <2>6
    <2>8. CASE evt.id \in DOMAIN counters
      <3>1. next = Count(evt.id) /\ since' = [since EXCEPT ![evt.id] = @ + 1]
        BY <2>1, <2>8
      <3> HIDE DEF next, evt
      <3> QED
        BY <2>1, <2>4, <2>5, <2>6, <2>7, <2>8, <3>1
    <2>9. CASE evt.id \notin DOMAIN counters
      <3>1. next = Added(evt.id) /\ since' = since
        BY <1>1, <2>1, <2>4, <2>9
      <3> HIDE DEF next, evt
      <3> QED
        BY <2>1, <2>4, <2>5, <2>6, <2>7, <2>9, <3>1
    <2> QED
      BY <2>8, <2>9
  <1>3. CASE HearSnapshot
    <2> DEFINE evt == snapshots[heard.snapshots + 1]
               next == IF evt.id \in DOMAIN counters THEN Reset(evt.id) ELSE Added(evt.id)
    <2>1. /\ up /\ heard.snapshots < Len(snapshots)
          /\ Committed(next, batches,
                       heard' = [heard EXCEPT !.snapshots = @ + 1] /\ UNCHANGED ticks)
          /\ since' = [since EXCEPT ![evt.id] = IF evt.id \in DOMAIN counters THEN 0 ELSE @]
          /\ UNCHANGED <<setting, memory, redis, known, owner, root, handlerVars, hours>>
      BY <1>3 DEF HearSnapshot, Takes
    <2>2. heard.snapshots + 1 \in 1..Len(snapshots)
      BY <1>1, <2>1
    <2>3. evt \in SnapshotEvent
      BY <2>2 DEF TopicsOK
    <2>4. evt.id \in Id /\ evt.id \in CmdId
      BY <2>3 DEF SnapshotEvent, CmdId
    <2>5. HeardAs(Added(evt.id), evt.id, MaxEvents) /\ HeardAs(Reset(evt.id), evt.id, MaxEvents)
      BY <1>1, <2>4, HeardIs
    <2>6. /\ Ends(next, batches) /\ ticks' = ticks
          /\ heard' = [heard EXCEPT !.snapshots = @ + 1] \/ heard' = heard
      BY <2>1 DEF Committed, Ends
    <2>7. heard' \in [events : 0..Len(events), snapshots : 0..Len(snapshots)]
      BY <1>1, <2>2, <2>6
    <2>8. CASE evt.id \in DOMAIN counters
      <3>1. next = Reset(evt.id) /\ since' = [since EXCEPT ![evt.id] = 0]
        BY <2>1, <2>8
      <3> HIDE DEF next, evt
      <3> QED
        BY <2>1, <2>4, <2>5, <2>6, <2>7, <2>8, <3>1
    <2>9. CASE evt.id \notin DOMAIN counters
      <3>1. next = Added(evt.id) /\ since' = since
        BY <1>1, <2>1, <2>4, <2>9
      <3> HIDE DEF next, evt
      <3> QED
        BY <2>1, <2>4, <2>5, <2>6, <2>7, <2>9, <3>1
    <2> QED
      BY <2>8, <2>9
  <1> QED
    BY <1>2, <1>3

LEMMA ExecuteIs ==
    ASSUME OperatorOK, Execute
    PROVE  /\ up /\ setting' = setting /\ hours' = hours /\ since' = since /\ heard' = heard
           /\ UNCHANGED <<memory, redis, known, owner, root, handlerVars>>
           /\ ticks' \in 0..MaxPending
           /\ \/ \E more : more \in Seq(Batch) /\ Ends(LoadState, more)
              \/ Fails("state") /\ UNCHANGED <<process, up, counters, saved, batches>>
  <1> DEFINE due == {id \in DOMAIN LoadState : Due(LoadState[id])}
             more == IF due = {} THEN batches ELSE Append(batches, due)
  <1>1. /\ up /\ ticks > 0
        /\ \/ Committed(LoadState, more, ticks' = ticks - 1 /\ UNCHANGED heard)
           \/ /\ Fails("state")
              /\ ticks' = ticks - 1
              /\ UNCHANGED <<process, up, counters, saved, batches, heard>>
        /\ UNCHANGED <<setting, memory, redis, known, owner, root, handlerVars, since, hours>>
    BY DEF Execute, Takes
  <1>2. /\ ticks \in 0..MaxPending /\ batches \in Seq(Batch)
        /\ counters \in Counters /\ saved \in Counters
    BY DEF OperatorOK, Batch
  <1>3. ticks - 1 \in 0..MaxPending
    BY <1>1, <1>2, ConstantFacts
  <1>4. DOMAIN LoadState \subseteq CmdId
    <2>1. IsOver(LoadState, saved, counters)
      BY <1>2, OverIs DEF LoadState
    <2> QED
      BY <2>1, CountersAre DEF IsOver
  <1>5. more \in Seq(Batch)
    <2>1. due # {} => due \in Batch
      BY <1>4 DEF Batch
    <2> HIDE DEF due
    <2>2. CASE due = {}
      BY <1>2, <2>2
    <2>3. CASE due # {}
      <3>1. PICK b, d : b = batches /\ d = due
        OBVIOUS
      <3>2. b \in Seq(Batch) /\ d \in Batch
        BY <1>2, <2>1, <2>3, <3>1
      <3>3. Append(b, d) \in Seq(Batch)
        BY <3>2, AppendProperties
      <3> QED
        BY <2>3, <3>1, <3>3
    <2> QED
      BY <2>2, <2>3
  <1> HIDE DEF more
  <1>6. CASE Committed(LoadState, more, ticks' = ticks - 1 /\ UNCHANGED heard)
    <2>1. /\ Ends(LoadState, more) /\ heard' = heard
          /\ ticks' = ticks - 1 \/ ticks' = ticks
      BY <1>6 DEF Committed, Ends
    <2>2. ticks' \in 0..MaxPending
      BY <1>2, <1>3, <2>1
    <2> QED
      BY <1>1, <1>5, <2>1, <2>2
  <1>7. CASE /\ Fails("state")
             /\ ticks' = ticks - 1
             /\ UNCHANGED <<process, up, counters, saved, batches, heard>>
    BY <1>1, <1>3, <1>7
  <1> QED
    BY <1>1, <1>6, <1>7

\* The types of what the others keep: a step of the operator leaves them.
OthersOK == FaultsOK /\ ProcessOK /\ HandlerOK

LEMMA HearTyped ==
    ASSUME OthersOK, OperatorOK, HearStateEvent \/ HearSnapshot
    PROVE  OthersOK' /\ OperatorOK' /\ UNCHANGED <<setting, events, snapshots>>
  <1> USE DEF OthersOK
  <1>1. /\ up /\ setting' = setting /\ hours' = hours
        /\ UNCHANGED <<memory, redis, known, owner, root, handlerVars>>
        /\ ticks' = ticks
        /\ heard' \in [events : 0..Len(events), snapshots : 0..Len(snapshots)]
    BY HearIs DEF HandlerOK
  <1>2. PICK id, next :
           /\ id \in Id /\ Ends(next, batches)
           /\ \/ HeardAs(next, id, counters[id].left - 1) \/ HeardAs(next, id, MaxEvents)
           /\ since' \in {[since EXCEPT ![id] = @ + 1], [since EXCEPT ![id] = 0], since}
    BY HearIs, Zenon DEF HandlerOK
  <1>3. next \in Counters
    BY <1>2 DEF HeardAs
  <1>4. batches \in Seq(Batch) /\ since \in [Id -> Nat]
    BY DEF OperatorOK, Batch
  <1>5. /\ up' \in BOOLEAN /\ counters' \in Counters /\ saved' \in Counters
        /\ batches' \in Seq(Batch) /\ (~up' => batches' = <<>>)
        /\ ProcessOK' /\ MayFail
    BY <1>1, <1>2, <1>3, <1>4, EndsTyped
  <1>6. since' \in [Id -> Nat]
    BY <1>2, <1>4
  <1>7. FaultsOK'
    BY <1>1, <1>5, FaultsStep
  <1>8. HandlerOK' /\ UNCHANGED <<events, snapshots>>
    BY <1>1, HandlerStill
  <1>9. OperatorOK'
    BY <1>1, <1>5, <1>6, <1>8 DEF OperatorOK, Batch
  <1> QED
    BY <1>1, <1>5, <1>7, <1>8, <1>9

LEMMA ExecuteTyped ==
    ASSUME OthersOK, OperatorOK, Execute
    PROVE  OthersOK' /\ OperatorOK' /\ UNCHANGED <<setting, events, snapshots>>
  <1> USE DEF OthersOK
  <1>1. /\ up /\ setting' = setting /\ hours' = hours /\ since' = since /\ heard' = heard
        /\ UNCHANGED <<memory, redis, known, owner, root, handlerVars>>
        /\ ticks' \in 0..MaxPending
    BY ExecuteIs
  <1>2. /\ up' \in BOOLEAN /\ counters' \in Counters /\ saved' \in Counters
        /\ batches' \in Seq(Batch) /\ (~up' => batches' = <<>>)
        /\ ProcessOK' /\ MayFail
    <2>1. CASE \E more : more \in Seq(Batch) /\ Ends(LoadState, more)
      <3>1. PICK more : more \in Seq(Batch) /\ Ends(LoadState, more)
        BY <2>1
      <3>2. LoadState \in Counters
        BY OverIs DEF LoadState, IsOver, OperatorOK
      <3> QED
        BY <1>1, <3>1, <3>2, EndsTyped
    <2>2. CASE Fails("state") /\ UNCHANGED <<process, up, counters, saved, batches>>
      <3>1. ProcessOK' /\ MayFail
        BY <1>1, <2>2, ProcessStill DEF MayFail
      <3> QED
        BY <2>2, <3>1 DEF OperatorOK, Batch
    <2> QED
      BY <2>1, <2>2, ExecuteIs
  <1>3. FaultsOK'
    BY <1>1, <1>2, FaultsStep
  <1>4. HandlerOK' /\ UNCHANGED <<events, snapshots>>
    BY <1>1, HandlerStill
  <1>5. OperatorOK'
    BY <1>1, <1>2, <1>4 DEF OperatorOK, Batch
  <1> QED
    BY <1>1, <1>2, <1>3, <1>4, <1>5

\* A step that leaves the process alone.
LEMMA OthersStill ==
    ASSUME OthersOK, MayFail, UNCHANGED <<setting, process>>, HandlerOK'
    PROVE  OthersOK'
  BY FaultsStep, ProcessStill DEF OthersOK

LEMMA StartOperatorTyped ==
    ASSUME OthersOK, OperatorOK, StartOperator \/ OnTimer
    PROVE  OthersOK' /\ OperatorOK' /\ UNCHANGED <<setting, events, snapshots>>
  <1>1. UNCHANGED <<repoVars, handlerVars, saved, batches, heard, since, hours>>
    BY DEF StartOperator, OnTimer
  <1>2. UNCHANGED <<setting, process, faults, memory, redis, known, owner, root>>
    BY <1>1 DEF repoVars
  <1>3. HandlerOK' /\ UNCHANGED <<events, snapshots>>
    BY <1>1, <1>2, HandlerStill DEF OthersOK
  <1>4. OthersOK'
    BY <1>2, <1>3, OthersStill DEF MayFail
  <1>5. CASE StartOperator
    <2>1. up' = TRUE /\ ticks' = ticks /\ counters' = Over(LoadState, [key \in GetAllIds |-> Unseen])
      BY <1>5 DEF StartOperator
    <2>2. counters' \in Counters
      <3>1. LoadState \in Counters
        BY OverIs DEF LoadState, IsOver, OperatorOK
      <3>2. [key \in GetAllIds |-> Unseen] \in Counters
        BY CountersTyped
      <3>3. PICK m, n : m = LoadState /\ n = [key \in GetAllIds |-> Unseen]
        OBVIOUS
      <3>4. IsOver(Over(m, n), m, n)
        BY <3>1, <3>2, <3>3, OverIs, Zenon
      <3> QED
        BY <2>1, <3>3, <3>4 DEF IsOver
    <2>3. OperatorOK'
      BY <1>1, <1>2, <1>3, <2>1, <2>2 DEF OperatorOK
    <2> QED
      BY <1>2, <1>3, <1>4, <2>3
  <1>6. CASE OnTimer
    <2>1. UNCHANGED <<up, counters>> /\ ticks' = ticks + 1 /\ Pending < MaxPending
      BY <1>6 DEF OnTimer
    <2>2. ticks' \in 0..MaxPending
      <3>1. /\ ticks \in 0..MaxPending /\ Len(batches) \in Nat /\ Len(commands) \in Nat
            /\ Len(snapshots) \in Nat /\ heard.snapshots \in 0..Len(snapshots)
        BY DEF OperatorOK, OthersOK, HandlerOK, CommandsOK, TopicsOK
      <3>2. ticks + 1 <= Pending + 1
        BY <3>1 DEF Pending
      <3>3. Pending \in Int
        BY <3>1 DEF Pending
      <3> QED
        BY <2>1, <3>1, <3>2, <3>3, ConstantFacts
    <2>3. OperatorOK'
      BY <1>1, <1>2, <1>3, <2>1, <2>2 DEF OperatorOK
    <2> QED
      BY <1>2, <1>3, <1>4, <2>3
  <1> QED
    BY <1>5, <1>6

LEMMA PublishCommandsTyped ==
    ASSUME OthersOK, OperatorOK, PublishCommands \/ PublishCommandsFails
    PROVE  OthersOK' /\ OperatorOK' /\ UNCHANGED <<setting, events, snapshots>>
  <1>1. /\ batches # <<>> /\ batches' = Tail(batches)
        /\ UNCHANGED <<setting, process, memory, redis, known, owner, root, asked, step, answer,
                       events, snapshots, up, counters, ticks, heard, since, hours>>
        /\ MayFail /\ (saved' = saved \/ saved' = counters)
    BY DEF PublishCommands, PublishCommandsFails, repoVars, MayFail
  <1>2. batches \in Seq(Batch)
    BY DEF OperatorOK, Batch
  <1>3. Head(batches) \in SUBSET CmdId /\ Tail(batches) \in Seq(Batch)
    <2>1. Head(batches) \in Batch /\ Tail(batches) \in Seq(Batch)
      BY <1>1, <1>2, HeadTailProperties
    <2> QED
      BY <2>1 DEF Batch
  <1>4. PICK ids \in SUBSET CmdId :
           commands' = commands \o SetToSeq({SnapshotParticipantStateCmd(id) : id \in ids})
    BY <1>3 DEF PublishCommands, PublishCommandsFails
  <1>5. PICK more : more = SetToSeq({SnapshotParticipantStateCmd(id) : id \in ids})
    OBVIOUS
  <1>6. /\ more \in Seq(CommandType)
        /\ \A k \in 1..Len(more) : more[k].name = "SnapshotParticipantStateCmd"
    BY <1>5, SnapshotCommands
  <1>7. asked' \in 0..Len(setting'.requests)
    BY <1>1 DEF OthersOK, HandlerOK, CommandsOK
  <1>8. CommandsOK' /\ HandOK'
    BY <1>1, <1>4, <1>5, <1>6, <1>7, CommandsCome DEF OthersOK
  <1>9. RepoOK' /\ TopicsOK'
    BY <1>1 DEF OthersOK, HandlerOK, RepoOK, TopicsOK
  <1>10. OthersOK'
    BY <1>1, <1>8, <1>9, OthersStill DEF HandlerOK
  <1>11. OperatorOK'
    <2>1. up
      BY <1>1 DEF OperatorOK
    <2>2. batches' \in Seq(Batch) /\ saved' \in Counters
      BY <1>1, <1>3 DEF OperatorOK
    <2> QED
      BY <1>1, <2>1, <2>2 DEF OperatorOK, Batch
  <1> QED
    BY <1>1, <1>10, <1>11

\* An hour only ages what the counters say of the last snapshot.
LEMMA AgedIs ==
    ASSUME NEW c, c \in Counters,
           NEW aged, aged = [id \in DOMAIN c |-> IF c[id].last = "recent"
                                                 THEN [c[id] EXCEPT !.last = "old"] ELSE c[id]]
    PROVE  /\ aged \in Counters /\ DOMAIN aged = DOMAIN c
           /\ \A id \in DOMAIN c : aged[id].left = c[id].left
  <1>1. DOMAIN c \subseteq CmdId /\ c \in [DOMAIN c -> CounterType]
    BY CountersAre
  <1>2. ASSUME NEW id \in DOMAIN c
        PROVE  aged[id] \in CounterType /\ aged[id].left = c[id].left
    <2>1. c[id] \in CounterType
      BY <1>1
    <2> QED
      BY <2>1 DEF CounterType
  <1>3. DOMAIN aged = DOMAIN c /\ aged \in [DOMAIN aged -> CounterType]
    BY <1>2
  <1>4. aged \in Counters
    BY <1>1, <1>3, CountersAre
  <1> QED
    BY <1>2, <1>3, <1>4

LEMMA HourTyped ==
    ASSUME OthersOK, OperatorOK, CrashOperator \/ Hour
    PROVE  OthersOK' /\ OperatorOK' /\ UNCHANGED <<setting, events, snapshots>>
  <1>1. /\ UNCHANGED <<setting, process, memory, redis, known, owner, root, handlerVars,
                       ticks, heard, since>>
        /\ MayFail
    BY DEF CrashOperator, Hour, repoVars, MayFail
  <1>2. HandlerOK' /\ UNCHANGED <<events, snapshots>>
    BY <1>1, HandlerStill DEF OthersOK
  <1>3. OthersOK'
    BY <1>1, <1>2, OthersStill
  <1>4. CASE CrashOperator
    <2>1. up' = FALSE /\ counters' = Unknown /\ batches' = <<>> /\ saved' = saved /\ hours' = hours
      BY <1>4 DEF CrashOperator, OperatorForgets
    <2>2. <<>> \in Seq(Batch) /\ Unknown \in Counters
      BY CountersTyped
    <2>3. OperatorOK'
      BY <1>1, <1>2, <2>1, <2>2 DEF OperatorOK, Batch
    <2> QED
      BY <1>1, <1>2, <1>3, <2>3
  <1>5. CASE Hour
    <2>1. /\ hours < setting.hours /\ hours' = hours + 1 /\ UNCHANGED <<up, batches>>
          /\ counters' = [id \in DOMAIN counters |-> IF counters[id].last = "recent"
                             THEN [counters[id] EXCEPT !.last = "old"] ELSE counters[id]]
          /\ saved' = [id \in DOMAIN saved |-> IF saved[id].last = "recent"
                             THEN [saved[id] EXCEPT !.last = "old"] ELSE saved[id]]
      BY <1>5, Zenon DEF Hour
    <2>2. counters' \in Counters /\ saved' \in Counters
      BY <2>1, AgedIs DEF OperatorOK
    <2>3. setting.hours \in Nat
      BY SettingFacts DEF OthersOK, FaultsOK
    <2>4. hours' \in 0..setting'.hours
      BY <1>1, <2>1, <2>3 DEF OperatorOK
    <2>5. OperatorOK'
      BY <1>1, <1>2, <2>1, <2>2, <2>4 DEF OperatorOK
    <2> QED
      BY <1>1, <1>2, <1>3, <2>5
  <1> QED
    BY <1>4, <1>5

\* Nothing the operator keeps depends on more of the others than how long the topics are.
LEMMA OperatorStill ==
    ASSUME OperatorOK, TopicsOK, TopicsOK', UNCHANGED operatorVars, setting' = setting,
           Len(events) <= Len(events'), Len(snapshots) <= Len(snapshots')
    PROVE  OperatorOK'
  <1>1. UNCHANGED <<up, counters, saved, ticks, batches, heard, since, hours>>
    BY DEF operatorVars
  <1>2. /\ Len(events) \in Nat /\ Len(events') \in Nat
        /\ Len(snapshots) \in Nat /\ Len(snapshots') \in Nat
    BY DEF TopicsOK
  <1>3. heard' \in [events : 0..Len(events'), snapshots : 0..Len(snapshots')]
    <2>1. heard \in [events : 0..Len(events), snapshots : 0..Len(snapshots)]
      BY DEF OperatorOK
    <2>2. 0..Len(events) \subseteq 0..Len(events') /\ 0..Len(snapshots) \subseteq 0..Len(snapshots')
      BY <1>2
    <2> QED
      BY <1>1, <2>1, <2>2
  <1> QED
    BY <1>1, <1>3 DEF OperatorOK

LEMMA ReadStill ==
    ASSUME ReadOK, TopicsOK, TopicsOK', UNCHANGED readVars, Len(events) <= Len(events')
    PROVE  ReadOK'
  <1>1. Len(events) \in Nat /\ Len(events') \in Nat
    BY DEF TopicsOK
  <1> QED
    BY <1>1 DEF ReadOK, readVars

\* What the read side does with the next event; then it has committed it or not.
LEMMA ReadIs ==
    ASSUME TopicsOK, ReadOK, ReadNext
    PROVE  /\ Opened("StateEvt", "consumer") /\ read < Len(events) /\ read + 1 \in 1..Len(events)
           /\ events[read + 1] \in StateEvent
           /\ UNCHANGED <<setting, memory, redis, known, owner, root, handlerVars>>
           /\ \/ read' = read + 1 /\ process' = process /\ MayFail
              \/ read' = read /\ process' = process /\ Fails("readCrash")
              \/ read' = read /\ CommitRefused("StateEvt")
           /\ \/ docs' = docs /\ Fails("mongo")
              \/ \E v \in Nat : \/ Insert(events[read + 1].id, v)
                                \/ UpdateFirst(events[read + 1].id, v)
  <1>1. read \in 0..Len(events) /\ Len(events) \in Nat
    BY DEF ReadOK, TopicsOK
  <1>2. Opened("StateEvt", "consumer") /\ read < Len(events)
    BY DEF ReadNext, ReadStateEvent, MongoFails, ReadTakes, Handles,
           HandleParticipantCreatedStateEvt, HandleParticipantPositionChangedStateEvt,
           HandleTransferPreparedStateEvt, HandleTransferFulfiledStateEvt,
           HandleTransferStateChangedStateEvt
  <1>3. read + 1 \in 1..Len(events)
    BY <1>1, <1>2
  <1>4. events[read + 1] \in StateEvent /\ events[read + 1].value \in Nat
    <2>1. PICK e : e = events[read + 1]
      OBVIOUS
    <2>2. e \in StateEvent
      BY <1>3, <2>1 DEF TopicsOK
    <2> QED
      BY <2>1, <2>2 DEF StateEvent
  <1>5. CASE ReadStateEvent
    <2>1. \E name : Handles(name)
      BY <1>5 DEF ReadStateEvent, HandleParticipantCreatedStateEvt,
                  HandleParticipantPositionChangedStateEvt, HandleTransferPreparedStateEvt,
                  HandleTransferFulfiledStateEvt, HandleTransferStateChangedStateEvt
    <2>2. /\ UNCHANGED <<setting, memory, redis, known, owner, root, handlerVars>>
          /\ \/ read' = read + 1 /\ process' = process /\ MayFail
             \/ read' = read /\ process' = process /\ Fails("readCrash")
             \/ read' = read /\ CommitRefused("StateEvt")
      BY <2>1 DEF Handles, MayFail
    <2>3. RECEIVED_PREPARE \in Nat /\ RECEIVED_FULFIL \in Nat
      BY DEF RECEIVED_PREPARE, RECEIVED_FULFIL
    <2>4. \E v \in Nat : Insert(events[read + 1].id, v) \/ UpdateFirst(events[read + 1].id, v)
      <3>1. CASE HandleParticipantCreatedStateEvt
        BY <1>4, <3>1 DEF HandleParticipantCreatedStateEvt
      <3>2. CASE HandleParticipantPositionChangedStateEvt
        BY <1>4, <3>2 DEF HandleParticipantPositionChangedStateEvt, UpdatePosition
      <3>3. CASE HandleTransferPreparedStateEvt
        BY <2>3, <3>3 DEF HandleTransferPreparedStateEvt
      <3>4. CASE HandleTransferFulfiledStateEvt
        BY <2>3, <3>4 DEF HandleTransferFulfiledStateEvt, UpdateFulfil
      <3>5. CASE HandleTransferStateChangedStateEvt
        BY <1>4, <3>5 DEF HandleTransferStateChangedStateEvt, UpdateTransferState
      <3> QED
        BY <1>5, <3>1, <3>2, <3>3, <3>4, <3>5 DEF ReadStateEvent
    <2> QED
      BY <1>2, <1>3, <1>4, <2>2, <2>4
  <1>6. CASE MongoFails
    BY <1>2, <1>3, <1>4, <1>6 DEF MongoFails, MayFail
  <1> QED
    BY <1>5, <1>6 DEF ReadNext

LEMMA ReadTyped ==
    ASSUME OthersOK, ReadOK, ReadNext
    PROVE  OthersOK' /\ ReadOK' /\ UNCHANGED <<setting, events, snapshots>>
  <1> USE DEF OthersOK
  <1>1. TopicsOK
    BY DEF HandlerOK
  <1>2. PICK e, n : e = events[read + 1] /\ n = read + 1
    OBVIOUS
  <1>3. /\ n \in 1..Len(events) /\ e \in StateEvent
        /\ UNCHANGED <<setting, memory, redis, known, owner, root, handlerVars>>
        /\ \/ read' = n /\ process' = process /\ MayFail
           \/ read' = read /\ process' = process /\ Fails("readCrash")
           \/ read' = read /\ CommitRefused("StateEvt")
        /\ \/ docs' = docs /\ Fails("mongo")
           \/ \E v \in Nat : Insert(e.id, v) \/ UpdateFirst(e.id, v)
    BY <1>1, <1>2, ReadIs
  <1>4. HandlerOK' /\ UNCHANGED <<events, snapshots>>
    BY <1>3, HandlerStill
  <1>5. ProcessOK' /\ MayFail
    BY <1>3, ProcessStill, CommitRefusedTyped DEF MayFail
  <1>6. FaultsOK'
    BY <1>3, <1>5, FaultsStep
  <1>7. docs \in [Id -> Seq(Nat)] /\ e.id \in Id
    BY <1>3 DEF ReadOK, StateEvent
  <1>8. docs' \in [Id -> Seq(Nat)]
    <2>1. CASE docs' = docs
      BY <1>7, <2>1
    <2>2. CASE \E v \in Nat : Insert(e.id, v) \/ UpdateFirst(e.id, v)
      <3>1. PICK v \in Nat : Insert(e.id, v) \/ UpdateFirst(e.id, v)
        BY <2>2
      <3>2. PICK d, S : d = docs[e.id] /\ S = Nat
        OBVIOUS
      <3>3. d \in Seq(Nat) /\ Len(d) \in Nat
        BY <1>7, <3>2
      <3>4. Append(d, v) \in Seq(Nat)
        BY <3>3
      <3>5. d # <<>> => [d EXCEPT ![1] = v] \in Seq(Nat)
        <4>1. d # <<>> => 1 \in 1..Len(d)
          BY <3>3
        <4> QED
          BY <3>3, <4>1, ExceptSeq
      <3>6. PICK w \in Seq(Nat) : docs' = [docs EXCEPT ![e.id] = w]
        BY <3>1, <3>2, <3>3, <3>4, <3>5 DEF Insert, UpdateFirst
      <3> QED
        BY <1>7, <3>6
    <2> QED
      BY <1>3, <2>1, <2>2
  <1>9. read' \in 0..Len(events')
    BY <1>1, <1>3, <1>4 DEF ReadOK, TopicsOK
  <1> QED
    BY <1>3, <1>4, <1>5, <1>6, <1>8, <1>9 DEF ReadOK

--------------------------------------------------------------------------------
(* Every variable holds a value of its kind *)

LEMMA TypeInit == Init => TypeInv
  <1> SUFFICES ASSUME Init PROVE TypeInv
    OBVIOUS
  <1> USE DEF Init
  <1>1. setting \in Settings /\ setting.faults \in Nat /\ setting.stops \in Nat /\ setting.hours \in Nat
        /\ setting.started \in BOOLEAN
    BY SettingFacts DEF ProcessInit
  <1>2. FaultsOK
    BY <1>1 DEF ProcessInit, FaultsOK
  <1>3. ProcessOK
    <2>1. ToOpen \subseteq Handlers \X Resource
      BY <1>1, ToOpenTyped
    <2>2. 0 \in 0..setting.stops
      BY <1>1
    <2> QED
      BY <1>1, <2>1, <2>2 DEF ProcessInit, Off, ProcessOK, Phase
  <1>4. RepoOK
    <2>1. owner \in Proc
      BY ConstantFacts DEF RepoInit
    <2> QED
      BY <2>1, ConstantFacts DEF RepoInit, RepoOK
  <1>5. TopicsOK
    BY DEF HandlerInit, TopicsOK
  <1>6. CommandsOK
    <2>1. Len(setting.requests) \in Nat
      BY <1>1, SettingFacts
    <2> QED
      BY <2>1 DEF HandlerInit, CommandsOK
  <1>7. HandOK
    BY DEF HandlerInit, RepoInit, HandOK, Step
  <1>8. OperatorOK
    <2>1. <<>> \in Seq(Batch)
      OBVIOUS
    <2>2. Unknown \in Counters
      BY CountersTyped
    <2>3. Len(events) = 0 /\ Len(snapshots) = 0
      BY DEF HandlerInit
    <2>4. counters \in Counters /\ saved \in Counters /\ batches \in Seq(Batch)
      BY <2>1, <2>2 DEF OperatorInit
    <2>5. up = FALSE /\ ticks = 0 /\ batches = <<>> /\ heard = [events |-> 0, snapshots |-> 0] /\ hours = 0
      BY DEF OperatorInit
    <2>6. since \in [Id -> Nat]
      BY DEF OperatorInit
    <2>7. ticks \in 0..MaxPending /\ hours \in 0..setting.hours
      BY <1>1, <2>5, ConstantFacts
    <2>8. heard \in [events : 0..Len(events), snapshots : 0..Len(snapshots)]
      BY <2>3, <2>5
    <2> QED
      BY <2>4, <2>5, <2>6, <2>7, <2>8 DEF OperatorOK, Batch
  <1>9. ReadOK
    <2>1. <<>> \in Seq(Nat)
      OBVIOUS
    <2>2. Len(events) = 0
      BY DEF HandlerInit
    <2> QED
      BY <2>1, <2>2 DEF ReadInit, ReadOK
  <1> QED
    BY <1>2, <1>3, <1>4, <1>5, <1>6, <1>7, <1>8, <1>9 DEF TypeInv

LEMMA TypeParts == TypeInv <=> OthersOK /\ OperatorOK /\ ReadOK
  BY DEF TypeInv, OthersOK, HandlerOK

\* The handler's steps, and requests to it.
LEMMA HandlerTyped == OthersOK /\ HandlerNext => OthersOK' /\ Leaves
  <1> SUFFICES ASSUME OthersOK, HandlerNext PROVE OthersOK' /\ Leaves
    OBVIOUS
  <1>1. HandlerOK' /\ Leaves
    BY HandleTyped, RequestTyped, ElsewhereTyped DEF HandlerNext, OthersOK
  <1> QED
    BY <1>1, OthersStill DEF Leaves

\* The process goes on or ends; then its handler and its operator forget.
LEMMA ProcessNextIs ==
    ASSUME ProcessNext
    PROVE  /\ ProcessSteps
           /\ \/ Stays
              \/ Forgets /\ process' = Off(process'.stops)
  BY DEF ProcessNext, GoesOn, ProcessSteps, Exit, InterruptEarly, Off

LEMMA ProcessNextTyped ==
    OthersOK /\ OperatorOK /\ ProcessNext => OthersOK' /\ OperatorOK' /\ UNCHANGED <<setting, events, snapshots>>
  <1> SUFFICES ASSUME OthersOK, OperatorOK, ProcessNext
               PROVE  OthersOK' /\ OperatorOK' /\ UNCHANGED <<setting, events, snapshots>>
    OBVIOUS
  <1>1. ProcessOK' /\ setting' = setting /\ MayFail
    BY ProcessNextIs, ProcessTyped DEF OthersOK
  <1>2. FaultsOK'
    BY <1>1, FaultsStep DEF OthersOK
  <1>3. CASE Stays
    <2>1. /\ UNCHANGED <<memory, redis, known, owner, root, handlerVars>> /\ UNCHANGED operatorVars
      BY <1>3 DEF Stays
    <2>2. HandlerOK' /\ UNCHANGED <<events, snapshots>>
      BY <1>1, <2>1, HandlerStill DEF OthersOK
    <2>3. OperatorOK'
      BY <1>1, <2>1, <2>2 DEF OperatorOK, operatorVars
    <2> QED
      BY <1>1, <1>2, <2>2, <2>3 DEF OthersOK
  <1>4. CASE Forgets
    <2>1. /\ HandlerForgets /\ UNCHANGED <<saved, ticks, heard, since, hours>>
          /\ up' = FALSE /\ counters' = Unknown /\ batches' = <<>>
      BY <1>4 DEF Forgets, OperatorForgets
    <2>2. HandlerOK' /\ UNCHANGED <<events, snapshots>>
      BY <1>1, <2>1, ForgetsTyped DEF OthersOK
    <2>3. <<>> \in Seq(Batch) /\ Unknown \in Counters
      BY CountersTyped
    <2>4. OperatorOK'
      BY <1>1, <2>1, <2>2, <2>3 DEF OperatorOK, Batch
    <2> QED
      BY <1>1, <1>2, <2>2, <2>4 DEF OthersOK
  <1> QED
    BY <1>3, <1>4, ProcessNextIs

LEMMA OperatorTyped ==
    OthersOK /\ OperatorOK /\ OperatorNext => OthersOK' /\ OperatorOK' /\ UNCHANGED <<setting, events, snapshots>>
  BY HearTyped, ExecuteTyped, StartOperatorTyped, PublishCommandsTyped, HourTyped
     DEF OperatorNext, Operate

LEMMA TypeStep == TypeInv /\ [Next]_vars => TypeInv'
  <1> SUFFICES ASSUME TypeInv, [Next]_vars PROVE TypeInv'
    OBVIOUS
  <1>0. OthersOK /\ OperatorOK /\ ReadOK /\ TopicsOK
    BY TypeParts DEF TypeInv
  <1>1. CASE ProcessNext /\ UNCHANGED readVars
    <2>1. OthersOK' /\ OperatorOK' /\ UNCHANGED <<setting, events, snapshots>>
      BY <1>0, <1>1, ProcessNextTyped
    <2>2. ReadOK'
      BY <1>0, <1>1, <2>1 DEF ReadOK, readVars
    <2> QED
      BY <2>1, <2>2 DEF TypeInv, OthersOK, HandlerOK
  <1>2. CASE HandlerNext /\ UNCHANGED <<operatorVars, readVars>>
    <2>1. OthersOK' /\ Leaves
      BY <1>0, <1>2, HandlerTyped
    <2>2. TopicsOK'
      BY <2>1 DEF OthersOK, HandlerOK
    <2>3. OperatorOK'
      BY <1>0, <1>2, <2>1, <2>2, OperatorStill DEF Leaves
    <2>4. ReadOK'
      BY <1>0, <1>2, <2>1, <2>2, ReadStill DEF Leaves
    <2> QED
      BY <2>1, <2>3, <2>4 DEF TypeInv, OthersOK, HandlerOK
  <1>3. CASE OperatorNext /\ UNCHANGED readVars
    <2>1. OthersOK' /\ OperatorOK' /\ UNCHANGED <<setting, events, snapshots>>
      BY <1>0, <1>3, OperatorTyped
    <2>2. ReadOK'
      BY <1>0, <1>3, <2>1 DEF ReadOK, readVars
    <2> QED
      BY <2>1, <2>2 DEF TypeInv, OthersOK, HandlerOK
  <1>4. CASE ReadNext /\ UNCHANGED operatorVars
    <2>1. OthersOK' /\ ReadOK' /\ UNCHANGED <<setting, events, snapshots>>
      BY <1>0, <1>4, ReadTyped
    <2>2. OperatorOK'
      BY <1>0, <1>4, <2>1 DEF OperatorOK, operatorVars
    <2> QED
      BY <2>1, <2>2 DEF TypeInv, OthersOK, HandlerOK
  <1>5. CASE UNCHANGED vars
    <2>1. /\ UNCHANGED <<setting, process, faults, memory, redis, known, owner, root>>
          /\ UNCHANGED handlerVars /\ UNCHANGED operatorVars /\ UNCHANGED readVars
      BY <1>5 DEF vars, repoVars
    <2>2. HandlerOK' /\ UNCHANGED <<events, snapshots>>
      BY <1>0, <2>1, HandlerStill DEF OthersOK
    <2>3. OthersOK'
      BY <1>0, <2>1, <2>2, OthersStill DEF MayFail
    <2>4. OperatorOK' /\ ReadOK'
      BY <1>0, <2>1, <2>2 DEF OperatorOK, operatorVars, ReadOK, readVars
    <2> QED
      BY <2>3, <2>4 DEF TypeInv, OthersOK, HandlerOK
  <1> QED
    BY <1>1, <1>2, <1>3, <1>4, <1>5 DEF Next

\* Every variable holds a value of its kind, and what the operator has to publish, the
\* state that a repository keeps and the answer of the handler fit where the handler
\* stands, whatever fails, ends or starts again.
THEOREM TypeInvariant == Spec => []TypeInv
  <1>1. Init => TypeInv
    BY TypeInit
  <1>2. TypeInv /\ [Next]_vars => TypeInv'
    BY TypeStep
  <1> QED
    BY <1>1, <1>2, PTL DEF Spec

\* What the run state_events checks of the types, for any settings.
THEOREM TypeCorrect == Spec => []TypeOK
  <1>1. TypeInv => TypeOK
    BY TypesFollow
  <1> QED
    BY <1>1, TypeInvariant, PTL

--------------------------------------------------------------------------------
(* The operator never undercounts *)

\* A counter is at most this much behind.
Within(c) == \A id \in DOMAIN c \intersect Id : c[id].left <= MaxEvents - since[id] + Lost("state")

\* What redis does not have yet, the operator either does not know or failed to save as
\* often as it counted it; and what redis has, an operator that runs has.
CountsOK ==
    /\ Within(counters) /\ Within(saved)
    /\ up => DOMAIN saved \subseteq DOMAIN counters
    /\ \A id \in Id \ DOMAIN saved : since[id] <= Lost("state")

LEMMA LostGrows ==
    ASSUME FaultsOK
    PROVE  /\ Lost("state") \in Nat
           /\ MayFail => Lost("state")' \in Nat /\ Lost("state") <= Lost("state")'
           /\ Fails("state") => Lost("state") + 1 <= Lost("state")'
  <1>1. faults.count \in Nat
    BY SettingFacts DEF FaultsOK
  <1>2. Lost("state") \in Nat
    BY <1>1 DEF Lost
  <1>3. ASSUME NEW kind, Fails(kind)
        PROVE  /\ Lost("state")' \in Nat /\ Lost("state") <= Lost("state")'
               /\ kind = "state" => Lost("state") + 1 <= Lost("state")'
    <2>1. faults'.count = faults.count + 1 /\ faults'.kinds = faults.kinds \union {kind}
      BY <1>3 DEF Fails
    <2>2. "state" \in faults.kinds => "state" \in faults'.kinds
      BY <2>1
    <2>3. kind = "state" => "state" \in faults'.kinds
      BY <2>1
    <2> QED
      BY <1>1, <2>1, <2>2, <2>3 DEF Lost
  <1>4. UNCHANGED faults => Lost("state")' = Lost("state")
    BY DEF Lost
  <1> QED
    BY <1>2, <1>3, <1>4 DEF MayFail

LEMMA CounterFacts ==
    ASSUME NEW c, c \in Counters
    PROVE  \A id \in DOMAIN c : c[id].left \in Int /\ c[id].left <= MaxEvents
  <1>1. \A id \in DOMAIN c : c[id] \in CounterType
    BY CountersAre
  <1> QED
    BY <1>1 DEF CounterType

\* Nothing is counted; the operator goes on, or forgets what it had counted.
LEMMA CountsStill ==
    ASSUME FaultsOK, OperatorOK, CountsOK, MayFail, UNCHANGED <<saved, since>>,
           \/ UNCHANGED <<up, counters>>
           \/ up' = FALSE /\ counters' = Unknown
    PROVE  CountsOK'
  <1>1. Lost("state") \in Nat /\ Lost("state")' \in Nat /\ Lost("state") <= Lost("state")'
    BY LostGrows
  <1>2. MaxEvents \in Nat /\ since \in [Id -> Nat] /\ counters \in Counters /\ saved \in Counters
    BY ConstantFacts DEF OperatorOK
  <1>3. Within(saved)'
    BY <1>1, <1>2, CounterFacts DEF CountsOK, Within
  <1>4. Within(counters)'
    <2>1. CASE counters' = counters
      BY <1>1, <1>2, <2>1, CounterFacts DEF CountsOK, Within
    <2>2. CASE counters' = Unknown
      BY <2>2, CountersTyped DEF Within
    <2> QED
      BY <2>1, <2>2
  <1>5. \A id \in Id \ DOMAIN saved' : since'[id] <= Lost("state")'
    BY <1>1, <1>2 DEF CountsOK
  <1>6. up' => DOMAIN saved' \subseteq DOMAIN counters'
    BY DEF CountsOK
  <1> QED
    BY <1>3, <1>4, <1>5, <1>6 DEF CountsOK

\* What the operator makes of its counters may be saved, or not.
Fitting(next) ==
    /\ next \in Counters
    /\ \A id \in DOMAIN next \intersect Id : next[id].left <= MaxEvents - since'[id] + Lost("state")
    /\ DOMAIN saved \subseteq DOMAIN next
    /\ \A id \in Id \ DOMAIN next : since'[id] = since[id]
    /\ since' \in [Id -> Nat] /\ \A id \in Id : since'[id] <= since[id] + 1

LEMMA CountsEnd ==
    ASSUME FaultsOK, OperatorOK, CountsOK, up, NEW next, NEW more, Ends(next, more), Fitting(next),
           MayFail
    PROVE  CountsOK'
  <1>1. Lost("state") \in Nat /\ Lost("state")' \in Nat /\ Lost("state") <= Lost("state")'
    BY LostGrows
  <1>2. MaxEvents \in Nat /\ since \in [Id -> Nat] /\ since' \in [Id -> Nat] /\ saved \in Counters
        /\ next \in Counters
    BY ConstantFacts DEF OperatorOK, Fitting
  <1>3. ASSUME NEW id \in DOMAIN next \intersect Id
        PROVE  next[id].left <= MaxEvents - since'[id] + Lost("state")'
    <2>1. next[id].left <= MaxEvents - since'[id] + Lost("state")
      BY DEF Fitting
    <2>2. next[id].left \in Int
      BY <1>2, CounterFacts
    <2>3. since'[id] \in Nat
      BY <1>2
    <2> QED
      BY <1>1, <1>2, <2>1, <2>2, <2>3
  <1>4. ASSUME NEW id \in Id \ DOMAIN next
        PROVE  since'[id] <= Lost("state")'
    <2>1. id \notin DOMAIN saved /\ since'[id] = since[id]
      BY DEF Fitting
    <2>2. since[id] <= Lost("state") /\ since[id] \in Nat
      BY <1>2, <2>1 DEF CountsOK
    <2> QED
      BY <1>1, <2>1, <2>2
  <1>5. CASE saved' = next
    <2>1. Within(saved)'
      BY <1>3, <1>5 DEF Within
    <2>2. counters' = next \/ (counters' = Unknown /\ up' = FALSE)
      BY DEF Ends, OperatorForgets
    <2>3. Within(counters)'
      BY <1>3, <2>2, CountersTyped DEF Within
    <2> QED
      BY <1>4, <1>5, <2>1, <2>2, <2>3 DEF CountsOK
  <1>6. CASE saved' # next
    <2>1. counters' = next /\ Fails("state") /\ saved' = saved
      BY <1>6 DEF Ends, UpdateState
    <2>2. Lost("state") + 1 <= Lost("state")'
      BY <2>1, LostGrows
    <2>3. Within(counters)'
      BY <1>3, <2>1 DEF Within
    <2>4. Within(saved)'
      <3>1. ASSUME NEW id \in DOMAIN saved \intersect Id
            PROVE  saved[id].left <= MaxEvents - since'[id] + Lost("state")'
        <4>1. saved[id].left <= MaxEvents - since[id] + Lost("state")
          BY DEF CountsOK, Within
        <4>2. saved[id].left \in Int
          BY <1>2, CounterFacts
        <4>3. since'[id] <= since[id] + 1 /\ since'[id] \in Nat /\ since[id] \in Nat
          BY <1>2 DEF Fitting
        <4> QED
          BY <1>1, <1>2, <2>2, <4>1, <4>2, <4>3
      <3> QED
        BY <2>1, <3>1 DEF Within
    <2>5. \A id \in Id \ DOMAIN saved' : since'[id] <= Lost("state")'
      <3>1. ASSUME NEW id \in Id \ DOMAIN saved
            PROVE  since'[id] <= Lost("state")'
        <4>1. since[id] <= Lost("state")
          BY DEF CountsOK
        <4>2. since'[id] <= since[id] + 1 /\ since'[id] \in Nat /\ since[id] \in Nat
          BY <1>2 DEF Fitting
        <4> QED
          BY <1>1, <2>2, <4>1, <4>2
      <3> QED
        BY <2>1, <3>1
    <2>6. DOMAIN saved' \subseteq DOMAIN counters'
      BY <2>1 DEF Fitting
    <2> QED
      BY <2>3, <2>4, <2>5, <2>6 DEF CountsOK
  <1> QED
    BY <1>5, <1>6

LEMMA HearCounts ==
    ASSUME TypeInv, CountsOK, HearStateEvent \/ HearSnapshot
    PROVE  CountsOK'
  <1>1. TopicsOK /\ OperatorOK /\ OthersOK /\ FaultsOK
    BY DEF TypeInv, OthersOK, HandlerOK
  <1>2. up /\ setting' = setting
    BY <1>1, HearIs
  <1>3. PICK id, next :
           /\ id \in Id /\ Ends(next, batches)
           /\ \/ /\ id \in DOMAIN counters /\ HeardAs(next, id, counters[id].left - 1)
                 /\ since' = [since EXCEPT ![id] = @ + 1]
              \/ /\ id \in DOMAIN counters /\ HeardAs(next, id, MaxEvents)
                 /\ since' = [since EXCEPT ![id] = 0]
              \/ /\ id \notin DOMAIN counters /\ HeardAs(next, id, MaxEvents)
                 /\ since' = since
    BY <1>1, HearIs, Zenon
  <1>4. /\ since \in [Id -> Nat] /\ counters \in Counters /\ saved \in Counters /\ MaxEvents \in Nat
        /\ batches \in Seq(Batch)
    BY <1>1, ConstantFacts DEF OperatorOK, Batch
  <1>5. Lost("state") \in Nat
    BY <1>1, LostGrows
  <1>6. /\ next \in Counters /\ DOMAIN next = DOMAIN counters \union {id}
        /\ \A i \in DOMAIN counters \ {id} : next[i] = counters[i]
    BY <1>3 DEF HeardAs
  <1>7. /\ since' \in [Id -> Nat] /\ \A i \in Id \ {id} : since'[i] = since[i]
        /\ since'[id] <= since[id] + 1
    BY <1>3, <1>4
  <1>8. next[id].left <= MaxEvents - since'[id] + Lost("state")
    <2>1. CASE /\ id \in DOMAIN counters /\ HeardAs(next, id, counters[id].left - 1)
               /\ since' = [since EXCEPT ![id] = @ + 1]
      <3>1. next[id].left = counters[id].left - 1 /\ since'[id] = since[id] + 1
        BY <1>3, <1>4, <2>1 DEF HeardAs
      <3>2. counters[id].left <= MaxEvents - since[id] + Lost("state")
        BY <1>3, <2>1 DEF CountsOK, Within
      <3>3. counters[id].left \in Int /\ since[id] \in Nat
        BY <1>3, <1>4, <2>1, CounterFacts
      <3> QED
        BY <1>4, <1>5, <3>1, <3>2, <3>3
    <2>2. CASE HeardAs(next, id, MaxEvents) /\ since' = [since EXCEPT ![id] = 0]
      <3>1. next[id].left = MaxEvents /\ since'[id] = 0
        BY <1>3, <1>4, <2>2 DEF HeardAs
      <3> QED
        BY <1>4, <1>5, <3>1
    <2>3. CASE id \notin DOMAIN counters /\ HeardAs(next, id, MaxEvents) /\ since' = since
      <3>1. next[id].left = MaxEvents /\ since'[id] = since[id]
        BY <2>3 DEF HeardAs
      <3>2. since[id] <= Lost("state") /\ since[id] \in Nat
        BY <1>2, <1>3, <1>4, <2>3 DEF CountsOK
      <3> QED
        BY <1>4, <1>5, <3>1, <3>2
    <2> QED
      BY <1>3, <2>1, <2>2, <2>3
  <1>9. Fitting(next)
    <2>1. \A i \in DOMAIN next \intersect Id : next[i].left <= MaxEvents - since'[i] + Lost("state")
      BY <1>6, <1>7, <1>8 DEF CountsOK, Within
    <2>2. DOMAIN saved \subseteq DOMAIN next
      BY <1>2, <1>6 DEF CountsOK
    <2>3. \A i \in Id : since'[i] <= since[i] + 1
      <3> TAKE i \in Id
      <3>1. since[i] \in Nat
        BY <1>4
      <3> QED
        BY <1>7, <3>1
    <2> QED
      BY <1>6, <1>7, <2>1, <2>2, <2>3 DEF Fitting
  <1>10. MayFail
    BY <1>1, <1>2, <1>3, <1>4, <1>6, EndsTyped DEF OthersOK
  <1> QED
    BY <1>1, <1>2, <1>3, <1>9, <1>10, CountsEnd

LEMMA ExecuteCounts ==
    ASSUME TypeInv, CountsOK, Execute
    PROVE  CountsOK'
  <1>1. TopicsOK /\ OperatorOK /\ OthersOK /\ FaultsOK /\ ProcessOK
    BY DEF TypeInv, OthersOK, HandlerOK
  <1>2. up /\ setting' = setting /\ since' = since
    BY <1>1, ExecuteIs
  <1>3. since \in [Id -> Nat] /\ counters \in Counters /\ saved \in Counters /\ MaxEvents \in Nat
    BY <1>1, ConstantFacts DEF OperatorOK
  <1>4. CASE \E more : more \in Seq(Batch) /\ Ends(LoadState, more)
    <2>1. PICK more : more \in Seq(Batch) /\ Ends(LoadState, more)
      BY <1>4
    <2>2. IsOver(LoadState, saved, counters)
      BY <1>3, OverIs DEF LoadState
    <2>3. Fitting(LoadState)
      <3>1. \A id \in Id : since[id] \in Nat
        BY <1>3
      <3> QED
        BY <1>2, <1>3, <2>2, <3>1 DEF Fitting, IsOver, CountsOK, Within
    <2>4. MayFail
      BY <1>1, <1>2, <2>1, <2>2, EndsTyped DEF IsOver
    <2> QED
      BY <1>1, <1>2, <2>1, <2>3, <2>4, CountsEnd
  <1>5. CASE Fails("state") /\ UNCHANGED <<process, up, counters, saved, batches>>
    <2>1. MayFail
      BY <1>5 DEF MayFail
    <2> QED
      BY <1>1, <1>2, <1>5, <2>1, CountsStill
  <1> QED
    BY <1>1, <1>4, <1>5, ExecuteIs

LEMMA StartCounts ==
    ASSUME TypeInv, CountsOK, StartOperator
    PROVE  CountsOK'
  <1>1. OperatorOK /\ FaultsOK
    BY DEF TypeInv
  <1>2. /\ up' = TRUE /\ UNCHANGED <<faults, saved, since>>
        /\ counters' = Over(LoadState, [key \in GetAllIds |-> Unseen])
    BY DEF StartOperator, repoVars
  <1>3. since \in [Id -> Nat] /\ counters \in Counters /\ saved \in Counters /\ MaxEvents \in Nat
    BY <1>1, ConstantFacts DEF OperatorOK
  <1>4. PICK m, n : m = LoadState /\ n = [key \in GetAllIds |-> Unseen]
    OBVIOUS
  <1>5. IsOver(m, saved, counters)
    BY <1>3, <1>4, OverIs DEF LoadState
  <1>6. n \in Counters /\ DOMAIN n = GetAllIds /\ \A id \in DOMAIN n : n[id].left = MaxEvents
    BY <1>4, CountersTyped
  <1>7. IsOver(counters', m, n)
    <2>1. m \in Counters
      BY <1>5 DEF IsOver
    <2>2. IsOver(Over(m, n), m, n)
      BY <1>6, <2>1, OverIs, Zenon
    <2>3. counters' = Over(m, n)
      BY <1>2, <1>4
    <2> QED
      BY <2>2, <2>3
  <1>8. Lost("state")' = Lost("state") /\ Lost("state") \in Nat
    BY <1>1, <1>2, LostGrows DEF Lost
  <1>9. Within(counters)'
    <2>1. ASSUME NEW id \in DOMAIN counters' \intersect Id
          PROVE  counters'[id].left <= MaxEvents - since[id] + Lost("state")
      <3>1. since[id] \in Nat
        BY <1>3
      <3>2. CASE id \in DOMAIN saved
        BY <1>5, <1>7, <2>1, <3>2 DEF IsOver, CountsOK, Within
      <3>3. CASE id \in DOMAIN counters /\ id \notin DOMAIN saved
        BY <1>5, <1>7, <2>1, <3>3 DEF IsOver, CountsOK, Within
      <3>4. CASE id \notin DOMAIN saved /\ id \notin DOMAIN counters
        <4>1. counters'[id].left = MaxEvents
          BY <1>5, <1>6, <1>7, <2>1, <3>4 DEF IsOver
        <4>2. since[id] <= Lost("state")
          BY <3>4 DEF CountsOK
        <4> QED
          BY <1>3, <1>8, <3>1, <4>1, <4>2
      <3> QED
        BY <3>2, <3>3, <3>4
    <2> QED
      BY <1>2, <1>8, <2>1 DEF Within
  <1>10. Within(saved)'
    BY <1>2, <1>8 DEF CountsOK, Within
  <1>11. DOMAIN saved' \subseteq DOMAIN counters'
    BY <1>2, <1>5, <1>7 DEF IsOver
  <1>12. \A id \in Id \ DOMAIN saved' : since'[id] <= Lost("state")'
    BY <1>2, <1>8 DEF CountsOK
  <1> QED
    BY <1>9, <1>10, <1>11, <1>12 DEF CountsOK

LEMMA PublishCounts ==
    ASSUME TypeInv, CountsOK, PublishCommands \/ PublishCommandsFails
    PROVE  CountsOK'
  <1>1. OperatorOK /\ FaultsOK
    BY DEF TypeInv
  <1>2. /\ UNCHANGED <<up, counters, since>> /\ MayFail
        /\ saved' = saved \/ (saved' = counters /\ faults' = faults)
        /\ batches # <<>>
    BY DEF PublishCommands, PublishCommandsFails, repoVars, MayFail
  <1>3. CASE saved' = saved
    BY <1>1, <1>2, <1>3, CountsStill
  <1>4. CASE saved' = counters /\ faults' = faults
    <2>1. up
      BY <1>1, <1>2 DEF OperatorOK
    <2>2. Lost("state")' = Lost("state")
      BY <1>4 DEF Lost
    <2> QED
      BY <1>2, <1>4, <2>1, <2>2 DEF CountsOK, Within
  <1> QED
    BY <1>2, <1>3, <1>4

LEMMA HourCounts ==
    ASSUME TypeInv, CountsOK, Hour
    PROVE  CountsOK'
  <1>1. OperatorOK /\ FaultsOK
    BY DEF TypeInv
  <1>2. /\ UNCHANGED <<faults, up, since>>
        /\ counters' = [id \in DOMAIN counters |-> IF counters[id].last = "recent"
                           THEN [counters[id] EXCEPT !.last = "old"] ELSE counters[id]]
        /\ saved' = [id \in DOMAIN saved |-> IF saved[id].last = "recent"
                           THEN [saved[id] EXCEPT !.last = "old"] ELSE saved[id]]
    BY Zenon DEF Hour, repoVars
  <1>3. /\ DOMAIN counters' = DOMAIN counters /\ DOMAIN saved' = DOMAIN saved
        /\ \A id \in DOMAIN counters : counters'[id].left = counters[id].left
        /\ \A id \in DOMAIN saved : saved'[id].left = saved[id].left
    BY <1>1, <1>2, AgedIs DEF OperatorOK
  <1>4. Lost("state")' = Lost("state")
    BY <1>2 DEF Lost
  <1> QED
    BY <1>2, <1>3, <1>4 DEF CountsOK, Within

LEMMA CountsInit == Init => CountsOK
  <1> SUFFICES ASSUME Init PROVE CountsOK
    OBVIOUS
  <1>1. /\ counters = Unknown /\ saved = Unknown /\ since = [id \in Id |-> 0]
        /\ faults = [count |-> 0, kinds |-> {}]
    BY DEF Init, OperatorInit, ProcessInit
  <1>2. Lost("state") = 0
    BY <1>1 DEF Lost
  <1> QED
    BY <1>1, <1>2, CountersTyped DEF CountsOK, Within

LEMMA CountsStep == TypeInv /\ CountsOK /\ [Next]_vars => CountsOK'
  <1> SUFFICES ASSUME TypeInv, CountsOK, [Next]_vars PROVE CountsOK'
    OBVIOUS
  <1>0. OthersOK /\ OperatorOK /\ ReadOK /\ TopicsOK /\ FaultsOK /\ ProcessOK
    BY TypeParts DEF TypeInv
  <1>1. CASE ProcessNext
    <2>1. MayFail
      BY <1>0, <1>1, ProcessNextIs, ProcessTyped
    <2>2. \/ UNCHANGED <<up, counters, saved, since>>
          \/ up' = FALSE /\ counters' = Unknown /\ UNCHANGED <<saved, since>>
      BY <1>1, ProcessNextIs DEF Stays, Forgets, OperatorForgets, operatorVars
    <2> QED
      BY <1>0, <2>1, <2>2, CountsStill
  <1>2. CASE HandlerNext /\ UNCHANGED <<operatorVars, readVars>>
    <2>1. Leaves
      BY <1>0, <1>2, HandlerTyped
    <2> QED
      BY <1>0, <1>2, <2>1, CountsStill DEF Leaves, operatorVars
  <1>3. CASE OperatorNext
    <2>1. CASE OnTimer
      BY <1>0, <2>1, CountsStill DEF OnTimer, repoVars, MayFail
    <2>2. CASE CrashOperator
      BY <1>0, <2>2, CountsStill DEF CrashOperator, OperatorForgets, MayFail
    <2> QED
      BY <1>3, <2>1, <2>2, HearCounts, ExecuteCounts, StartCounts, PublishCounts, HourCounts
         DEF OperatorNext, Operate
  <1>4. CASE ReadNext /\ UNCHANGED operatorVars
    <2>1. MayFail
      BY <1>0, <1>4, ReadIs DEF CommitRefused, MayFail
    <2> QED
      BY <1>0, <1>4, <2>1, CountsStill DEF operatorVars
  <1>5. CASE UNCHANGED vars
    <2>1. UNCHANGED <<faults, up, counters, saved, since>>
      BY <1>5 DEF vars, repoVars, operatorVars
    <2> QED
      BY <1>0, <2>1, CountsStill DEF MayFail
  <1> QED
    BY <1>1, <1>2, <1>3, <1>4, <1>5 DEF Next

\* A participant's counter, in memory and in redis, has counted every state event the
\* operator was told of since the last snapshot but for one per save that failed,
\* however often the operator ends, starts again or is told twice.
THEOREM CountersNeverUndercount == Spec => []NeverUndercounts
  <1>1. CountsOK => NeverUndercounts
    BY DEF CountsOK, Within, NeverUndercounts
  <1>2. Init => CountsOK
    BY CountsInit
  <1>3. TypeInv /\ CountsOK /\ [Next]_vars => CountsOK'
    BY CountsStep
  <1> QED
    BY <1>1, <1>2, <1>3, TypeInvariant, PTL DEF Spec

================================================================================
