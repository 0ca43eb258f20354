------------------------------ MODULE MessagingProofs ------------------------------
(******************************************************************************)
(* Proofs about Messaging, for every client and every number of messages,     *)
(* requests and failures.                                                      *)
(******************************************************************************)
EXTENDS Messaging, FiniteSetTheorems, TLAPS

--------------------------------------------------------------------------------
(* The consumers: what the inductive invariant adds to the properties *)

\* What a message may have been repeated for.
Paid == IF faults.kinds \cap Refetching = {} THEN 0 ELSE faults.count

\* The callback has still to finish with message i.
Waits(i) == \E b \in InHand : (b.at = i /\ b.step = "handle") \/ (b.at < i /\ i <= b.last)

\* The callback has finished with it, if it was to get it at all.
Done(i) == Wanted(i) /\ i \notin skipped => Times(i) > 0

Sequential == Kind = "css" => setting.sync
Singles    == Kind = "css" => setting.batchSize = 1

BatchType == [at : Nat \ {0}, last : Nat \ {0}, step : {"handle", "commit"}]

\* What a client holds is in the order of the partition, each message once (not so
\* the stream client, of which below).
Consecutive ==
    /\ \A b \in InHand : b.at <= b.last /\ b.last < next
    /\ \A k, l \in DOMAIN queue : k < l => queue[k].last < queue[l].at
    /\ \A w \in work : \A k \in DOMAIN queue : w.last < queue[k].at
    /\ \A v, w \in work : v = w \/ v.last < w.at \/ w.last < v.at

\* Which client holds what, and when.
Habits ==
    /\ Kind # "stream" /\ rebalance = "none"
    /\ Kind \in {"rdkafka", "kafkajs"} => queue = <<>>
    /\ Kind = "css" /\ ~setting.sync => queue = <<>>
    /\ pending > 0 => Kind = "rdkafka"
    /\ mode = "down" => queue = <<>> /\ work = {} /\ pending = 0
    /\ Sequential => \A w, v \in work : w = v
    /\ Singles => \A b \in InHand : b.at = b.last
    /\ faults.count = 0 => mode \in {"down", "running"}
    /\ faults.count = 0 /\ mode = "down" => committed = Nothing /\ next = 1
    /\ \A b \in InHand : b.step = "commit" /\ Readable(b.at) => Times(b.at) > 0

HandsType ==
    /\ next \in Nat \ {0} /\ next <= Len(log) + 1
    /\ queue \in Seq(BatchType)
    /\ work \subseteq BatchType

ConsumerTypes ==
    /\ HandsType
    /\ mode \in {"down", "running", "closed", "dead"}
    /\ pending \in 0..Len(log)
    /\ rebalance \in {"none", "waiting", "joining"}
    /\ handled = [i \in DOMAIN handled |-> handled[i]]
    /\ DOMAIN handled \subseteq DOMAIN log
    /\ \A i \in DOMAIN handled : handled[i] \in Nat
    /\ skipped \subseteq DOMAIN log

\* Nothing fetched is forgotten, but by a process that stopped or a client that
\* goes on after an error.
NothingForgotten ==
    (OneByOne /\ mode # "down") \/ faults.count = 0 =>
        \A i \in 1..Len(log) : i < next /\ ~Done(i) => Waits(i)

CommittedDone ==
    /\ OneByOne => \A i \in 1..Len(log) : i <= committed \/ i <= pending => Done(i)
    /\ faults.count = 0 => committed < next /\ pending < next

\* Each time a message is handled is paid for by a failure, but one; those of a
\* client that will not fetch again as it is, are paid for in advance.
Repeats ==
    \A i \in 1..Len(log) :
        IF mode = "running"
        THEN /\ Times(i) <= Paid + 1
             /\ Waits(i) \/ i >= next => Times(i) <= Paid
        ELSE /\ Times(i) <= Paid
             /\ Waits(i) => Times(i) < Paid

\* All clients but the stream client: nothing is in their hands twice.
OrderedInv ==
    /\ KafkaTypeOK
    /\ ConsumerTypes
    /\ Consecutive
    /\ Habits
    /\ NothingForgotten
    /\ CommittedDone
    /\ HandledInOrder
    /\ Repeats

\* The stream client.  After it has joined again it fetches what its buffer still
\* holds, so that a message may be there twice.
Copies(q, i) == Cardinality({k \in DOMAIN q : q[k].at = i})

\* What may still be handled: the message at work, and what will be fetched as the
\* client is, or once more after it joined again or was started.
AtWork(i) == IF \E w \in work : w.at = i /\ w.step = "handle" THEN 1 ELSE 0
Again(i)  == IF mode = "running" /\ rebalance = "none" THEN IF i >= next THEN 1 ELSE 0
             ELSE IF mode = "running" /\ i >= next THEN 2 ELSE 1

StreamHabits ==
    /\ Kind = "stream" /\ pending = 0
    /\ rebalance # "none" => mode = "running" /\ Paid > 0
    /\ mode = "down" => queue = <<>> /\ work = {}
    /\ \A v, w \in work : v = w
    /\ \A b \in InHand : b.at = b.last /\ b.at <= Len(log)
    /\ \A b \in InHand : b.step = "commit" /\ Readable(b.at) => Times(b.at) > 0

\* What lies before a message in the client's hands was handled, or comes first.
StreamOrder ==
    /\ \A i \in 1..Len(log) : i <= committed => Done(i)
    /\ \A w \in work : \A i \in 1..(w.at - 1) : Done(i)
    /\ \A k \in DOMAIN queue : \A i \in 1..(queue[k].at - 1) :
           Done(i) \/ (\E w \in work : w.at = i) \/ \E l \in 1..(k - 1) : queue[l].at = i
    /\ mode # "down" => \A i \in 1..(next - 1) : Done(i) \/ \E b \in InHand : b.at = i

\* Each time a message was or may still be handled is paid for by a failure, but one.
StreamRepeats ==
    \A i \in 1..Len(log) : Times(i) + Copies(queue, i) + AtWork(i) + Again(i) <= Paid + 1

StreamInv ==
    /\ KafkaTypeOK
    /\ ConsumerTypes
    /\ StreamHabits
    /\ StreamOrder
    /\ HandledInOrder
    /\ StreamRepeats

ConsumerInv == (Kind # "stream" /\ OrderedInv) \/ (Kind = "stream" /\ StreamInv)

\* What a client holds, without the properties.
Held == KafkaTypeOK /\ ConsumerTypes /\ Consecutive /\ Habits

--------------------------------------------------------------------------------
(* Lemmas about what a client holds *)

\* A handled message is handled once more, the others as often as before.
LEMMA HandledOnce ==
    ASSUME ConsumerTypes, NEW i \in DOMAIN log, handled' = HandledTimes(i)
    PROVE  /\ DOMAIN handled' = DOMAIN handled \union {i}
           /\ handled' = [k \in DOMAIN handled' |-> handled'[k]]
           /\ \A k \in DOMAIN handled' : handled'[k] \in Nat
           /\ \A k : Times(k) \in Nat /\ Times(k)' = Times(k) + (IF k = i THEN 1 ELSE 0)
  <1>1. \A k : Times(k) \in Nat
    BY DEF Times, ConsumerTypes
  <1>2. DOMAIN handled' = DOMAIN handled \union {i}
    BY DEF HandledTimes
  <1>3. \A k \in DOMAIN handled' : handled'[k] = Times(k) + (IF k = i THEN 1 ELSE 0)
    BY <1>2 DEF HandledTimes
  <1>4. \A k : Times(k)' = Times(k) + (IF k = i THEN 1 ELSE 0)
    BY <1>1, <1>2, <1>3 DEF Times
  <1> QED
    BY <1>1, <1>2, <1>3, <1>4 DEF HandledTimes

\* What waits was fetched.
LEMMA WaitsFetched ==
    ASSUME HandsType, Consecutive, NEW i \in Int, Waits(i)
    PROVE  i \in 1..(next - 1)
  <1>1. PICK b \in InHand : b.at = i \/ (b.at < i /\ i <= b.last)
    BY DEF Waits
  <1>2. b \in BatchType
    BY DEF HandsType, InHand, ToSet
  <1> QED
    BY <1>1, <1>2 DEF Consecutive, HandsType, BatchType

LEMMA HeldTypes ==
    ASSUME ConsumerTypes, Consecutive, KafkaTypeOK
    PROVE  ConsumerTypeOK
  <1>1. DOMAIN log = 1..Len(log) /\ Len(log) \in Nat
    BY DEF KafkaTypeOK
  <1>2. \A b \in InHand : b \in BatchType
    BY DEF ConsumerTypes, HandsType, InHand, ToSet
  <1>3. \A b \in InHand : {b.at, b.last} \subseteq DOMAIN log /\ b.step \in {"handle", "commit"}
    BY <1>1, <1>2 DEF ConsumerTypes, HandsType, Consecutive, BatchType
  <1> QED
    BY <1>3 DEF ConsumerTypes, HandsType, ConsumerTypeOK

\* Two batches in hand are apart.
LEMMA Apart ==
    ASSUME HandsType, Consecutive, NEW b \in InHand, NEW c \in InHand
    PROVE  b = c \/ b.last < c.at \/ c.last < b.at
  <1>1. ASSUME b \in ToSet(queue), c \in ToSet(queue)
        PROVE  b = c \/ b.last < c.at \/ c.last < b.at
    <2>1. PICK k, l \in DOMAIN queue : b = queue[k] /\ c = queue[l]
      BY <1>1 DEF ToSet
    <2>2. k < l \/ l < k \/ k = l
      BY DEF HandsType
    <2> QED
      BY <2>1, <2>2 DEF Consecutive
  <1> QED
    BY <1>1 DEF Consecutive, InHand, ToSet

--------------------------------------------------------------------------------
(* The ways in which what a client holds changes *)

LEMMA AppendSet ==
    ASSUME NEW S, NEW q \in Seq(S), NEW b \in S
    PROVE  /\ Append(q, b) \in Seq(S)
           /\ ToSet(Append(q, b)) = ToSet(q) \union {b}
           /\ DOMAIN Append(q, b) = DOMAIN q \union {Len(q) + 1}
           /\ \A k \in DOMAIN q : k \in 1..Len(q) /\ Append(q, b)[k] = q[k]
           /\ Append(q, b)[Len(q) + 1] = b
  <1>1. Append(q, b) \in Seq(S) /\ Len(Append(q, b)) = Len(q) + 1 /\ Len(q) \in Nat
    OBVIOUS
  <1>2. DOMAIN Append(q, b) = 1..(Len(q) + 1) /\ DOMAIN q = 1..Len(q)
    BY <1>1
  <1>3. /\ \A k \in DOMAIN q : k \in 1..Len(q) /\ Append(q, b)[k] = q[k]
        /\ Append(q, b)[Len(q) + 1] = b
    BY <1>2
  <1>4. DOMAIN Append(q, b) = DOMAIN q \union {Len(q) + 1}
    BY <1>1, <1>2
  <1> QED
    BY <1>1, <1>3, <1>4 DEF ToSet

LEMMA TailSet ==
    ASSUME NEW S, NEW q \in Seq(S), q # <<>>
    PROVE  /\ Tail(q) \in Seq(S)
           /\ Head(q) = q[1] /\ 1 \in DOMAIN q
           /\ ToSet(q) = {Head(q)} \union ToSet(Tail(q))
           /\ \A k \in DOMAIN q : k \in Nat /\ k >= 1
           /\ \A k \in DOMAIN Tail(q) : k + 1 \in DOMAIN q /\ Tail(q)[k] = q[k + 1]
  <1>1. Len(q) \in Nat \ {0} /\ DOMAIN q = 1..Len(q) /\ Head(q) = q[1]
    OBVIOUS
  <1>2. /\ Tail(q) \in Seq(S) /\ DOMAIN Tail(q) = 1..(Len(q) - 1)
        /\ \A k \in 1..(Len(q) - 1) : Tail(q)[k] = q[k + 1]
    BY <1>1
  <1>3. ASSUME NEW k \in DOMAIN q, k # 1
        PROVE  k - 1 \in DOMAIN Tail(q) /\ q[k] = Tail(q)[k - 1]
    BY <1>1, <1>2, <1>3
  <1>4. ToSet(q) \subseteq {Head(q)} \union ToSet(Tail(q))
    BY <1>1, <1>3 DEF ToSet
  <1>5. \A k \in DOMAIN Tail(q) : k + 1 \in DOMAIN q /\ Tail(q)[k] = q[k + 1]
    BY <1>1, <1>2
  <1>6. {Head(q)} \union ToSet(Tail(q)) \subseteq ToSet(q)
    BY <1>1, <1>5 DEF ToSet
  <1> QED
    BY <1>1, <1>2, <1>4, <1>5, <1>6

\* A batch goes to the end of the queue.
LEMMA HandsFetch ==
    ASSUME HandsType, Consecutive, NEW b \in BatchType, b.at = next, b.at <= b.last,
           next' \in Nat, next' <= Len(log)' + 1, b.last < next',
           work' = work, queue' = Append(queue, b)
    PROVE  HandsType' /\ Consecutive' /\ InHand' = InHand \union {b}
  <1>1. /\ queue' \in Seq(BatchType) /\ ToSet(queue') = ToSet(queue) \union {b}
        /\ DOMAIN queue' = DOMAIN queue \union {Len(queue) + 1}
        /\ \A k \in DOMAIN queue : k \in 1..Len(queue) /\ queue'[k] = queue[k]
        /\ queue'[Len(queue) + 1] = b
    BY AppendSet DEF HandsType
  <1>2. Len(queue) \in Nat /\ \A c \in InHand : c \in BatchType
    BY DEF HandsType, InHand, ToSet
  <1>3. InHand' = InHand \union {b}
    BY <1>1 DEF InHand
  <1>4. \A c \in InHand : c.last < b.at /\ c.at <= c.last /\ c.last < next'
    BY <1>2 DEF Consecutive, BatchType, HandsType
  <1>5. \A k \in DOMAIN queue : queue[k].last < b.at
    BY <1>4 DEF InHand, ToSet
  <1>6. \A k, l \in DOMAIN queue' : k < l => queue'[k].last < queue'[l].at
    BY <1>1, <1>2, <1>5 DEF Consecutive
  <1>7. \A w \in work' : \A k \in DOMAIN queue' : w.last < queue'[k].at
    BY <1>1, <1>4 DEF Consecutive, InHand
  <1>8. HandsType'
    <2>1. next' \in Nat \ {0}
      BY DEF HandsType, BatchType
    <2> QED
      BY <1>1, <2>1 DEF HandsType
  <1>9. \A c \in InHand' : c.at <= c.last /\ c.last < next'
    BY <1>3, <1>4
  <1>10. \A v, w \in work' : v = w \/ v.last < w.at \/ w.last < v.at
    BY DEF Consecutive
  <1> QED
    BY <1>3, <1>6, <1>7, <1>8, <1>9, <1>10 DEF Consecutive

\* The batch at the head of the queue is begun.
LEMMA HandsBegin ==
    ASSUME HandsType, Consecutive, queue # <<>>, work = {}, Len(log)' = Len(log), next' = next,
           work' = {Head(queue)}, queue' = Tail(queue)
    PROVE  HandsType' /\ Consecutive' /\ InHand' = InHand
  <1>1. /\ queue' \in Seq(BatchType)
        /\ Head(queue) = queue[1] /\ 1 \in DOMAIN queue
        /\ ToSet(queue) = {Head(queue)} \union ToSet(queue')
        /\ \A k \in DOMAIN queue : k \in Nat /\ k >= 1
        /\ \A k \in DOMAIN queue' : k \in Nat /\ k + 1 \in DOMAIN queue /\ queue'[k] = queue[k + 1]
    BY TailSet, HandsType DEF HandsType
  <1>2. InHand' = InHand
    BY <1>1 DEF InHand
  <1>3. HandsType'
    BY <1>1 DEF HandsType, ToSet
  <1>4. \A k, l \in DOMAIN queue' : k < l => queue'[k].last < queue'[l].at
    BY <1>1 DEF Consecutive
  <1>5. \A k \in DOMAIN queue' : Head(queue).last < queue'[k].at
    BY <1>1 DEF Consecutive
  <1> QED
    BY <1>2, <1>3, <1>4, <1>5 DEF Consecutive

\* A batch is begun as it comes.
LEMMA HandsWork ==
    ASSUME HandsType, Consecutive, queue = <<>>, NEW b \in BatchType, b.at = next,
           b.at <= b.last, next' \in Nat, next' <= Len(log)' + 1, b.last < next',
           work' = work \union {b}, queue' = queue
    PROVE  HandsType' /\ Consecutive' /\ InHand' = InHand \union {b}
  <1>1. \A c \in InHand : c \in BatchType
    BY DEF HandsType, InHand, ToSet
  <1>2. \A c \in InHand : c.last < b.at /\ c.at <= c.last /\ c.last < next'
    BY <1>1 DEF Consecutive, BatchType, HandsType
  <1>3. InHand' = InHand \union {b}
    BY DEF InHand
  <1>4. \A v, w \in work' : v = w \/ v.last < w.at \/ w.last < v.at
    BY <1>2 DEF Consecutive, InHand
  <1>5. HandsType'
    <2>1. next' \in Nat \ {0}
      BY DEF HandsType, BatchType
    <2> QED
      BY <2>1 DEF HandsType
  <1>6. \A c \in InHand' : c.at <= c.last /\ c.last < next'
    BY <1>2, <1>3
  <1>7. DOMAIN queue' = {}
    OBVIOUS
  <1> QED
    BY <1>3, <1>4, <1>5, <1>6, <1>7 DEF Consecutive

\* A batch at work is left, or goes on within its bounds.
LEMMA HandsReplace ==
    ASSUME HandsType, Consecutive, NEW w \in work, NEW S,
           \A v \in S : v \in BatchType /\ w.at <= v.at /\ v.at <= v.last /\ v.last <= w.last,
           \A u, v \in S : u = v,
           work' = (work \ {w}) \union S, queue' = queue, next' = next, Len(log)' = Len(log)
    PROVE  HandsType' /\ Consecutive' /\ InHand' \subseteq InHand \union S
  <1>1. \A c \in InHand : c \in BatchType
    BY DEF HandsType, InHand, ToSet
  <1>2. InHand' \subseteq InHand \union S /\ w \in InHand /\ work \subseteq InHand
    BY DEF InHand
  <1>3. HandsType'
    BY DEF HandsType
  <1>4. \A b \in InHand' : b.at <= b.last /\ b.last < next'
    BY <1>1, <1>2 DEF Consecutive, BatchType, HandsType
  <1>7. ASSUME NEW k \in DOMAIN queue
        PROVE  queue[k].at \in Nat /\ w.last < queue[k].at
    <2>1. queue[k] \in BatchType
      BY DEF HandsType
    <2> QED
      BY <2>1 DEF Consecutive, BatchType
  <1>5. \A v \in work' : \A k \in DOMAIN queue' : v.last < queue'[k].at
    <2>1. \A v \in S : \A k \in DOMAIN queue : v.last < queue[k].at
      BY <1>7 DEF BatchType, HandsType
    <2> QED
      BY <2>1 DEF Consecutive
  <1>6. \A u, v \in work' : u = v \/ u.last < v.at \/ v.last < u.at
    BY <1>1, <1>2 DEF Consecutive, BatchType, HandsType
  <1> QED
    BY <1>2, <1>3, <1>4, <1>5, <1>6 DEF Consecutive

\* Nothing is at work any more.
LEMMA HandsEmptied ==
    ASSUME HandsType, Consecutive, work' = {}, next' \in Nat \ {0}, next' <= Len(log)' + 1,
           \/ queue' = <<>>
           \/ queue' = queue /\ next' = next
    PROVE  HandsType' /\ Consecutive' /\ InHand' \subseteq InHand
  <1>1. CASE queue' = <<>>
    BY <1>1 DEF HandsType, Consecutive, InHand, ToSet
  <1>2. CASE queue' = queue /\ next' = next
    BY <1>2 DEF HandsType, Consecutive, InHand
  <1> QED
    BY <1>1, <1>2

--------------------------------------------------------------------------------
(* Fetching and committing *)

\* Messages pass from the partition through the client's hands, and none that the
\* callback should get is passed over.
Passes ==
    /\ UNCHANGED <<setting, log, faults, mode, rebalance, handled, skipped>>
    /\ next' >= next
    /\ next' > next => mode = "running"
    /\ \A i \in 1..Len(log) : Waits(i)' => Waits(i) \/ (next <= i /\ i < next')
    /\ \A i \in 1..Len(log) : Waits(i) \/ (next <= i /\ i < next') => Waits(i)' \/ ~Wanted(i)

LEMMA HeldFacts ==
    ASSUME Held
    PROVE  /\ HandsType /\ Consecutive /\ Habits /\ KafkaTypeOK /\ ConsumerTypes
           /\ next \in Nat \ {0} /\ Len(log) \in Nat /\ next <= Len(log) + 1
           /\ DOMAIN log = 1..Len(log)
           /\ faults.count \in Nat /\ setting \in Setting /\ committed \in Int
           /\ \A b \in InHand : b \in BatchType /\ b.at <= b.last /\ b.last < next
           /\ work \subseteq InHand /\ \A k \in DOMAIN queue : queue[k] \in InHand
           /\ queue = <<>> => InHand = work
  <1>1. setting \in Setting
    BY KafkaAssumption DEF Held, KafkaTypeOK
  <1>2. faults.count \in Nat
    BY <1>1 DEF Held, KafkaTypeOK, Setting
  <1>3. Len(log) \in Nat /\ DOMAIN log = 1..Len(log) /\ committed \in Int
    BY DEF Held, KafkaTypeOK, Nothing
  <1> QED
    BY <1>1, <1>2, <1>3 DEF Held, ConsumerTypes, HandsType, Consecutive, InHand, ToSet

LEMMA BeginFacts ==
    ASSUME NEW i \in Nat \ {0}
    PROVE  /\ Begin(i) \in BatchType /\ Begin(i).at = i /\ Begin(i).last = i
           /\ Begin(i).step = "commit" => ~Readable(i)
           /\ Begin(i).step # "commit" => Begin(i).step = "handle"
  BY DEF Begin, Batch, BatchType

\* What waits when a batch is added.
LEMMA WaitsMore ==
    ASSUME NEW b, InHand' = InHand \union {b}
    PROVE  \A i : Waits(i)' <=> Waits(i) \/ (b.at = i /\ b.step = "handle") \/ (b.at < i /\ i <= b.last)
  BY DEF Waits

LEMMA RdkafkaTakeStep ==
    ASSUME Held, RdkafkaTake
    PROVE  Held' /\ Passes
  <1>1. Kind = "rdkafka" /\ Fetched /\ work = {} /\ next' = next + 1 /\ next <= Len(log)
    BY DEF RdkafkaTake, Fetched
  <1>2. UNCHANGED <<setting, log, committed, faults, mode, queue, rebalance, handled, skipped>>
    BY DEF RdkafkaTake, kafkaVars
  <1>3. queue = <<>> /\ InHand = {} /\ mode = "running"
    BY <1>1, HeldFacts DEF Habits, Fetched
  <1>4. pending' \in 0..Len(log)
    BY <1>1, HeldFacts DEF RdkafkaTake, ConsumerTypes
  <1>5. CASE log[next].form \in {"other", "null"}
    <2>1. work' = {} /\ ~Wanted(next) /\ InHand' = {}
      BY <1>1, <1>2, <1>3, <1>5 DEF RdkafkaTake, Wanted, Readable, InHand, ToSet
    <2>2. HandsType' /\ Consecutive'
      BY <1>1, <1>2, <1>3, <2>1, HeldFacts, HandsEmptied
    <2>3. Passes
      BY <1>1, <1>2, <1>3, <2>1, HeldFacts DEF Passes, Waits
    <2>4. Habits'
      BY <1>1, <1>2, <1>3, <2>1, HeldFacts DEF Habits, Kind, Sequential, Singles
    <2> QED
      BY <1>2, <1>4, <2>2, <2>3, <2>4 DEF Held, KafkaTypeOK, ConsumerTypes
  <1>6. CASE log[next].form \notin {"other", "null"}
    <2> DEFINE b == Begin(next)
    <2>1. work' = work \union {b}
      BY <1>1, <1>6 DEF RdkafkaTake
    <2>2. b \in BatchType /\ b.at = next /\ b.last = next /\ (b.step = "commit" => ~Readable(next))
          /\ (b.step # "commit" => b.step = "handle")
      BY HeldFacts, BeginFacts
    <2> HIDE DEF b
    <2>3. HandsType' /\ Consecutive' /\ InHand' = InHand \union {b}
      BY <1>1, <1>2, <1>3, <2>1, <2>2, HeldFacts, HandsWork
    <2>4. Passes
      BY <1>1, <1>2, <1>3, <2>2, <2>3, HeldFacts, WaitsMore DEF Passes, Wanted
    <2>5. Habits'
      BY <1>1, <1>2, <1>3, <2>1, <2>2, <2>3, HeldFacts
         DEF Habits, Kind, Sequential, Singles, Readable, Times
    <2> QED
      BY <1>2, <1>4, <2>3, <2>4, <2>5 DEF Held, KafkaTypeOK, ConsumerTypes
  <1> QED
    BY <1>5, <1>6

LEMMA GenericOnMessageStep ==
    ASSUME Held, GenericOnMessage
    PROVE  Held' /\ Passes
  <1> DEFINE b == Begin(next)
  <1>1. Kind = "generic" /\ mode = "running" /\ next <= Len(log) /\ next' = next + 1
        /\ queue' = Append(queue, b)
    BY HeldFacts DEF GenericOnMessage, Fetched, Habits
  <1>2. UNCHANGED <<setting, log, committed, faults, mode, work, pending, rebalance, handled,
                    skipped>>
    BY DEF GenericOnMessage, kafkaVars
  <1>3. b \in BatchType /\ b.at = next /\ b.last = next /\ (b.step = "commit" => ~Readable(next))
        /\ (b.step # "commit" => b.step = "handle")
    BY HeldFacts, BeginFacts
  <1> HIDE DEF b
  <1>4. HandsType' /\ Consecutive' /\ InHand' = InHand \union {b}
    BY <1>1, <1>2, <1>3, HeldFacts, HandsFetch
  <1>5. Passes
    BY <1>1, <1>2, <1>3, <1>4, HeldFacts, WaitsMore DEF Passes, Wanted
  <1>6. Habits'
    BY <1>1, <1>2, <1>3, <1>4, HeldFacts DEF Habits, Kind, Sequential, Singles, Readable, Times
  <1> QED
    BY <1>2, <1>4, <1>5, <1>6 DEF Held, KafkaTypeOK, ConsumerTypes

LEMMA KafkajsEachMessageStep ==
    ASSUME Held, KafkajsEachMessage
    PROVE  Held' /\ Passes
  <1> DEFINE b == Begin(next)
  <1>1. Kind = "kafkajs" /\ mode = "running" /\ work = {} /\ next' = next + 1
        /\ next <= Len(log) /\ work' = work \union {b}
    BY DEF KafkajsEachMessage, Fetched
  <1>2. UNCHANGED <<setting, log, committed, faults, mode, queue, pending, rebalance, handled,
                    skipped>>
    BY DEF KafkajsEachMessage, kafkaVars
  <1>3. queue = <<>> /\ InHand = {}
    BY <1>1, HeldFacts DEF Habits
  <1>4. b \in BatchType /\ b.at = next /\ b.last = next /\ (b.step = "commit" => ~Readable(next))
        /\ (b.step # "commit" => b.step = "handle")
    BY HeldFacts, BeginFacts
  <1> HIDE DEF b
  <1>5. HandsType' /\ Consecutive' /\ InHand' = InHand \union {b}
    BY <1>1, <1>2, <1>3, <1>4, HeldFacts, HandsWork
  <1>6. Passes
    BY <1>1, <1>2, <1>3, <1>4, <1>5, HeldFacts, WaitsMore DEF Passes, Wanted
  <1>7. Habits'
    BY <1>1, <1>2, <1>3, <1>4, <1>5, HeldFacts
       DEF Habits, Kind, Sequential, Singles, Readable, Times
  <1> QED
    BY <1>2, <1>5, <1>6, <1>7 DEF Held, KafkaTypeOK, ConsumerTypes

LEMMA MessagesFacts ==
    ASSUME Held, NEW n \in 1..setting.batchSize, FetchBatch(n)
    PROVE  /\ n \in Nat \ {0} /\ next' = next + n /\ next' \in Nat /\ next' <= Len(log) + 1
           /\ mode = "running"
           /\ Messages(n) \in BatchType
           /\ Messages(n).at = next /\ Messages(n).last = next' - 1 /\ Messages(n).step = "handle"
           /\ Singles /\ Kind = "css" => n = 1
  <1>1. setting.batchSize \in Nat
    BY HeldFacts DEF Setting
  <1>2. n \in Nat \ {0} /\ (setting.batchSize = 1 => n = 1)
    BY <1>1
  <1> QED
    BY <1>2, HeldFacts DEF FetchBatch, Fetched, Messages, Batch, BatchType, Singles

LEMMA CssConsumeSyncStep ==
    ASSUME Held, NEW n \in 1..setting.batchSize, CssConsumeSync(n)
    PROVE  Held' /\ Passes
  <1> DEFINE b == Messages(n)
  <1>1. Kind = "css" /\ setting.sync /\ FetchBatch(n) /\ queue' = Append(queue, b)
    BY DEF CssConsumeSync
  <1>2. UNCHANGED <<setting, log, committed, faults, mode, work, pending, rebalance, handled,
                    skipped>>
    BY DEF CssConsumeSync, kafkaVars
  <1>3. /\ n \in Nat \ {0} /\ next' = next + n /\ next' \in Nat /\ next' <= Len(log) + 1
        /\ mode = "running"
        /\ b \in BatchType /\ b.at = next /\ b.last = next' - 1 /\ b.step = "handle"
        /\ Singles => b.at = b.last
    <2>1. next \in Nat
      BY <1>1, HeldFacts DEF Habits
    <2> QED
      BY <1>1, <2>1, MessagesFacts
  <1> HIDE DEF b
  <1>4. HandsType' /\ Consecutive' /\ InHand' = InHand \union {b}
    <2>1. b.at <= b.last /\ b.last < next'
      <3>1. next \in Nat
        BY HeldFacts
      <3> QED
        BY <1>3, <3>1
    <2> QED
      BY <1>1, <1>2, <1>3, <2>1, HeldFacts, HandsFetch
  <1>5. Passes
    <2>1. \A i \in 1..Len(log) :
              (next <= i /\ i < next') <=> (i = b.at \/ (b.at < i /\ i <= b.last))
      BY <1>3, HeldFacts
    <2>2. \A i \in 1..Len(log) : Waits(i)' <=> Waits(i) \/ (next <= i /\ i < next')
      BY <1>3, <1>4, <2>1, WaitsMore
    <2> QED
      BY <1>2, <1>3, <2>2, HeldFacts DEF Passes
  <1>6. Habits'
    BY <1>1, <1>2, <1>3, <1>4, HeldFacts DEF Habits, Kind, Sequential, Singles, Readable, Times
  <1> QED
    BY <1>2, <1>4, <1>5, <1>6 DEF Held, KafkaTypeOK, ConsumerTypes

LEMMA CssConsumeAsyncStep ==
    ASSUME Held, NEW n \in 1..setting.batchSize, CssConsumeAsync(n)
    PROVE  Held' /\ Passes
  <1> DEFINE b == Messages(n)
  <1>1. Kind = "css" /\ ~setting.sync /\ FetchBatch(n) /\ work' = work \union {b}
    BY DEF CssConsumeAsync
  <1>2. UNCHANGED <<setting, log, committed, faults, mode, queue, pending, rebalance, handled,
                    skipped>>
    BY DEF CssConsumeAsync, kafkaVars
  <1>3. /\ n \in Nat \ {0} /\ next' = next + n /\ next' \in Nat /\ next' <= Len(log) + 1
        /\ mode = "running" /\ queue = <<>>
        /\ b \in BatchType /\ b.at = next /\ b.last = next' - 1 /\ b.step = "handle"
        /\ Singles => b.at = b.last
    <2>1. next \in Nat /\ queue = <<>>
      BY <1>1, HeldFacts DEF Habits
    <2> QED
      BY <1>1, <2>1, MessagesFacts
  <1> HIDE DEF b
  <1>4. HandsType' /\ Consecutive' /\ InHand' = InHand \union {b}
    <2>1. b.at <= b.last /\ b.last < next'
      <3>1. next \in Nat
        BY HeldFacts
      <3> QED
        BY <1>3, <3>1
    <2> QED
      BY <1>1, <1>2, <1>3, <2>1, HeldFacts, HandsWork
  <1>5. Passes
    <2>1. \A i \in 1..Len(log) :
              (next <= i /\ i < next') <=> (i = b.at \/ (b.at < i /\ i <= b.last))
      BY <1>3, HeldFacts
    <2>2. \A i \in 1..Len(log) : Waits(i)' <=> Waits(i) \/ (next <= i /\ i < next')
      BY <1>3, <1>4, <2>1, WaitsMore
    <2> QED
      BY <1>2, <1>3, <2>2, HeldFacts DEF Passes
  <1>6. Habits'
    BY <1>1, <1>2, <1>3, <1>4, HeldFacts DEF Habits, Kind, Sequential, Singles, Readable, Times
  <1> QED
    BY <1>2, <1>4, <1>5, <1>6 DEF Held, KafkaTypeOK, ConsumerTypes

\* The worker of a queue begins the batch at its head.
LEMMA WorkSteps ==
    ASSUME Held, GenericWork \/ CssWork
    PROVE  Held' /\ Passes
  <1>1. /\ Kind \in {"generic", "css"} /\ queue # <<>> /\ work = {}
        /\ work' = {Head(queue)} /\ queue' = Tail(queue)
        /\ UNCHANGED <<setting, log, committed, faults, mode, next, pending, rebalance, handled,
                       skipped>>
    BY DEF GenericWork, CssWork, kafkaVars
  <1>2. HandsType' /\ Consecutive' /\ InHand' = InHand
    BY <1>1, HeldFacts, HandsBegin
  <1>3. Passes
    BY <1>1, <1>2, HeldFacts DEF Passes, Waits
  <1>4. Habits'
    BY <1>1, <1>2, HeldFacts DEF Habits, Kind, Sequential, Singles, Readable, Times
  <1> QED
    BY <1>1, <1>2, <1>3, <1>4 DEF Held, KafkaTypeOK, ConsumerTypes

\* The one message at work is done with.
LEMMA CommitShape ==
    ASSUME Held, NEW w \in work, w.step = "commit", Kind # "css", work' = {},
           UNCHANGED <<setting, log, faults, mode, next, queue, rebalance, handled, skipped>>,
           committed' \in {Nothing} \union 0..Len(log), pending' \in 0..Len(log),
           pending' > 0 => Kind = "rdkafka"
    PROVE  Held' /\ Passes
  <1>1. w \in InHand /\ w.at = w.last /\ mode # "down" /\ \A v \in work : v = w
    BY HeldFacts DEF Habits, Sequential, Singles
  <1>2. HandsType' /\ Consecutive' /\ InHand' \subseteq InHand
    BY HeldFacts, HandsEmptied
  <1>3. InHand = InHand' \union {w}
    BY <1>1 DEF InHand
  <1>4. w \in BatchType
    BY <1>1, HeldFacts
  <1>5. \A i \in 1..Len(log) : Waits(i)' <=> Waits(i)
    BY <1>1, <1>3, <1>4, HeldFacts DEF Waits, BatchType
  <1>6. Passes
    BY <1>5, HeldFacts DEF Passes
  <1>7. Habits'
    BY <1>1, <1>2, HeldFacts DEF Habits, Kind, Sequential, Singles, Readable, Times
  <1> QED
    BY <1>2, <1>6, <1>7 DEF Held, KafkaTypeOK, ConsumerTypes

LEMMA AtFacts ==
    ASSUME Held, NEW w \in work
    PROVE  w.at \in 1..Len(log) /\ w.at < next
  BY HeldFacts DEF BatchType

LEMMA CommitSteps ==
    ASSUME Held, RdkafkaCommit \/ GenericCommit \/ KafkajsCommit
    PROVE  Held' /\ Passes
  <1>1. PICK w \in work : w.step = "commit" /\ (RdkafkaCommit \/ KafkajsCommit =>
               /\ committed' \in {w.at, committed}
               /\ pending' \in {w.at, 0, pending})
    BY DEF RdkafkaCommit, GenericCommit, KafkajsCommit
  <1>2. /\ Kind # "css" /\ work' = {}
        /\ UNCHANGED <<setting, log, faults, mode, next, queue, rebalance, handled, skipped>>
    BY DEF RdkafkaCommit, GenericCommit, KafkajsCommit
  <1>3. committed' \in {Nothing} \union 0..Len(log)
    BY <1>1, AtFacts, HeldFacts DEF GenericCommit, KafkaTypeOK
  <1>4. pending' \in 0..Len(log) /\ (pending' > 0 => Kind = "rdkafka")
    BY <1>1, AtFacts, HeldFacts
       DEF ConsumerTypes, Habits, GenericCommit, RdkafkaCommit, KafkajsCommit
  <1> QED
    BY <1>1, <1>2, <1>3, <1>4, CommitShape

LEMMA CommitArrivesStep ==
    ASSUME Held, CommitArrives
    PROVE  Held' /\ Passes
  <1>1. /\ pending > 0 /\ committed' = pending /\ pending' = 0 /\ mode # "down"
        /\ UNCHANGED <<setting, log, faults, mode, next, queue, work, rebalance, handled, skipped>>
    BY HeldFacts DEF CommitArrives, Habits
  <1>2. HandsType' /\ Consecutive' /\ InHand' = InHand
    BY <1>1, HeldFacts DEF HandsType, Consecutive, InHand
  <1>3. Passes
    BY <1>1, <1>2, HeldFacts DEF Passes, Waits
  <1>4. Habits'
    BY <1>1, <1>2, HeldFacts DEF Habits, Kind, Sequential, Singles, Readable, Times
  <1>5. committed' \in 0..Len(log) /\ 0 \in 0..Len(log)
    BY <1>1, HeldFacts DEF ConsumerTypes
  <1> QED
    BY <1>1, <1>2, <1>3, <1>4, <1>5 DEF Held, KafkaTypeOK, ConsumerTypes

LEMMA GoOnFacts ==
    ASSUME Held, NEW w \in work
    PROVE  /\ \A v \in GoOnWith(w) : v \in BatchType /\ w.at <= v.at /\ v.at <= v.last
                                     /\ v.last <= w.last
           /\ \A v \in GoOnWith(w) : v.step = "handle"
           /\ \A u, v \in GoOnWith(w) : u = v
           /\ w.at = w.last => GoOnWith(w) = {}
           /\ w.at # w.last => \E v \in GoOnWith(w) : v.at = w.at + 1 /\ v.last = w.last
           /\ \A v \in GoOnWith(w) : v.at = w.at + 1
  <1>1. w \in BatchType /\ w.at <= w.last
    BY HeldFacts
  <1>2. CASE w.at = w.last
    BY <1>2 DEF GoOnWith
  <1>3. CASE w.at # w.last
    <2> DEFINE v == Batch(w.at + 1, w.last, "handle")
    <2>1. GoOnWith(w) = {v}
      BY <1>3 DEF GoOnWith
    <2>2. v \in BatchType /\ v.at = w.at + 1 /\ v.last = w.last /\ v.step = "handle"
      BY <1>1 DEF Batch, BatchType
    <2>3. w.at <= v.at /\ v.at <= v.last
      BY <1>1, <1>3, <2>2 DEF BatchType
    <2> HIDE DEF v
    <2> QED
      BY <1>1, <1>3, <2>1, <2>2, <2>3 DEF BatchType
  <1> QED
    BY <1>2, <1>3

LEMMA CssCommitStep ==
    ASSUME Held, NEW w \in work, CssCommit(w)
    PROVE  Held' /\ Passes
  <1> DEFINE S == GoOnWith(w)
  <1>1. /\ Kind = "css" /\ mode = "running" /\ w.step = "commit" /\ committed' = w.at
        /\ work' = (work \ {w}) \union S
        /\ UNCHANGED <<setting, log, faults, mode, next, queue, pending, rebalance, handled,
                       skipped>>
    BY DEF CssCommit
  <1>2. /\ \A v \in S : v \in BatchType /\ w.at <= v.at /\ v.at <= v.last /\ v.last <= w.last
        /\ \A v \in S : v.step = "handle" /\ v.at = w.at + 1
        /\ \A u, v \in S : u = v
        /\ w.at = w.last => S = {}
        /\ w.at # w.last => \E v \in S : v.at = w.at + 1 /\ v.last = w.last
    BY GoOnFacts
  <1> HIDE DEF S
  <1>3. HandsType' /\ Consecutive' /\ InHand' \subseteq InHand \union S
    BY <1>1, <1>2, HeldFacts, HandsReplace
  <1>4. InHand \subseteq InHand' \union {w} /\ S \subseteq InHand'
    BY <1>1 DEF InHand
  <1>5. w \in InHand /\ w \in BatchType /\ w.at <= w.last
    BY HeldFacts
  <1>6. ASSUME NEW i \in 1..Len(log), Waits(i) PROVE Waits(i)'
    <2>1. PICK b \in InHand : (b.at = i /\ b.step = "handle") \/ (b.at < i /\ i <= b.last)
      BY <1>6 DEF Waits
    <2>2. CASE b # w
      BY <1>4, <2>1, <2>2 DEF Waits
    <2>3. CASE b = w
      <3>1. w.at # w.last /\ w.at < i /\ i <= w.last
        BY <1>1, <1>5, <2>1, <2>3 DEF BatchType
      <3>2. PICK v \in S : v.at = w.at + 1 /\ v.last = w.last
        BY <1>2, <3>1
      <3>3. v.step = "handle" /\ v \in InHand'
        BY <1>2, <1>4
      <3>4. v.at = i \/ (v.at < i /\ i <= v.last)
        BY <3>1, <3>2, <1>5 DEF BatchType
      <3> QED
        BY <3>3, <3>4 DEF Waits
    <2> QED
      BY <2>2, <2>3
  <1>7. ASSUME NEW i \in 1..Len(log), Waits(i)' PROVE Waits(i)
    <2>1. PICK b \in InHand' : (b.at = i /\ b.step = "handle") \/ (b.at < i /\ i <= b.last)
      BY <1>7 DEF Waits
    <2>2. CASE b \in InHand
      BY <2>1, <2>2 DEF Waits
    <2>3. CASE b \in S
      <3>1. w.at < i /\ i <= w.last
        BY <1>2, <1>5, <2>1, <2>3 DEF BatchType
      <3> QED
        BY <1>5, <3>1 DEF Waits
    <2> QED
      BY <1>3, <2>2, <2>3
  <1>8. Passes
    BY <1>1, <1>6, <1>7, HeldFacts DEF Passes
  <1>9. /\ Sequential => \A u, v \in work' : u = v
        /\ Singles => \A b \in InHand' : b.at = b.last
        /\ \A b \in InHand' : b.step = "commit" => b \in InHand
    BY <1>1, <1>2, <1>3, <1>5, HeldFacts DEF Habits
  <1>10. Habits'
    BY <1>1, <1>3, <1>9, HeldFacts DEF Habits, Kind, Sequential, Singles, Readable, Times
  <1>11. committed' \in 0..Len(log)
    BY <1>1, AtFacts, HeldFacts
  <1> QED
    BY <1>1, <1>3, <1>8, <1>10, <1>11 DEF Held, KafkaTypeOK, ConsumerTypes

--------------------------------------------------------------------------------
(* Handling, failing, starting and stopping *)

\* What waits waited before; what does no more was handled or not wanted.
Less  == \A i \in 1..Len(log) : Waits(i)' => Waits(i)
Keeps == \A i \in 1..Len(log) : Waits(i) => Waits(i)' \/ Times(i)' > 0 \/ ~Wanted(i)

\* A failure counts, and for repeats only when it makes a client fetch again.
LEMMA FailureFacts ==
    ASSUME KafkaTypeOK, NEW kind, Failure(kind)
    PROVE  /\ faults'.count = faults.count + 1 /\ faults'.kinds = faults.kinds \union {kind}
           /\ faults'.count \in 0..setting.faults /\ faults'.kinds \subseteq FaultKinds
           /\ faults'.count > 0
           /\ Paid \in Nat /\ Paid' \in Nat /\ Paid <= Paid'
           /\ kind \in Refetching => Paid + 1 <= Paid'
  <1>1. setting.faults \in Nat /\ faults.count \in 0..setting.faults
    BY KafkaAssumption DEF Setting, KafkaTypeOK
  <1>2. /\ faults'.count = faults.count + 1 /\ faults'.kinds = faults.kinds \union {kind}
        /\ faults'.count \in 0..setting.faults /\ faults'.kinds \subseteq FaultKinds
    BY <1>1 DEF Failure, KafkaTypeOK
  <1>3. Paid \in Nat /\ Paid <= faults.count
    BY <1>1 DEF Paid
  <1>4. faults'.kinds \cap Refetching = {} => faults.kinds \cap Refetching = {} /\ kind \notin Refetching
    BY <1>2
  <1>5. Paid' = IF faults'.kinds \cap Refetching = {} THEN 0 ELSE faults'.count
    BY DEF Paid, Refetching
  <1>6. CASE faults'.kinds \cap Refetching = {}
    BY <1>1, <1>2, <1>4, <1>5, <1>6 DEF Paid
  <1>7. CASE faults'.kinds \cap Refetching # {}
    BY <1>1, <1>2, <1>3, <1>5, <1>7
  <1> QED
    BY <1>1, <1>2, <1>3, <1>6, <1>7

LEMMA FaultFacts ==
    ASSUME Held, NEW kind, Failure(kind)
    PROVE  /\ faults'.count = faults.count + 1 /\ faults'.kinds = faults.kinds \union {kind}
           /\ faults'.count \in 0..setting.faults /\ faults'.kinds \subseteq FaultKinds
           /\ faults'.count > 0
           /\ Paid \in Nat /\ Paid' \in Nat /\ Paid <= Paid'
           /\ kind \in Refetching => Paid + 1 <= Paid'
  BY FailureFacts DEF Held

LEMMA PaidFacts ==
    ASSUME KafkaTypeOK
    PROVE  /\ Paid \in Nat /\ Paid <= faults.count /\ faults.count \in Nat
           /\ faults.kinds \cap Refetching = {} => Paid = 0
           /\ faults' = faults => Paid' = Paid
  <1>1. faults.count \in Nat
    BY KafkaAssumption DEF Setting, KafkaTypeOK
  <1>2. faults' = faults => Paid' = Paid
    BY DEF Paid, Refetching
  <1> QED
    BY <1>1, <1>2 DEF Paid

\* What is at work is the callback's alone.
LEMMA OnlyWork ==
    ASSUME Held, NEW w \in work, NEW b \in (work \ {w}) \union ToSet(queue)
    PROVE  b # w /\ b \in InHand /\ (b.last < w.at \/ w.last < b.at)
  <1>1. w \in InHand /\ b \in InHand
    BY DEF InHand
  <1>2. b # w
    <2>1. CASE b \in ToSet(queue)
      <3>1. PICK k \in DOMAIN queue : b = queue[k]
        BY <2>1 DEF ToSet
      <3>2. w.last < b.at /\ w.at <= w.last /\ w \in BatchType
        BY <3>1, <1>1, HeldFacts DEF Consecutive
      <3> QED
        BY <3>2 DEF BatchType
    <2> QED
      BY <2>1
  <1> QED
    BY <1>1, <1>2, HeldFacts, Apart

\* The callback of w comes to its end, and w is left or goes on with its rest.
LEMMA HandleShape ==
    ASSUME Held, NEW w \in work, w.step = "handle", NEW S,
           \A v \in S : v.step = "commit" /\ v.at = w.at /\ v.last = w.last,
           work' = (work \ {w}) \union S, queue' = queue,
           handled' = HandledTimes(w.at), log' = log
    PROVE  /\ \A i : Times(i) \in Nat /\ Times(i)' = Times(i) + (IF i = w.at THEN 1 ELSE 0)
           /\ Waits(w.at) /\ ~Waits(w.at)' /\ Less
           /\ S # {} \/ w.at = w.last => Keeps
  <1>1. w \in InHand /\ w \in BatchType /\ w.at <= w.last /\ w.at \in 1..Len(log)
    BY AtFacts, HeldFacts
  <1>2. \A i : Times(i) \in Nat /\ Times(i)' = Times(i) + (IF i = w.at THEN 1 ELSE 0)
    BY <1>1, HeldFacts, HandledOnce
  <1>3. InHand' = (work \ {w}) \union ToSet(queue) \union S /\ InHand \subseteq InHand' \union {w}
    BY DEF InHand
  <1>4. Waits(w.at)
    BY <1>1 DEF Waits
  <1>5. ~Waits(w.at)'
    <2>1. ASSUME NEW b \in (work \ {w}) \union ToSet(queue), b.at <= w.at, w.at <= b.last
          PROVE  FALSE
      BY <1>1, <2>1, OnlyWork, HeldFacts DEF BatchType
    <2>2. \A b \in S : ~(b.at = w.at /\ b.step = "handle") /\ ~(b.at < w.at /\ w.at <= b.last)
      BY <1>1 DEF BatchType
    <2>3. \A b \in InHand : b.at \in Nat /\ b.at <= b.last
      BY HeldFacts DEF BatchType
    <2> SUFFICES ASSUME NEW b \in InHand',
                        (b.at = w.at /\ b.step = "handle") \/ (b.at < w.at /\ w.at <= b.last)
                 PROVE  FALSE
      BY DEF Waits
    <2>4. b \in (work \ {w}) \union ToSet(queue)
      BY <1>3, <2>2
    <2>5. b \in InHand
      BY <2>4 DEF InHand
    <2> QED
      BY <1>1, <2>1, <2>3, <2>4, <2>5 DEF BatchType
  <1>6. ASSUME NEW i \in 1..Len(log), Waits(i)' PROVE Waits(i)
    <2>1. PICK b \in InHand' : (b.at = i /\ b.step = "handle") \/ (b.at < i /\ i <= b.last)
      BY <1>6 DEF Waits
    <2>2. CASE b \in S
      BY <1>1, <2>1, <2>2 DEF Waits
    <2>3. CASE b \in InHand
      BY <2>1, <2>3 DEF Waits
    <2> QED
      BY <1>3, <2>2, <2>3 DEF InHand
  <1>7. ASSUME S # {} \/ w.at = w.last, NEW i \in 1..Len(log), Waits(i)
        PROVE  Waits(i)' \/ Times(i)' > 0
    <2>1. PICK b \in InHand : (b.at = i /\ b.step = "handle") \/ (b.at < i /\ i <= b.last)
      BY <1>7 DEF Waits
    <2>2. CASE b # w
      BY <1>3, <2>1, <2>2 DEF Waits
    <2>3. CASE b = w /\ i = w.at
      BY <1>2, <2>3
    <2>4. CASE b = w /\ i # w.at
      <3>1. w.at < i /\ i <= w.last /\ w.at # w.last
        BY <1>1, <2>1, <2>4 DEF BatchType
      <3>2. PICK v \in S : v \in InHand'
        BY <1>3, <1>7, <3>1
      <3> QED
        BY <3>1, <3>2 DEF Waits
    <2> QED
      BY <2>2, <2>3, <2>4
  <1> QED
    BY <1>2, <1>4, <1>5, <1>6, <1>7 DEF Less, Keeps

LEMMA HandleStep ==
    ASSUME Held, NEW w \in work, Handle(w)
    PROVE  Held' /\ Less /\ Keeps
  <1> DEFINE v == [w EXCEPT !.step = "commit"]
  <1>1. /\ w.step = "handle" /\ handled' = HandledTimes(w.at)
        /\ work' = (work \ {w}) \union {v}
        /\ UNCHANGED <<setting, log, committed, faults, mode, next, queue, pending, rebalance,
                       skipped>>
    BY DEF Handle, kafkaVars
  <1>2. w \in BatchType /\ w.at <= w.last /\ w \in InHand /\ w.at \in DOMAIN log
    BY AtFacts, HeldFacts
  <1>3. v \in BatchType /\ v.at = w.at /\ v.last = w.last /\ v.step = "commit"
    BY <1>2 DEF BatchType
  <1> HIDE DEF v
  <1>4. HandsType' /\ Consecutive' /\ InHand' \subseteq InHand \union {v}
    <2>1. w.at <= v.at /\ v.at <= v.last /\ v.last <= w.last
      BY <1>2, <1>3 DEF BatchType
    <2> QED
      BY <1>1, <1>3, <2>1, HeldFacts, HandsReplace
  <1>5. /\ \A i : Times(i) \in Nat /\ Times(i)' = Times(i) + (IF i = w.at THEN 1 ELSE 0)
        /\ Less /\ Keeps
    <2>1. \A z \in {v} : z.step = "commit" /\ z.at = w.at /\ z.last = w.last
      BY <1>3
    <2>2. queue' = queue /\ log' = log /\ {v} # {}
      BY <1>1
    <2>3. w.step = "handle" /\ handled' = HandledTimes(w.at) /\ work' = (work \ {w}) \union {v}
      BY <1>1
    <2> QED
      BY <2>1, <2>2, <2>3, HandleShape
  <1>6. Habits'
    <2>1. \A b \in InHand' : b.step = "commit" /\ Readable(b.at)' => Times(b.at)' > 0
      BY <1>1, <1>3, <1>4, <1>5, HeldFacts DEF Habits, Readable, Kind
    <2>2. Singles => \A b \in InHand' : b.at = b.last
      BY <1>2, <1>3, <1>4, HeldFacts DEF Habits
    <2>3. Sequential => \A u, z \in work' : u = z
      BY <1>1, HeldFacts DEF Habits
    <2> QED
      BY <1>1, <2>1, <2>2, <2>3, HeldFacts DEF Habits, Kind, Sequential, Singles
  <1>7. /\ DOMAIN handled' = DOMAIN handled \union {w.at}
        /\ handled' = [k \in DOMAIN handled' |-> handled'[k]]
        /\ \A k \in DOMAIN handled' : handled'[k] \in Nat
    BY <1>1, <1>2, HeldFacts, HandledOnce
  <1> QED
    BY <1>1, <1>2, <1>4, <1>5, <1>6, <1>7 DEF Held, KafkaTypeOK, ConsumerTypes

LEMMA CssCallbackThrowsStep ==
    ASSUME Held, NEW w \in work, CssCallbackThrows(w)
    PROVE  Held' /\ Less /\ (w.at = w.last => Keeps)
  <1>1. /\ Kind = "css" /\ mode = "running" /\ w.step = "handle" /\ Failure("reject")
        /\ committed' = w.at /\ work' = (work \ {w}) \union {} /\ handled' = HandledTimes(w.at)
        /\ UNCHANGED <<setting, log, mode, next, queue, pending, rebalance, skipped>>
    BY DEF CssCallbackThrows
  <1>2. w \in BatchType /\ w.at <= w.last /\ w \in InHand /\ w.at \in DOMAIN log
        /\ w.at \in 0..Len(log)
    BY AtFacts, HeldFacts
  <1>3. HandsType' /\ Consecutive' /\ InHand' \subseteq InHand
    <2>1. HandsType' /\ Consecutive' /\ InHand' \subseteq InHand \union {}
      BY <1>1, HeldFacts, HandsReplace
    <2> QED
      BY <2>1
  <1>4. /\ \A i : Times(i) \in Nat /\ Times(i)' = Times(i) + (IF i = w.at THEN 1 ELSE 0)
        /\ Less /\ (w.at = w.last => Keeps)
    <2>1. PICK S : S = {}
      OBVIOUS
    <2>2. queue' = queue /\ log' = log /\ \A z \in S : z.step = "commit" /\ z.at = w.at /\ z.last = w.last
      BY <1>1, <2>1
    <2>3. w.step = "handle" /\ handled' = HandledTimes(w.at) /\ work' = (work \ {w}) \union S
      BY <1>1, <2>1
    <2> QED
      BY <2>1, <2>2, <2>3, HandleShape
  <1>5. faults'.count > 0 /\ faults'.count \in 0..setting.faults /\ faults'.kinds \subseteq FaultKinds
    BY <1>1, FaultFacts
  <1>6. Habits'
    <2>1. \A b \in InHand' : b.step = "commit" /\ Readable(b.at)' => Times(b.at)' > 0
      BY <1>1, <1>3, <1>4, HeldFacts DEF Habits, Readable, Kind
    <2>2. Sequential => \A u, z \in work' : u = z
      BY <1>1, HeldFacts DEF Habits
    <2> QED
      BY <1>1, <1>3, <1>5, <2>1, <2>2, HeldFacts DEF Habits, Kind, Sequential, Singles
  <1>7. /\ DOMAIN handled' = DOMAIN handled \union {w.at}
        /\ handled' = [k \in DOMAIN handled' |-> handled'[k]]
        /\ \A k \in DOMAIN handled' : handled'[k] \in Nat
    BY <1>1, <1>2, HeldFacts, HandledOnce
  <1> QED
    BY <1>1, <1>2, <1>3, <1>4, <1>5, <1>6, <1>7 DEF Held, KafkaTypeOK, ConsumerTypes

\* A message whose commit fails is left, css without the rest of its batch.
LEMMA CommitLost ==
    ASSUME Held, RdkafkaCommitThrows \/ (\E w \in work : CommitFails(w))
    PROVE  /\ Held' /\ Less
           /\ UNCHANGED <<setting, log, committed, next, pending, rebalance, handled, skipped>>
           /\ faults'.count > 0 /\ faults'.count >= faults.count
           /\ mode # "down" /\ mode' # "down"
           /\ mode' \in {mode, "dead"} /\ (mode = "running" => faults' # faults)
           /\ faults' = faults \/ Failure("commit")
           /\ Singles => Keeps
  <1>1. PICK w \in work :
            /\ w.step = "commit" /\ work' = (work \ {w})
            /\ Kind = "rdkafka" \/ mode' = mode
            /\ mode' \in {mode, "dead"}
            /\ \/ mode = "closed" /\ faults' = faults
               \/ mode = "running" /\ Failure("commit")
            /\ UNCHANGED <<setting, log, committed, next, queue, pending, rebalance, handled,
                           skipped>>
    <2>1. CASE RdkafkaCommitThrows
      <3>1. \A u, v \in work : u = v
        BY <2>1, HeldFacts DEF RdkafkaCommitThrows, Habits, Sequential
      <3> QED
        BY <2>1, <3>1 DEF RdkafkaCommitThrows
    <2>2. CASE \E w \in work : CommitFails(w)
      BY <2>2 DEF CommitFails
    <2> QED
      BY <2>1, <2>2
  <1>2. w \in BatchType /\ w.at <= w.last /\ w \in InHand /\ mode # "down"
    BY <1>1, HeldFacts DEF Habits
  <1>3. HandsType' /\ Consecutive' /\ InHand' \subseteq InHand
    <2>1. PICK S : S = {}
      OBVIOUS
    <2>2. /\ \A v \in S : v \in BatchType /\ w.at <= v.at /\ v.at <= v.last /\ v.last <= w.last
          /\ \A u, v \in S : u = v
      BY <2>1
    <2>3. work' = (work \ {w}) \union S /\ queue' = queue /\ next' = next /\ Len(log)' = Len(log)
      BY <1>1, <2>1
    <2>4. HandsType /\ Consecutive
      BY HeldFacts
    <2>5. HandsType' /\ Consecutive' /\ InHand' \subseteq InHand \union S
      BY <2>2, <2>3, <2>4, HandsReplace
    <2> QED
      BY <2>1, <2>5
  <1>4. Less
    BY <1>3 DEF Less, Waits
  <1>5. InHand \subseteq InHand' \union {w}
    BY <1>1 DEF InHand
  <1>6. Singles => Keeps
    <2>1. ASSUME Singles, NEW i \in 1..Len(log), Waits(i) PROVE Waits(i)'
      <3>1. PICK b \in InHand : (b.at = i /\ b.step = "handle") \/ (b.at < i /\ i <= b.last)
        BY <2>1 DEF Waits
      <3>2. w.at = w.last
        BY <1>2, <2>1, HeldFacts DEF Habits
      <3>3. b # w
        BY <1>1, <1>2, <3>1, <3>2 DEF BatchType
      <3> QED
        BY <1>5, <3>1, <3>3 DEF Waits
    <2> QED
      BY <2>1 DEF Keeps
  <1>7. /\ faults'.count \in 0..setting.faults /\ faults'.kinds \subseteq FaultKinds
        /\ faults'.count > 0 /\ faults'.count >= faults.count
        /\ mode = "running" => faults' # faults
    <2>1. CASE faults' = faults /\ mode = "closed"
      BY <2>1, HeldFacts DEF Held, KafkaTypeOK, Habits
    <2>2. CASE Failure("commit")
      <3>1. faults.count \in Nat
        BY HeldFacts
      <3> QED
        BY <2>2, <3>1, FaultFacts
    <2> QED
      BY <1>1, <2>1, <2>2
  <1>9. Habits'
    BY <1>1, <1>2, <1>3, <1>7, HeldFacts DEF Habits, Kind, Sequential, Singles, Readable, Times
  <1>11. Held'
    BY <1>1, <1>3, <1>7, <1>9 DEF Held, KafkaTypeOK, ConsumerTypes
  <1> QED
    BY <1>1, <1>2, <1>4, <1>6, <1>7, <1>11

\* Where a client fetches when it starts, or starts again.
LEMMA RejoinFacts ==
    ASSUME KafkaTypeOK, ConsumerTypes, Rejoin
    PROVE  /\ next' \in Nat \ {0} /\ next' <= Len(log) + 1
           /\ skipped \subseteq skipped' /\ skipped' \subseteq DOMAIN log
           /\ committed = Nothing => \A i \in 1..(next' - 1) :
                  i \in skipped' \/ Times(i) > 0 \/ \E b \in InHand : b.at = i
           /\ committed = Nothing /\ FromBeginning => next' = 1
           /\ committed # Nothing => next' = committed + 1
  <1> DEFINE Left == {i \in 1..(StartAt - 1) : Times(i) = 0} \ {b.at : b \in InHand}
  <1>1. next' = StartAt /\ skipped' = skipped \union (IF committed = Nothing THEN Left ELSE {})
    BY DEF Rejoin
  <1>2. \A i : Times(i) \in Nat
    BY DEF Times, ConsumerTypes
  <1>3. /\ StartAt \in Nat \ {0} /\ StartAt <= Len(log) + 1
        /\ committed # Nothing => StartAt = committed + 1
        /\ committed = Nothing /\ FromBeginning => StartAt = 1
    BY DEF StartAt, KafkaTypeOK
  <1>4. DOMAIN log = 1..Len(log) /\ Len(log) \in Nat
    BY DEF KafkaTypeOK
  <1>5. /\ Left \subseteq 1..(StartAt - 1)
        /\ \A i \in 1..(StartAt - 1) : i \in Left \/ Times(i) > 0 \/ \E b \in InHand : b.at = i
    BY <1>2
  <1> HIDE DEF Left, StartAt
  <1>6. skipped' \subseteq DOMAIN log
    BY <1>1, <1>3, <1>4, <1>5 DEF ConsumerTypes
  <1> QED
    BY <1>1, <1>3, <1>5, <1>6

\* A client with nothing in hand fetches again from where the group is.
LEMMA RejoinShape ==
    ASSUME Held, Rejoin, committed' = committed, UNCHANGED <<setting, log, handled>>,
           queue = <<>>, work' = {}, queue' = <<>>, mode' = "running",
           pending' = pending, rebalance' = rebalance,
           faults' = faults \/ \E kind : Failure(kind)
    PROVE  Held' /\ InHand' = {} /\ \A i : ~Waits(i)'
  <1>1. /\ next' \in Nat \ {0} /\ next' <= Len(log) + 1 /\ skipped' \subseteq DOMAIN log
    BY HeldFacts, RejoinFacts
  <1>2. HandsType' /\ Consecutive' /\ InHand' = {}
    <2>1. HandsType' /\ Consecutive'
      BY <1>1, HeldFacts, HandsEmptied
    <2> QED
      BY <2>1 DEF InHand, ToSet
  <1>3. /\ faults'.count \in 0..setting.faults /\ faults'.kinds \subseteq FaultKinds
    <2>1. CASE faults' = faults
      BY <2>1 DEF Held, KafkaTypeOK
    <2>2. CASE \E kind : Failure(kind)
      BY <2>2, FaultFacts
    <2> QED
      BY <2>1, <2>2
  <1>4. Habits'
    <2>1. faults'.count = 0 => faults.count = 0
      BY FaultFacts, HeldFacts
    <2> QED
      BY <1>2, <2>1, HeldFacts DEF Habits, Kind, Sequential, Singles, Readable, Times
  <1>5. Held'
    BY <1>1, <1>2, <1>3, <1>4 DEF Held, KafkaTypeOK, ConsumerTypes
  <1> QED
    BY <1>2, <1>5 DEF Waits

LEMMA DestroyStep ==
    ASSUME Held, Destroy
    PROVE  /\ Held' /\ UNCHANGED <<setting, log, next, queue, work, pending, handled, skipped>>
           /\ mode = "running" /\ mode' = "closed" /\ InHand' = InHand
           /\ Failure("crash")
           /\ Kind = "generic" \/ committed' = committed
  <1>1. /\ mode = "running" /\ mode' = "closed" /\ rebalance' = "none"
        /\ UNCHANGED <<setting, log, next, queue, work, pending, handled, skipped>>
        /\ Failure("crash")
        /\ committed' = committed \/ (Kind = "generic" /\ committed' = next - 1)
    BY DEF Destroy
  <1>2. HandsType' /\ Consecutive' /\ InHand' = InHand
    BY <1>1, HeldFacts DEF HandsType, Consecutive, InHand
  <1>3. /\ faults'.count > 0 /\ faults'.count \in 0..setting.faults /\ faults'.kinds \subseteq FaultKinds
    BY <1>1, FaultFacts
  <1>4. Habits'
    BY <1>1, <1>2, <1>3, HeldFacts DEF Habits, Kind, Sequential, Singles, Readable, Times
  <1>5. committed' \in {Nothing} \union 0..Len(log)
    BY <1>1, HeldFacts DEF Held, KafkaTypeOK
  <1>6. Held'
    BY <1>1, <1>2, <1>3, <1>4, <1>5 DEF Held, KafkaTypeOK, ConsumerTypes
  <1> QED
    BY <1>1, <1>2, <1>6

LEMMA ExitStep ==
    ASSUME Held, Exit
    PROVE  /\ Held' /\ UNCHANGED <<setting, log, committed, next, handled, skipped>>
           /\ mode # "down" /\ mode' = "down" /\ InHand' = {} /\ pending' = 0
           /\ IF mode = "running" THEN Failure("crash") ELSE faults' = faults /\ faults.count > 0
  <1>1. /\ mode # "down" /\ mode' = "down" /\ queue' = <<>> /\ work' = {} /\ pending' = 0
        /\ rebalance' = "none"
        /\ UNCHANGED <<setting, log, committed, next, handled, skipped>>
        /\ IF mode = "running" THEN Failure("crash") ELSE faults' = faults
    BY DEF Exit
  <1>2. HandsType' /\ Consecutive'
    BY <1>1, HeldFacts, HandsEmptied
  <1>3. InHand' = {}
    BY <1>1 DEF InHand, ToSet
  <1>4. mode # "running" => faults.count > 0
    BY <1>1, HeldFacts DEF Habits, ConsumerTypes
  <1>5. /\ faults'.count > 0 /\ faults'.count \in 0..setting.faults /\ faults'.kinds \subseteq FaultKinds
    <2>1. CASE mode = "running"
      BY <1>1, <2>1, FaultFacts
    <2>2. CASE mode # "running"
      BY <1>1, <1>4, <2>2 DEF Held, KafkaTypeOK
    <2> QED
      BY <2>1, <2>2
  <1>6. Habits'
    BY <1>1, <1>3, <1>5, HeldFacts DEF Habits, Kind, Sequential, Singles, Readable, Times
  <1>7. Held'
    <2>1. 0 \in 0..Len(log)
      BY HeldFacts
    <2> QED
      BY <1>1, <1>2, <1>5, <1>6, <2>1 DEF Held, KafkaTypeOK, ConsumerTypes
  <1> QED
    BY <1>1, <1>3, <1>4, <1>7

--------------------------------------------------------------------------------
(* What a step makes of the properties *)

LEMMA InvHeld ==
    ASSUME OrderedInv
    PROVE  Held
  BY DEF OrderedInv, Held

LEMMA TimesNat ==
    ASSUME Held
    PROVE  \A i : Times(i) \in Nat
  BY DEF Held, ConsumerTypes, Times

\* A client that hands over one message after the other has finished with those
\* before the one at work.
LEMMA DoneBefore ==
    ASSUME OrderedInv, NEW w \in work, Sequential, OneByOne \/ faults.count = 0
    PROVE  \A i \in 1..(w.at - 1) : Done(i)
  <1>1. Held
    BY InvHeld
  <1>2. mode # "down" /\ \A v \in work : v = w
    BY <1>1, HeldFacts DEF Habits
  <1>3. w \in InHand /\ w \in BatchType /\ w.at <= w.last /\ w.at < next
    BY <1>1, AtFacts, HeldFacts
  <1> SUFFICES ASSUME NEW i \in 1..(w.at - 1), ~Done(i)
               PROVE  FALSE
    OBVIOUS
  <1>4. Waits(i)
    <2>1. i \in 1..Len(log) /\ i < next
      BY <1>1, <1>3, AtFacts, HeldFacts DEF BatchType
    <2> QED
      BY <1>2, <2>1 DEF OrderedInv, NothingForgotten
  <1>5. PICK b \in InHand : (b.at = i /\ b.step = "handle") \/ (b.at < i /\ i <= b.last)
    BY <1>4 DEF Waits
  <1>6. CASE b = w
    BY <1>3, <1>5, <1>6 DEF BatchType
  <1>7. CASE b # w
    <2>1. PICK k \in DOMAIN queue : b = queue[k]
      BY <1>2, <1>7 DEF InHand, ToSet
    <2>2. w.last < b.at
      BY <1>1, <2>1, HeldFacts DEF Consecutive
    <2>3. b \in BatchType
      BY <1>1, HeldFacts
    <2> QED
      BY <1>3, <1>5, <2>2, <2>3 DEF BatchType
  <1> QED
    BY <1>6, <1>7

LEMMA DoneUpTo ==
    ASSUME OrderedInv, NEW w \in work, w.step = "commit", OneByOne
    PROVE  \A i \in 1..w.at : Done(i)
  <1>1. Sequential
    BY DEF OneByOne, Sequential
  <1>2. \A i \in 1..(w.at - 1) : Done(i)
    BY <1>1, DoneBefore
  <1>3. Done(w.at)
    <2>1. Held /\ w \in InHand
      BY InvHeld DEF InHand
    <2> QED
      BY <2>1, HeldFacts DEF Habits, Done, Wanted
  <1>4. w.at \in Nat \ {0}
    BY InvHeld, HeldFacts DEF BatchType
  <1> QED
    BY <1>2, <1>3, <1>4

LEMMA OneByOneFacts ==
    ASSUME OneByOne
    PROVE  Sequential /\ Singles /\ Kind # "generic"
  BY DEF OneByOne, Sequential, Singles

\* A step in which messages pass keeps what was promised of them.
LEMMA PassesInv ==
    ASSUME OrderedInv, Held', Passes, CommittedDone'
    PROVE  OrderedInv'
  <1>1. Held
    BY InvHeld
  <1>2. /\ UNCHANGED <<setting, log, faults, mode, rebalance, handled, skipped>>
        /\ next' >= next /\ (next' > next => mode = "running")
        /\ \A i \in 1..Len(log) : Waits(i)' => Waits(i) \/ (next <= i /\ i < next')
        /\ \A i \in 1..Len(log) : Waits(i) \/ (next <= i /\ i < next') => Waits(i)' \/ ~Wanted(i)
    BY DEF Passes
  <1>3. /\ next \in Nat /\ Len(log) \in Nat /\ faults.count \in Nat
        /\ next' \in Nat /\ next' <= Len(log) + 1
    BY <1>1, <1>2, HeldFacts DEF Held, ConsumerTypes, HandsType
  <1>4. /\ \A i : Times(i)' = Times(i) /\ Times(i) \in Nat
        /\ Paid' = Paid /\ Paid \in Nat
    BY <1>1, <1>2, TimesNat, HeldFacts, PaidFacts DEF Times
  <1>5. \A i : (Done(i)' <=> Done(i)) /\ (Wanted(i)' <=> Wanted(i))
    BY <1>2, <1>4 DEF Done, Wanted, Readable, Kind
  <1>6. (OneByOne' <=> OneByOne) /\ Kind' = Kind
    BY <1>2 DEF OneByOne, Kind
  <1>7. NothingForgotten'
    <2> SUFFICES ASSUME (OneByOne /\ mode # "down") \/ faults.count = 0,
                        NEW i \in 1..Len(log), i < next', ~Done(i)
                 PROVE  Waits(i)'
      BY <1>2, <1>5, <1>6 DEF NothingForgotten
    <2>4. Wanted(i)
      BY DEF Done
    <2>2. CASE i < next
      <3>1. NothingForgotten
        BY DEF OrderedInv
      <3>2. Waits(i)
        BY <2>2, <3>1 DEF NothingForgotten
      <3> QED
        BY <1>2, <2>4, <3>2
    <2>3. CASE next <= i
      BY <1>2, <2>3, <2>4
    <2> QED
      BY <1>3, <2>2, <2>3
  <1>8. HandledInOrder'
    BY <1>2, <1>4, <1>5, <1>6 DEF HandledInOrder, OrderedInv
  <1>9. Repeats'
    <2> SUFFICES ASSUME NEW i \in 1..Len(log)
                 PROVE  IF mode = "running"
                        THEN /\ Times(i) <= Paid + 1
                             /\ Waits(i)' \/ i >= next' => Times(i) <= Paid
                        ELSE /\ Times(i) <= Paid
                             /\ Waits(i)' => Times(i) < Paid
      BY <1>2, <1>4 DEF Repeats
    <2>1. IF mode = "running"
          THEN /\ Times(i) <= Paid + 1
               /\ Waits(i) \/ i >= next => Times(i) <= Paid
          ELSE /\ Times(i) <= Paid
               /\ Waits(i) => Times(i) < Paid
      BY DEF OrderedInv, Repeats
    <2> QED
      BY <1>2, <1>3, <2>1
  <1> QED
    BY <1>7, <1>8, <1>9 DEF OrderedInv, Held

\* A commit is of the message at work, of one that was passed over, or, in the
\* generic client, of all that was fetched.
LEMMA CommittedShape ==
    ASSUME OrderedInv, Held', Passes,
           \/ committed' \in {committed, pending}
           \/ \E w \in work : w.step = "commit" /\ committed' = w.at
           \/ Kind = "generic" /\ committed' = next - 1,
           \/ pending' \in {pending, 0}
           \/ \E w \in work : w.step = "commit" /\ pending' = w.at
           \/ Kind = "rdkafka" /\ work = {} /\ pending' = next /\ next' = next + 1 /\ ~Wanted(next)
    PROVE  CommittedDone'
  <1>1. Held
    BY InvHeld
  <1>2. /\ UNCHANGED <<setting, log, faults, mode, rebalance, handled, skipped>> /\ next' >= next
        /\ next' > next => mode = "running"
    BY DEF Passes
  <1>3. /\ next \in Nat \ {0} /\ Len(log) \in Nat /\ committed \in Int /\ pending \in Nat
        /\ \A w \in work : w.at < next /\ w.at \in Nat
    BY <1>1, HeldFacts, AtFacts DEF ConsumerTypes
  <1>4. /\ \A i : Done(i)' <=> Done(i)
        /\ OneByOne' <=> OneByOne
    BY <1>2 DEF Done, Wanted, Readable, Kind, Times, OneByOne
  <1>5. CommittedDone
    BY DEF OrderedInv
  <1>6. ASSUME OneByOne, NEW i \in 1..Len(log), i <= committed' \/ i <= pending'
        PROVE  Done(i)
    <2>1. CASE i <= committed \/ i <= pending
      BY <1>5, <1>6, <2>1 DEF CommittedDone
    <2>2. CASE \E w \in work : w.step = "commit" /\ i <= w.at
      <3>1. PICK w \in work : w.step = "commit" /\ i <= w.at
        BY <2>2
      <3>2. i \in 1..w.at
        BY <1>3, <3>1
      <3> QED
        BY <1>6, <3>1, <3>2, DoneUpTo
    <2>3. CASE Kind = "rdkafka" /\ work = {} /\ i <= next /\ ~Wanted(next) /\ next' = next + 1
      <3>1. CASE i = next
        BY <2>3, <3>1 DEF Done
      <3>2. CASE i < next
        <4>1. InHand = {}
          BY <1>1, <2>3, HeldFacts DEF Habits
        <4>2. ~Waits(i)
          BY <4>1 DEF Waits
        <4>3. NothingForgotten /\ mode # "down"
          BY <1>2, <1>3, <2>3 DEF OrderedInv
        <4> QED
          BY <1>6, <3>2, <4>2, <4>3 DEF NothingForgotten
      <3> QED
        BY <1>3, <2>3, <3>1, <3>2
    <2> QED
      BY <1>3, <1>6, <2>1, <2>2, <2>3, OneByOneFacts
  <1>7. ASSUME faults.count = 0
        PROVE  committed' < next' /\ pending' < next'
    <2>1. committed < next /\ pending < next
      BY <1>5, <1>7 DEF CommittedDone
    <2>2. next' \in Int
      BY DEF Held, ConsumerTypes, HandsType
    <2> QED
      BY <1>2, <1>3, <2>1, <2>2
  <1> QED
    BY <1>2, <1>4, <1>6, <1>7 DEF CommittedDone

\* A callback that comes to its end.
LEMMA HandleInv ==
    ASSUME OrderedInv, NEW w \in work, w.step = "handle", Held', Less, Waits(w.at), ~Waits(w.at)',
           handled' = HandledTimes(w.at),
           UNCHANGED <<setting, log, mode, next, rebalance, skipped, pending>>,
           OneByOne \/ faults' = faults => Keeps,
           \/ faults' = faults /\ committed' = committed
           \/ Failure("reject") /\ committed' = w.at
    PROVE  OrderedInv'
  <1>1. Held
    BY InvHeld
  <1>2. /\ next \in Nat /\ Len(log) \in Nat /\ faults.count \in Nat /\ DOMAIN log = 1..Len(log)
        /\ w.at \in 1..Len(log) /\ w.at < next /\ mode # "down"
    BY <1>1, HeldFacts, AtFacts DEF Habits
  <1>3. /\ \A i : Times(i) \in Nat /\ Times(i)' = Times(i) + (IF i = w.at THEN 1 ELSE 0)
        /\ DOMAIN handled' = DOMAIN handled \union {w.at}
    BY <1>1, <1>2, HeldFacts, HandledOnce
  <1>4. /\ \/ faults' = faults
           \/ faults'.count = faults.count + 1
        /\ Paid \in Nat /\ Paid' \in Nat /\ Paid <= Paid'
    BY <1>1, FaultFacts, HeldFacts, PaidFacts
  <1>5. \A i : Wanted(i)' <=> Wanted(i)
    BY DEF Wanted, Readable, Kind
  <1>6. (OneByOne' <=> OneByOne) /\ Kind' = Kind
    BY DEF OneByOne, Kind
  <1>7. \A i : Done(i) => Done(i)'
    BY <1>3, <1>5 DEF Done
  <1>8. Done(w.at)'
    BY <1>3 DEF Done
  <1>9. NothingForgotten'
    <2> SUFFICES ASSUME (OneByOne /\ mode # "down") \/ faults'.count = 0,
                        NEW i \in 1..Len(log), i < next, ~Done(i)'
                 PROVE  Waits(i)'
      BY <1>6 DEF NothingForgotten
    <2>1. OneByOne \/ (faults' = faults /\ faults.count = 0)
      BY <1>2, <1>4
    <2>2. Waits(i)
      BY <1>2, <1>7, <2>1 DEF OrderedInv, NothingForgotten
    <2> QED
      BY <1>5, <2>1, <2>2 DEF Keeps, Done
  <1>10. CommittedDone'
    <2>1. ASSUME OneByOne, NEW i \in 1..Len(log), i <= committed' \/ i <= pending
          PROVE  Done(i)'
      <3>1. CASE i <= committed \/ i <= pending
        BY <1>7, <2>1, <3>1 DEF OrderedInv, CommittedDone
      <3>2. CASE i <= w.at
        <4>1. i = w.at \/ i \in 1..(w.at - 1)
          BY <1>2, <3>2
        <4>2. \A k \in 1..(w.at - 1) : Done(k)
          BY <2>1, DoneBefore, OneByOneFacts
        <4> QED
          BY <1>7, <1>8, <4>1, <4>2
      <3> QED
        BY <2>1, <3>1, <3>2
    <2>2. faults'.count = 0 => committed' < next /\ pending < next
      BY <1>2, <1>4 DEF OrderedInv, CommittedDone
    <2> QED
      BY <1>6, <2>1, <2>2 DEF CommittedDone
  <1>11. HandledInOrder'
    <2> SUFFICES ASSUME OneByOne \/ (faults'.count = 0 /\ (Kind = "css" => setting.sync)),
                        NEW j \in DOMAIN handled', NEW i \in 1..(j - 1)
                 PROVE  Done(i)'
      BY <1>6 DEF HandledInOrder, Done, Kind
    <2>1. OneByOne \/ (faults.count = 0 /\ Sequential)
      BY <1>2, <1>4 DEF Sequential
    <2>2. CASE j \in DOMAIN handled
      BY <1>7, <2>1, <2>2 DEF OrderedInv, HandledInOrder, Done, Sequential
    <2>3. CASE j = w.at
      BY <1>7, <2>1, <2>3, DoneBefore, OneByOneFacts
    <2> QED
      BY <1>3, <2>2, <2>3
  <1>12. Repeats'
    <2> SUFFICES ASSUME NEW i \in 1..Len(log)
                 PROVE  IF mode = "running"
                        THEN /\ Times(i)' <= Paid' + 1
                             /\ Waits(i)' \/ i >= next => Times(i)' <= Paid'
                        ELSE /\ Times(i)' <= Paid'
                             /\ Waits(i)' => Times(i)' < Paid'
      BY DEF Repeats
    <2>1. IF mode = "running"
          THEN /\ Times(i) <= Paid + 1
               /\ Waits(i) \/ i >= next => Times(i) <= Paid
          ELSE /\ Times(i) <= Paid
               /\ Waits(i) => Times(i) < Paid
      BY DEF OrderedInv, Repeats
    <2>2. Waits(i)' => Waits(i)
      BY DEF Less
    <2>3. Paid' \in Nat /\ Paid' >= Paid
      BY <1>4
    <2>4. CASE i = w.at
      BY <1>2, <1>3, <1>4, <2>1, <2>3, <2>4
    <2>5. CASE i # w.at
      BY <1>2, <1>3, <1>4, <2>1, <2>2, <2>3, <2>5
    <2> QED
      BY <2>4, <2>5
  <1> QED
    BY <1>9, <1>10, <1>11, <1>12 DEF OrderedInv, Held

LEMMA HandleActions ==
    ASSUME OrderedInv, NEW w \in work, Handle(w) \/ CssCallbackThrows(w)
    PROVE  OrderedInv'
  <1>1. Held
    BY InvHeld
  <1>2. ASSUME Handle(w) PROVE OrderedInv'
    <2> DEFINE v == [w EXCEPT !.step = "commit"]
    <2>1. Held' /\ Less /\ Keeps
      BY <1>1, <1>2, HandleStep
    <2>2. /\ w.step = "handle" /\ handled' = HandledTimes(w.at)
          /\ work' = (work \ {w}) \union {v}
          /\ UNCHANGED <<setting, log, committed, faults, mode, next, queue, pending, rebalance,
                         skipped>>
      BY <1>2 DEF Handle, kafkaVars
    <2>3. v.step = "commit" /\ v.at = w.at /\ v.last = w.last
      BY <1>1, HeldFacts DEF BatchType
    <2> HIDE DEF v
    <2>4. Waits(w.at) /\ ~Waits(w.at)'
      <3>1. PICK S : S = {v}
        OBVIOUS
      <3>2. \A z \in S : z.step = "commit" /\ z.at = w.at /\ z.last = w.last
        BY <2>3, <3>1
      <3>3. /\ w.step = "handle" /\ work' = (work \ {w}) \union S
            /\ queue' = queue /\ log' = log /\ handled' = HandledTimes(w.at)
        BY <2>2, <3>1
      <3> QED
        BY <1>1, <3>2, <3>3, HandleShape
    <2> QED
      BY <2>1, <2>2, <2>4, HandleInv
  <1>3. ASSUME CssCallbackThrows(w) PROVE OrderedInv'
    <2>1. Held' /\ Less /\ (w.at = w.last => Keeps)
      BY <1>1, <1>3, CssCallbackThrowsStep
    <2>2. PICK S : S = {}
      OBVIOUS
    <2>3. /\ w.step = "handle" /\ handled' = HandledTimes(w.at)
          /\ work' = (work \ {w}) \union S /\ Failure("reject") /\ committed' = w.at
          /\ UNCHANGED <<setting, log, mode, next, queue, pending, rebalance, skipped>>
      BY <1>3, <2>2 DEF CssCallbackThrows
    <2>4. Waits(w.at) /\ ~Waits(w.at)'
      <3>1. \A z \in S : z.step = "commit" /\ z.at = w.at /\ z.last = w.last
        BY <2>2
      <3>2. queue' = queue /\ log' = log
        BY <2>3
      <3> QED
        BY <1>1, <2>3, <3>1, <3>2, HandleShape
    <2>5. OneByOne \/ faults' = faults => Keeps
      <3>1. faults' # faults
        BY <1>1, <2>3, FaultFacts, HeldFacts
      <3>2. OneByOne => w.at = w.last
        BY <1>1, HeldFacts, OneByOneFacts DEF Habits
      <3> QED
        BY <2>1, <3>1, <3>2
    <2> QED
      BY <2>1, <2>3, <2>4, <2>5, HandleInv
  <1> QED
    BY <1>2, <1>3

\* A client with nothing in hand that fetches again from where the group is, when
\* it starts or after a failure.
LEMMA RejoinInv ==
    ASSUME OrderedInv, Held', Rejoin, committed' = committed, pending' = pending,
           UNCHANGED <<setting, log, handled>>, mode' = "running",
           \A i : ~Waits(i)',
           OneByOne \/ (mode = "down" /\ faults' = faults),
           (work = {} /\ queue = <<>>) \/ FromBeginning,
           \/ faults' = faults /\ mode # "running"
           \/ \E kind \in Refetching : Failure(kind)
    PROVE  OrderedInv'
  <1>1. Held
    BY InvHeld
  <1>2. /\ faults.count \in Nat /\ Len(log) \in Nat /\ committed \in Int
        /\ pending \in Nat
    BY <1>1, HeldFacts DEF Held, ConsumerTypes
  <1>3. /\ next' \in Nat \ {0} /\ next' <= Len(log) + 1
        /\ skipped \subseteq skipped'
        /\ committed = Nothing => \A i \in 1..(next' - 1) : i \in skipped' \/ Times(i) > 0
        /\ committed # Nothing => next' = committed + 1
    <2>1. InHand = {} \/ FromBeginning
      BY DEF InHand, ToSet
    <2> QED
      BY <1>1, <2>1, HeldFacts, RejoinFacts
  <1>4. /\ \/ faults' = faults
           \/ faults'.count = faults.count + 1 /\ faults'.count > 0
        /\ Paid \in Nat /\ Paid' \in Nat /\ Paid <= Paid'
        /\ mode = "running" => Paid + 1 <= Paid'
    BY <1>1, FaultFacts, HeldFacts, PaidFacts
  <1>5. \A i : Times(i) \in Nat /\ Times(i)' = Times(i)
    BY <1>1, TimesNat DEF Times
  <1>6. \A i : Done(i) => Done(i)'
    BY <1>3, <1>5 DEF Done, Wanted, Readable, Kind
  <1>7. (OneByOne' <=> OneByOne) /\ Kind' = Kind
    BY DEF OneByOne, Kind
  <1>8. faults'.count = 0 => faults.count = 0 /\ mode = "down" /\ committed = Nothing /\ pending = 0
    <2> SUFFICES ASSUME faults'.count = 0
                 PROVE  faults.count = 0 /\ mode = "down" /\ committed = Nothing /\ pending = 0
      OBVIOUS
    <2>1. \A kind : ~Failure(kind)
      BY <1>1, FaultFacts, HeldFacts
    <2>2. faults.count = 0 /\ mode # "running"
      BY <2>1
    <2> QED
      BY <1>1, <2>2, HeldFacts DEF Habits
  <1>9. NothingForgotten'
    <2> SUFFICES ASSUME OneByOne \/ faults'.count = 0, NEW i \in 1..Len(log), i < next'
                 PROVE  Done(i)'
      BY <1>7 DEF NothingForgotten
    <2>1. CASE committed = Nothing
      <3>1. PICK n \in Nat : n = next'
        BY <1>3
      <3>2. i \in Nat /\ 1 <= i /\ i < n
        BY <1>2, <3>1
      <3>3. i \in 1..(n - 1)
        <4>1. \A k, m \in Nat : 1 <= k /\ k < m => k \in 1..(m - 1)
          OBVIOUS
        <4> QED
          BY <3>2, <4>1
      <3> QED
        BY <1>3, <1>5, <2>1, <3>1, <3>3 DEF Done
    <2>2. CASE committed # Nothing
      <3>1. OneByOne /\ i <= committed
        BY <1>2, <1>3, <1>8, <2>2
      <3> QED
        BY <1>6, <3>1 DEF OrderedInv, CommittedDone
    <2> QED
      BY <2>1, <2>2
  <1>10. CommittedDone'
    <2>1. ASSUME OneByOne, NEW i \in 1..Len(log), i <= committed \/ i <= pending
          PROVE  Done(i)'
      BY <1>6, <2>1 DEF OrderedInv, CommittedDone
    <2>2. faults'.count = 0 => committed < next' /\ pending < next'
      BY <1>3, <1>8 DEF Nothing
    <2> QED
      BY <1>7, <2>1, <2>2 DEF CommittedDone
  <1>11. HandledInOrder'
    <2> SUFFICES ASSUME OneByOne \/ (faults'.count = 0 /\ (Kind = "css" => setting.sync)),
                        NEW j \in DOMAIN handled, NEW i \in 1..(j - 1)
                 PROVE  Done(i)'
      BY <1>7 DEF HandledInOrder, Done, Kind
    <2>1. Done(i)
      BY <1>8 DEF OrderedInv, HandledInOrder, Done
    <2> QED
      BY <1>6, <2>1
  <1>12. Repeats'
    <2> SUFFICES ASSUME NEW i \in 1..Len(log)
                 PROVE  /\ Times(i) <= Paid' + 1
                        /\ i >= next' => Times(i) <= Paid'
      BY <1>5 DEF Repeats
    <2>1. IF mode = "running"
          THEN Times(i) <= Paid + 1
          ELSE Times(i) <= Paid
      BY DEF OrderedInv, Repeats
    <2> QED
      BY <1>2, <1>4, <1>5, <2>1
  <1> QED
    BY <1>9, <1>10, <1>11, <1>12 DEF OrderedInv, Held

LEMMA RejoinActions ==
    ASSUME OrderedInv, Start \/ KafkajsCommitRejects
    PROVE  OrderedInv'
  <1>1. Held
    BY InvHeld
  <1>2. ASSUME NEW kind, Connect(kind) PROVE OrderedInv'
    <2>1. /\ mode = "down" /\ mode' = "running" /\ Rejoin
          /\ UNCHANGED <<setting, log, committed, faults, queue, work, pending, rebalance, handled>>
      BY <1>2 DEF Connect, kafkaVars
    <2>2. queue = <<>> /\ work = {}
      BY <1>1, <2>1, HeldFacts DEF Habits
    <2>3. Held' /\ \A i : ~Waits(i)'
      BY <1>1, <2>1, <2>2, RejoinShape
    <2> QED
      BY <2>1, <2>2, <2>3, RejoinInv
  <1>3. ASSUME KafkajsCommitRejects PROVE OrderedInv'
    <2>1. /\ mode = "running" /\ Rejoin /\ Kind = "kafkajs" /\ Failure("commit") /\ work' = {}
          /\ UNCHANGED <<setting, log, committed, mode, queue, pending, rebalance, handled>>
      BY <1>3 DEF KafkajsCommitRejects
    <2>2. queue = <<>> /\ OneByOne /\ FromBeginning /\ "commit" \in Refetching
      BY <1>1, <2>1, HeldFacts DEF Habits, OneByOne, FromBeginning, Refetching
    <2>3. Held' /\ \A i : ~Waits(i)'
      BY <1>1, <2>1, <2>2, RejoinShape
    <2> QED
      BY <2>1, <2>2, <2>3, RejoinInv
  <1> QED
    BY <1>2, <1>3
       DEF Start, RdkafkaInit, GenericInit, StreamInit, KafkajsInit, CssConnect

\* A client that meets a failure, or stops, keeps what was promised of the others.
LEMMA StopInv ==
    ASSUME OrderedInv, Held', UNCHANGED <<setting, log, next, handled, skipped>>, Less,
           OneByOne /\ mode' # "down" => mode # "down" /\ Keeps,
           committed' = committed \/ Kind = "generic", pending' \in {pending, 0},
           faults'.count > 0, faults'.count >= faults.count,
           Paid' \in Nat, Paid <= Paid', mode = "running" => Paid + 1 <= Paid'
    PROVE  OrderedInv'
  <1>1. Held
    BY InvHeld
  <1>2. /\ faults.count \in Nat /\ faults'.count \in Nat /\ Len(log) \in Nat /\ Paid \in Nat
        /\ pending \in Nat /\ next \in Nat
    <2>1. faults'.count \in Int
      BY KafkaAssumption DEF Held, KafkaTypeOK, Setting
    <2> QED
      BY <1>1, <2>1, HeldFacts, PaidFacts DEF ConsumerTypes
  <1>3. \A i : Times(i) \in Nat /\ Times(i)' = Times(i)
    BY <1>1, TimesNat DEF Times
  <1>4. \A i : Done(i)' <=> Done(i)
    BY <1>3 DEF Done, Wanted, Readable, Kind
  <1>5. (OneByOne' <=> OneByOne) /\ Kind' = Kind
    BY DEF OneByOne, Kind
  <1>6. NothingForgotten'
    <2> SUFFICES ASSUME OneByOne, mode' # "down", NEW i \in 1..Len(log), i < next, ~Done(i)
                 PROVE  Waits(i)'
      BY <1>2, <1>4, <1>5 DEF NothingForgotten
    <2>1. Waits(i)
      BY DEF OrderedInv, NothingForgotten
    <2> QED
      BY <1>3, <2>1 DEF Keeps, Done
  <1>7. CommittedDone'
    <2>1. ASSUME OneByOne, NEW i \in 1..Len(log), i <= committed' \/ i <= pending'
          PROVE  Done(i)
      <3>1. i <= committed \/ i <= pending
        BY <1>2, <2>1, OneByOneFacts
      <3> QED
        BY <2>1, <3>1 DEF OrderedInv, CommittedDone
    <2> QED
      BY <1>2, <1>4, <1>5, <2>1 DEF CommittedDone
  <1>8. HandledInOrder'
    <2> SUFFICES ASSUME OneByOne, NEW j \in DOMAIN handled, NEW i \in 1..(j - 1)
                 PROVE  Done(i)
      BY <1>2, <1>4, <1>5 DEF HandledInOrder, Done
    <2> QED
      BY DEF OrderedInv, HandledInOrder, Done
  <1>9. Repeats'
    <2> SUFFICES ASSUME NEW i \in 1..Len(log)
                 PROVE  IF mode' = "running"
                        THEN /\ Times(i) <= Paid' + 1
                             /\ Waits(i)' \/ i >= next => Times(i) <= Paid'
                        ELSE /\ Times(i) <= Paid'
                             /\ Waits(i)' => Times(i) < Paid'
      BY <1>3 DEF Repeats
    <2>1. IF mode = "running"
          THEN /\ Times(i) <= Paid + 1
               /\ Waits(i) \/ i >= next => Times(i) <= Paid
          ELSE /\ Times(i) <= Paid
               /\ Waits(i) => Times(i) < Paid
      BY DEF OrderedInv, Repeats
    <2>2. Waits(i)' => Waits(i)
      BY DEF Less
    <2> QED
      BY <1>2, <1>3, <2>1, <2>2
  <1> QED
    BY <1>6, <1>7, <1>8, <1>9 DEF OrderedInv, Held

LEMMA StopActions ==
    ASSUME OrderedInv,
           RdkafkaCommitThrows \/ (\E w \in work : CommitFails(w)) \/ Destroy \/ Exit
    PROVE  OrderedInv'
  <1>1. Held
    BY InvHeld
  <1>2. /\ faults.count \in Nat /\ Paid \in Nat
        /\ faults' = faults => Paid' = Paid
        /\ "commit" \in Refetching /\ "crash" \in Refetching
    BY <1>1, HeldFacts, PaidFacts DEF Refetching
  <1>4. ASSUME RdkafkaCommitThrows \/ \E w \in work : CommitFails(w) PROVE OrderedInv'
    <2>1. /\ Held' /\ Less
          /\ UNCHANGED <<setting, log, committed, next, pending, rebalance, handled, skipped>>
          /\ faults'.count > 0 /\ faults'.count >= faults.count
          /\ mode # "down" /\ (mode = "running" => faults' # faults)
          /\ faults' = faults \/ Failure("commit")
          /\ Singles => Keeps
      BY <1>1, <1>4, CommitLost
    <2>2. OneByOne /\ mode' # "down" => mode # "down" /\ Keeps
      BY <2>1, OneByOneFacts
    <2>3. Paid' \in Nat /\ Paid <= Paid' /\ (mode = "running" => Paid + 1 <= Paid')
      BY <1>1, <1>2, <2>1, FaultFacts
    <2> QED
      BY <2>1, <2>2, <2>3, StopInv
  <1>5. ASSUME Destroy PROVE OrderedInv'
    <2>1. /\ Held' /\ UNCHANGED <<setting, log, next, queue, work, pending, handled, skipped>>
          /\ mode = "running" /\ mode' = "closed" /\ InHand' = InHand
          /\ Failure("crash")
          /\ Kind = "generic" \/ committed' = committed
      BY <1>1, <1>5, DestroyStep
    <2>2. Less /\ Keeps
      BY <2>1 DEF Less, Keeps, Waits
    <2>3. /\ faults'.count > 0 /\ faults'.count >= faults.count
          /\ Paid' \in Nat /\ Paid <= Paid' /\ Paid + 1 <= Paid'
      BY <1>1, <1>2, <2>1, FaultFacts
    <2> QED
      BY <2>1, <2>2, <2>3, StopInv
  <1>6. ASSUME Exit PROVE OrderedInv'
    <2>1. /\ Held' /\ UNCHANGED <<setting, log, committed, next, handled, skipped>>
          /\ mode # "down" /\ mode' = "down" /\ InHand' = {} /\ pending' = 0
          /\ IF mode = "running" THEN Failure("crash") ELSE faults' = faults /\ faults.count > 0
      BY <1>1, <1>6, ExitStep
    <2>2. Less
      BY <2>1 DEF Less, Waits
    <2>3. /\ faults'.count > 0 /\ faults'.count >= faults.count
          /\ Paid' \in Nat /\ Paid <= Paid' /\ (mode = "running" => Paid + 1 <= Paid')
      BY <1>1, <1>2, <2>1, FaultFacts
    <2> QED
      BY <2>1, <2>2, <2>3, StopInv
  <1> QED
    BY <1>4, <1>5, <1>6

\* What is stored, or fails elsewhere, leaves the consumer as it is.
LEMMA OrderedGrowth ==
    ASSUME OrderedInv, NEW messages \in Seq(Message), log' = log \o messages,
           setting' = setting, committed' = committed,
           faults' = faults \/ \E kind : Failure(kind),
           UNCHANGED <<mode, next, queue, work, pending, rebalance, handled, skipped>>
    PROVE  OrderedInv'
  <1>1. Held
    BY InvHeld
  <1>2. /\ faults.count \in Nat /\ Len(log) \in Nat /\ next \in Nat /\ committed \in Int
        /\ committed <= Len(log) /\ pending \in 0..Len(log) /\ next <= Len(log) + 1
        /\ DOMAIN log = 1..Len(log) /\ DOMAIN handled \subseteq 1..Len(log)
    BY <1>1, HeldFacts DEF Held, KafkaTypeOK, Nothing, ConsumerTypes
  <1>3. /\ log' \in Seq(Message) /\ Len(log)' \in Nat /\ Len(log)' >= Len(log)
        /\ DOMAIN log' = 1..Len(log)' /\ \A i \in 1..Len(log) : log'[i] = log[i]
    <2>1. log \in Seq(Message)
      BY <1>1 DEF Held, KafkaTypeOK
    <2> QED
      BY <2>1
  <1>4. /\ faults'.count \in Nat /\ faults'.count >= faults.count
        /\ faults'.count \in 0..setting.faults /\ faults'.kinds \subseteq FaultKinds
        /\ Paid \in Nat /\ Paid' \in Nat /\ Paid <= Paid'
    <2>1. CASE faults' = faults
      BY <1>1, <1>2, <2>1, HeldFacts, PaidFacts DEF Held, KafkaTypeOK
    <2>2. CASE \E kind : Failure(kind)
      BY <1>1, <1>2, <2>2, FaultFacts
    <2> QED
      BY <2>1, <2>2
  <1>5. \A i : Times(i) \in Nat /\ Times(i)' = Times(i)
    BY <1>1, TimesNat DEF Times
  <1>6. InHand' = InHand /\ \A i : Waits(i)' <=> Waits(i)
    BY DEF InHand, Waits
  <1>7. \A i \in 1..Len(log) : (Done(i)' <=> Done(i)) /\ (Readable(i)' <=> Readable(i))
    BY <1>3, <1>5 DEF Done, Wanted, Readable, Kind
  <1>8. (OneByOne' <=> OneByOne) /\ Kind' = Kind
    BY DEF OneByOne, Kind
  <1>9. \A i \in 1..Len(log)' : i > Len(log) => Times(i) = 0 /\ ~Waits(i)
    <2> SUFFICES ASSUME NEW i \in 1..Len(log)', i > Len(log)
                 PROVE  Times(i) = 0 /\ ~Waits(i)
      OBVIOUS
    <2>1. Times(i) = 0
      BY <1>2, <1>3 DEF Times
    <2>2. ~Waits(i)
      <3>1. \A k \in Int : Waits(k) => k < next
        BY <1>1, WaitsFetched, HeldFacts
      <3> QED
        BY <1>2, <1>3, <3>1
    <2> QED
      BY <2>1, <2>2
  <1>10. Held'
    <2>1. KafkaTypeOK'
      BY <1>1, <1>2, <1>3, <1>4 DEF Held, KafkaTypeOK
    <2>2. ConsumerTypes' /\ Consecutive'
      BY <1>1, <1>2, <1>3, <1>6, HeldFacts DEF ConsumerTypes, HandsType, Consecutive
    <2>3. Habits'
      <3>1. \A b \in InHand : b.step = "commit" /\ Readable(b.at)' => Times(b.at)' > 0
        <4>1. \A b \in InHand : b.at \in 1..Len(log)
          BY <1>1, AtFacts, HeldFacts DEF BatchType
        <4> QED
          BY <1>1, <1>5, <1>7, <4>1, HeldFacts DEF Habits
      <3> QED
        BY <1>1, <1>2, <1>4, <1>6, <1>8, <3>1, HeldFacts DEF Habits, Sequential, Singles
    <2> QED
      BY <2>1, <2>2, <2>3 DEF Held
  <1>11. NothingForgotten'
    <2> SUFFICES ASSUME (OneByOne /\ mode # "down") \/ faults.count = 0,
                        NEW i \in 1..Len(log), i < next, ~Done(i)
                 PROVE  Waits(i)
      BY <1>2, <1>3, <1>4, <1>6, <1>7, <1>8 DEF NothingForgotten
    <2> QED
      BY DEF OrderedInv, NothingForgotten
  <1>12. CommittedDone'
    <2>1. ASSUME OneByOne, NEW i \in 1..Len(log)', i <= committed \/ i <= pending
          PROVE  Done(i)'
      <3>1. i \in 1..Len(log)
        BY <1>2, <1>3, <2>1
      <3> QED
        BY <1>7, <2>1, <3>1 DEF OrderedInv, CommittedDone
    <2> QED
      BY <1>2, <1>4, <1>8, <2>1 DEF OrderedInv, CommittedDone
  <1>13. HandledInOrder'
    <2> SUFFICES ASSUME OneByOne \/ (faults.count = 0 /\ (Kind = "css" => setting.sync)),
                        NEW j \in DOMAIN handled, NEW i \in 1..(j - 1)
                 PROVE  Done(i)'
      BY <1>2, <1>4, <1>8 DEF HandledInOrder, Done, Kind
    <2>1. i \in 1..Len(log)
      BY <1>2
    <2> QED
      BY <1>7, <2>1 DEF OrderedInv, HandledInOrder, Done
  <1>14. Repeats'
    <2> SUFFICES ASSUME NEW i \in 1..Len(log)'
                 PROVE  IF mode = "running"
                        THEN /\ Times(i) <= Paid' + 1
                             /\ Waits(i) \/ i >= next => Times(i) <= Paid'
                        ELSE /\ Times(i) <= Paid'
                             /\ Waits(i) => Times(i) < Paid'
      BY <1>5, <1>6 DEF Repeats
    <2>1. CASE i \in 1..Len(log)
      BY <1>2, <1>4, <1>5, <2>1 DEF OrderedInv, Repeats
    <2>2. CASE i > Len(log)
      BY <1>4, <1>9, <2>2
    <2> QED
      BY <1>2, <1>3, <2>1, <2>2
  <1> QED
    BY <1>10, <1>11, <1>12, <1>13, <1>14 DEF OrderedInv, Held

\* What a running client does by itself, handling apart.
LEMMA ConsumeInv ==
    ASSUME OrderedInv, Consume, ~\E w \in work : Handle(w)
    PROVE  OrderedInv'
  <1>1. Held
    BY InvHeld
  <1>2. ASSUME RdkafkaTake PROVE OrderedInv'
    <2>1. Held' /\ Passes
      BY <1>1, <1>2, RdkafkaTakeStep
    <2>2. CommittedDone'
      <3>1. committed' = committed /\ Kind = "rdkafka" /\ work = {} /\ next' = next + 1
        BY <1>2 DEF RdkafkaTake, kafkaVars
      <3>2. pending' = pending \/ (pending' = next /\ ~Wanted(next))
        BY <1>2 DEF RdkafkaTake, Wanted
      <3> QED
        BY <2>1, <3>1, <3>2, CommittedShape
    <2> QED
      BY <2>1, <2>2, PassesInv
  <1>3. ASSUME RdkafkaCommit PROVE OrderedInv'
    <2>1. Held' /\ Passes
      BY <1>1, <1>3, CommitSteps
    <2>2. CommittedDone'
      <3>1. PICK w \in work : /\ w.step = "commit"
                              /\ committed' \in {committed, w.at}
                              /\ pending' \in {0, w.at}
        BY <1>3 DEF RdkafkaCommit
      <3> QED
        BY <2>1, <3>1, CommittedShape
    <2> QED
      BY <2>1, <2>2, PassesInv
  <1>4. ASSUME CommitArrives PROVE OrderedInv'
    <2>1. Held' /\ Passes
      BY <1>1, <1>4, CommitArrivesStep
    <2>2. CommittedDone'
      <3>1. committed' = pending /\ pending' = 0
        BY <1>4 DEF CommitArrives
      <3> QED
        BY <2>1, <3>1, CommittedShape
    <2> QED
      BY <2>1, <2>2, PassesInv
  <1>5. ASSUME GenericOnMessage PROVE OrderedInv'
    <2>1. Held' /\ Passes
      BY <1>1, <1>5, GenericOnMessageStep
    <2>2. committed' = committed /\ pending' = pending
      BY <1>5 DEF GenericOnMessage, kafkaVars
    <2> QED
      BY <2>1, <2>2, CommittedShape, PassesInv
  <1>6. ASSUME GenericWork \/ CssWork PROVE OrderedInv'
    <2>1. Held' /\ Passes
      BY <1>1, <1>6, WorkSteps
    <2>2. committed' = committed /\ pending' = pending
      BY <1>6 DEF GenericWork, CssWork, kafkaVars
    <2> QED
      BY <2>1, <2>2, CommittedShape, PassesInv
  <1>7. ASSUME GenericCommit PROVE OrderedInv'
    <2>1. Held' /\ Passes
      BY <1>1, <1>7, CommitSteps
    <2>2. Kind = "generic" /\ committed' = next - 1 /\ pending' = pending
      BY <1>7 DEF GenericCommit
    <2> QED
      BY <2>1, <2>2, CommittedShape, PassesInv
  <1>8. ~StreamPrefetch /\ ~StreamOnMessage /\ ~StreamCommit /\ ~StreamRebalanceWaited /\ ~StreamRejoin
    BY <1>1, HeldFacts
       DEF Habits, StreamPrefetch, StreamOnMessage, StreamCommit, StreamRebalanceWaited, StreamRejoin
  <1>11. ASSUME KafkajsEachMessage PROVE OrderedInv'
    <2>1. Held' /\ Passes
      BY <1>1, <1>11, KafkajsEachMessageStep
    <2>2. committed' = committed /\ pending' = pending
      BY <1>11 DEF KafkajsEachMessage, kafkaVars
    <2> QED
      BY <2>1, <2>2, CommittedShape, PassesInv
  <1>12. ASSUME KafkajsCommit PROVE OrderedInv'
    <2>1. Held' /\ Passes
      BY <1>1, <1>12, CommitSteps
    <2>2. CommittedDone'
      <3>1. PICK w \in work : w.step = "commit" /\ committed' = w.at
        BY <1>12 DEF KafkajsCommit
      <3>2. pending' = pending
        BY <1>12 DEF KafkajsCommit
      <3> QED
        BY <2>1, <3>1, <3>2, CommittedShape
    <2> QED
      BY <2>1, <2>2, PassesInv
  <1>13. ASSUME NEW n \in 1..setting.batchSize, CssConsumeSync(n) \/ CssConsumeAsync(n)
         PROVE  OrderedInv'
    <2>1. Held' /\ Passes
      BY <1>1, <1>13, CssConsumeSyncStep, CssConsumeAsyncStep
    <2>2. committed' = committed /\ pending' = pending
      BY <1>13 DEF CssConsumeSync, CssConsumeAsync, kafkaVars
    <2> QED
      BY <2>1, <2>2, CommittedShape, PassesInv
  <1>14. ASSUME NEW w \in work, CssCommit(w) PROVE OrderedInv'
    <2>1. Held' /\ Passes
      BY <1>1, <1>14, CssCommitStep
    <2>2. w.step = "commit" /\ committed' = w.at /\ pending' = pending
      BY <1>14 DEF CssCommit
    <2> QED
      BY <2>1, <2>2, CommittedShape, PassesInv
  <1> QED
    BY <1>2, <1>3, <1>4, <1>5, <1>6, <1>7, <1>8, <1>11, <1>12, <1>13, <1>14
       DEF Consume

\* Every step of the consumer.
LEMMA OrderedStepsInv ==
    ASSUME OrderedInv, Start \/ Consume \/ ConsumerFails
    PROVE  OrderedInv'
  <1>1. CASE Start
    BY <1>1, RejoinActions
  <1>2. CASE Consume
    <2>1. CASE \E w \in work : Handle(w)
      BY <2>1, HandleActions
    <2> QED
      BY <1>2, <2>1, ConsumeInv
  <1>3. CASE ConsumerFails
    <2>1. ~StreamOnRebalance
      BY InvHeld, HeldFacts DEF Habits, StreamOnRebalance
    <2> QED
      BY <1>3, <2>1, StopActions, HandleActions, RejoinActions DEF ConsumerFails
  <1> QED
    BY <1>1, <1>2, <1>3

LEMMA OrderedInitInv ==
    ASSUME KafkaInit, ConsumerInit, Kind # "stream"
    PROVE  OrderedInv
  <1>1. /\ log = <<>> /\ committed = Nothing /\ faults = [count |-> 0, kinds |-> {}]
        /\ mode = "down" /\ next = 1 /\ queue = <<>> /\ work = {} /\ pending = 0
        /\ rebalance = "none" /\ handled = Unhandled /\ skipped = {}
        /\ setting \in Setting /\ setting \in Settings
    BY KafkaAssumption DEF KafkaInit, ConsumerInit
  <1>2. InHand = {} /\ DOMAIN handled = {} /\ handled = [i \in DOMAIN handled |-> handled[i]]
    BY <1>1 DEF InHand, ToSet, Unhandled
  <1>3. \A i : ~Waits(i) /\ Times(i) = 0
    BY <1>2 DEF Waits, Times
  <1>4. KafkaTypeOK
    BY <1>1 DEF KafkaTypeOK, Setting
  <1>5. HandsType /\ Consecutive
    BY <1>1, <1>2 DEF HandsType, Consecutive
  <1>8. ConsumerTypes
    <2>1. handled = [i \in DOMAIN handled |-> handled[i]]
      BY <1>2
    <2>2. DOMAIN handled \subseteq DOMAIN log /\ \A i \in DOMAIN handled : handled[i] \in Nat
      BY <1>2
    <2>3. mode = "down" /\ pending = 0 /\ rebalance = "none" /\ Len(log) = 0
      BY <1>1
    <2>4. skipped \subseteq DOMAIN log
      BY <1>1
    <2>5. 0 \in 0..0
      OBVIOUS
    <2>6. pending \in 0..Len(log) /\ rebalance \in {"none", "waiting", "joining"}
      BY <2>3, <2>5, Zenon
    <2> QED
      BY <1>5, <2>1, <2>2, <2>3, <2>4, <2>6, Zenon DEF ConsumerTypes
  <1>6. Habits
    BY <1>1, <1>2 DEF Habits, Nothing, Sequential
  <1>7. NothingForgotten /\ CommittedDone /\ HandledInOrder /\ Repeats
    BY <1>1, <1>2, <1>3
       DEF NothingForgotten, CommittedDone, HandledInOrder, Repeats, Paid, Nothing
  <1> QED
    BY <1>4, <1>5, <1>6, <1>7, <1>8 DEF OrderedInv

--------------------------------------------------------------------------------
(* The stream client: what its buffer holds *)

LEMMA CopiesAdded ==
    ASSUME NEW q \in Seq(BatchType), NEW b \in BatchType, NEW i
    PROVE  /\ Copies(q, i) \in Nat /\ Copies(<<>>, i) = 0
           /\ Copies(q, i) > 0 => \E k \in DOMAIN q : q[k].at = i
           /\ Copies(Append(q, b), i) = Copies(q, i) + (IF b.at = i THEN 1 ELSE 0)
  <1> DEFINE D == {k \in DOMAIN q : q[k].at = i}
  <1> DEFINE E == {k \in DOMAIN Append(q, b) : Append(q, b)[k].at = i}
  <1>1. Len(q) \in Nat /\ DOMAIN q = 1..Len(q)
    OBVIOUS
  <1>2. IsFiniteSet(D)
    <2>1. IsFiniteSet(1..Len(q))
      BY <1>1, FS_Interval
    <2>2. D \in SUBSET (1..Len(q))
      BY <1>1
    <2> QED
      BY <2>1, <2>2, FS_Subset
  <1>3. E = IF b.at = i THEN D \union {Len(q) + 1} ELSE D
    <2>1. /\ DOMAIN Append(q, b) = DOMAIN q \union {Len(q) + 1}
          /\ \A k \in DOMAIN q : Append(q, b)[k] = q[k]
          /\ Append(q, b)[Len(q) + 1] = b
      BY AppendSet
    <2> QED
      BY <2>1
  <1>4. Len(q) + 1 \notin D
    BY <1>1
  <1>5. {k \in DOMAIN <<>> : <<>>[k].at = i} = {}
    OBVIOUS
  <1>6. Copies(q, i) = Cardinality(D) /\ Copies(Append(q, b), i) = Cardinality(E)
    BY DEF Copies
  <1>7. Copies(<<>>, i) = 0
    BY <1>5, FS_EmptySet DEF Copies
  <1>8. D = {} \/ \E k \in DOMAIN q : q[k].at = i
    OBVIOUS
  <1> HIDE DEF D, E
  <1>9. Cardinality(D \union {Len(q) + 1}) = Cardinality(D) + 1 /\ Cardinality(D) \in Nat
    BY <1>2, <1>4, FS_AddElement, FS_CardinalityType
  <1>10. D = {} => Cardinality(D) = 0
    BY FS_EmptySet
  <1> QED
    BY <1>3, <1>6, <1>7, <1>8, <1>9, <1>10

LEMMA CopiesTaken ==
    ASSUME NEW q \in Seq(BatchType), q # <<>>, NEW i
    PROVE  /\ Copies(q, i) = Copies(Tail(q), i) + (IF Head(q).at = i THEN 1 ELSE 0)
           /\ Copies(Tail(q), i) \in Nat
  <1> DEFINE D == {k \in DOMAIN q : q[k].at = i}
  <1> DEFINE E == {k \in DOMAIN Tail(q) : Tail(q)[k].at = i}
  <1> DEFINE F == {k \in D : k # 1}
  <1>1. /\ Len(q) \in Nat \ {0} /\ DOMAIN q = 1..Len(q) /\ Head(q) = q[1]
        /\ DOMAIN Tail(q) = 1..(Len(q) - 1) /\ Tail(q) \in Seq(BatchType)
        /\ \A k \in 1..(Len(q) - 1) : Tail(q)[k] = q[k + 1]
    OBVIOUS
  <1>2. IsFiniteSet(E)
    <2>1. IsFiniteSet(1..(Len(q) - 1))
      BY <1>1, FS_Interval
    <2>2. E \in SUBSET (1..(Len(q) - 1))
      BY <1>1
    <2> QED
      BY <2>1, <2>2, FS_Subset
  <1>3. ExistsBijection(E, F)
    <2> DEFINE f == [k \in E |-> k + 1]
    <2>1. f \in [E -> F]
      BY <1>1
    <2>2. \A k, l \in E : f[k] = f[l] => k = l
      BY <1>1
    <2>3. \A m \in F : \E k \in E : f[k] = m
      <3> SUFFICES ASSUME NEW m \in F
                   PROVE  \E k \in E : f[k] = m
        OBVIOUS
      <3>1. m - 1 \in E /\ (m - 1) + 1 = m
        BY <1>1
      <3> QED
        BY <3>1
    <2> HIDE DEF E, F, f
    <2>4. f \in Injection(E, F)
      <3>1. DOMAIN f = E
        BY <2>1
      <3> QED
        BY <2>1, <2>2, <3>1 DEF Injection, IsInjective
    <2>5. f \in Surjection(E, F)
      BY <2>1, <2>3 DEF Surjection
    <2> QED
      BY <2>4, <2>5 DEF ExistsBijection, Bijection
  <1>4. D = IF Head(q).at = i THEN F \union {1} ELSE F
    BY <1>1
  <1>5. 1 \notin F
    OBVIOUS
  <1>6. Copies(q, i) = Cardinality(D) /\ Copies(Tail(q), i) = Cardinality(E)
    BY DEF Copies
  <1> HIDE DEF D, E, F
  <1>7. IsFiniteSet(F) /\ Cardinality(F) = Cardinality(E) /\ Cardinality(E) \in Nat
    BY <1>2, <1>3, FS_Bijection, FS_CardinalityType
  <1>8. Cardinality(F \union {1}) = Cardinality(F) + 1
    BY <1>5, <1>7, FS_AddElement
  <1> QED
    BY <1>4, <1>6, <1>7, <1>8

LEMMA StreamFacts ==
    ASSUME StreamInv
    PROVE  /\ KafkaTypeOK /\ ConsumerTypes /\ StreamHabits /\ StreamOrder /\ StreamRepeats
           /\ next \in Nat \ {0} /\ Len(log) \in Nat /\ next <= Len(log) + 1
           /\ DOMAIN log = 1..Len(log)
           /\ faults.count \in Nat /\ committed \in Int /\ committed <= Len(log)
           /\ \A b \in InHand : b \in BatchType /\ b.at \in 1..Len(log)
           /\ queue \in Seq(BatchType) /\ Len(queue) \in Nat /\ DOMAIN queue = 1..Len(queue)
           /\ work \subseteq InHand /\ \A k \in DOMAIN queue : queue[k] \in InHand
           /\ Paid \in Nat /\ OneByOne
           /\ \A i : Times(i) \in Nat /\ Copies(queue, i) \in Nat
           /\ \A i : AtWork(i) \in {0, 1} /\ Again(i) \in {0, 1, 2}
  <1>1. KafkaTypeOK /\ ConsumerTypes /\ StreamHabits /\ StreamOrder /\ StreamRepeats
    BY DEF StreamInv
  <1>2. faults.count \in Nat /\ Paid \in Nat
    BY <1>1, PaidFacts
  <1>3. Len(log) \in Nat /\ DOMAIN log = 1..Len(log) /\ committed \in Int /\ committed <= Len(log)
    BY <1>1 DEF KafkaTypeOK, Nothing
  <1>4. /\ next \in Nat \ {0} /\ next <= Len(log) + 1
        /\ queue \in Seq(BatchType) /\ work \subseteq BatchType
    BY <1>1 DEF ConsumerTypes, HandsType
  <1>5. Len(queue) \in Nat /\ DOMAIN queue = 1..Len(queue)
    BY <1>4
  <1>6. work \subseteq InHand /\ \A k \in DOMAIN queue : queue[k] \in InHand
    BY DEF InHand, ToSet
  <1>7. \A b \in InHand : b \in BatchType
    BY <1>4 DEF InHand, ToSet
  <1>8. \A b \in InHand : b.at \in 1..Len(log)
    BY <1>1, <1>3, <1>7 DEF StreamHabits, BatchType
  <1>9. \A i : Times(i) \in Nat
    BY <1>1 DEF ConsumerTypes, Times
  <1>10. \A i : Copies(queue, i) \in Nat
    <2>1. PICK b : b \in BatchType
      <3>1. [at |-> 1, last |-> 1, step |-> "handle"] \in BatchType
        BY DEF BatchType
      <3> QED
        BY <3>1
    <2> QED
      BY <1>4, <2>1, CopiesAdded
  <1>11. OneByOne
    BY <1>1 DEF StreamHabits, OneByOne
  <1>12. \A i : AtWork(i) \in {0, 1} /\ Again(i) \in {0, 1, 2}
    BY DEF AtWork, Again
  <1> QED
    BY <1>1, <1>2, <1>3, <1>4, <1>5, <1>6, <1>7, <1>8, <1>9, <1>10, <1>11, <1>12

\* Nothing but the hands of the client changes: what was handled in order was.
LEMMA StillInOrder ==
    ASSUME StreamInv, setting' = setting, log' = log, handled' = handled, skipped \subseteq skipped'
    PROVE  HandledInOrder' /\ Kind' = Kind /\ \A i : Times(i)' = Times(i) /\ (Done(i) => Done(i)')
  <1>1. \A i : Times(i)' = Times(i) /\ Times(i) \in Nat
    BY StreamFacts DEF Times
  <1>2. \A i : Done(i) => Done(i)'
    BY <1>1 DEF Done, Wanted, Readable, Kind
  <1>3. OneByOne /\ HandledInOrder
    BY StreamFacts DEF StreamInv
  <1>4. \A j \in DOMAIN handled : \A i \in 1..(j - 1) : Done(i)
    BY <1>3 DEF HandledInOrder, Done
  <1>5. HandledInOrder'
    BY <1>2, <1>4 DEF HandledInOrder, Done
  <1> QED
    BY <1>1, <1>2, <1>5 DEF Kind

--------------------------------------------------------------------------------
(* The stream client: its steps *)

\* The client fetches from where the group is, and what its buffer held is there.
LEMMA StreamRejoinInv ==
    ASSUME StreamInv, Rejoin, mode' = "running", rebalance' = "none",
           \A i : Again(i) > 0,
           UNCHANGED <<kafkaVars, queue, work, pending, handled>>
    PROVE  StreamInv'
  <1>1. UNCHANGED <<setting, log, committed, faults, queue, work, pending, handled>>
    BY DEF kafkaVars
  <1>2. /\ next' \in Nat \ {0} /\ next' <= Len(log) + 1
        /\ skipped \subseteq skipped' /\ skipped' \subseteq DOMAIN log
        /\ committed = Nothing => \A i \in 1..(next' - 1) :
               i \in skipped' \/ Times(i) > 0 \/ \E b \in InHand : b.at = i
        /\ committed # Nothing => next' = committed + 1
    BY RejoinFacts, StreamFacts
  <1>3. /\ HandledInOrder' /\ Kind' = Kind
        /\ \A i : Times(i)' = Times(i) /\ (Done(i) => Done(i)')
    BY <1>1, <1>2, StillInOrder
  <1>4. InHand' = InHand /\ \A i : Readable(i)' <=> Readable(i)
    BY <1>1 DEF InHand, Readable, Kind
  <1>5. KafkaTypeOK' /\ ConsumerTypes'
    BY <1>1, <1>2, StreamFacts DEF KafkaTypeOK, ConsumerTypes, HandsType
  <1>6. StreamHabits'
    BY <1>1, <1>3, <1>4, StreamFacts DEF StreamHabits
  <1>7. StreamOrder'
    <2>1. \A i \in 1..Len(log) : i <= committed => Done(i)'
      BY <1>3, StreamFacts DEF StreamOrder
    <2>2. \A w \in work : \A i \in 1..(w.at - 1) : Done(i)'
      BY <1>3, StreamFacts DEF StreamOrder
    <2>3. \A k \in DOMAIN queue : \A i \in 1..(queue[k].at - 1) :
              Done(i)' \/ (\E w \in work : w.at = i) \/ \E l \in 1..(k - 1) : queue[l].at = i
      BY <1>3, StreamFacts DEF StreamOrder
    <2>4. \A i \in 1..(next' - 1) : Done(i)' \/ \E b \in InHand : b.at = i
      <3>1. CASE committed = Nothing
        BY <1>2, <1>3, <3>1 DEF Done
      <3>2. CASE committed # Nothing
        <4> SUFFICES ASSUME NEW i \in 1..(next' - 1)
                     PROVE  Done(i)'
          OBVIOUS
        <4>1. next' - 1 = committed /\ committed \in Int /\ committed <= Len(log) /\ Len(log) \in Nat
          BY <1>2, <3>2, StreamFacts
        <4>2. i \in 1..committed
          BY <4>1
        <4>3. i \in 1..Len(log) /\ i <= committed
          BY <4>1, <4>2
        <4> QED
          BY <2>1, <4>3
      <3> QED
        BY <3>1, <3>2
    <2> QED
      BY <1>1, <1>4, <2>1, <2>2, <2>3, <2>4 DEF StreamOrder
  <1>8. StreamRepeats'
    <2> SUFFICES ASSUME NEW i \in 1..Len(log)
                 PROVE  Times(i)' + Copies(queue', i) + AtWork(i)' + Again(i)' <= Paid' + 1
      BY <1>1 DEF StreamRepeats
    <2>1. Times(i)' = Times(i) /\ Copies(queue', i) = Copies(queue, i) /\ Paid' = Paid
      BY <1>1, <1>3, PaidFacts, StreamFacts
    <2>2. AtWork(i)' = AtWork(i)
      BY <1>1 DEF AtWork
    <2>3. Again(i)' \in {0, 1} /\ Again(i) \in {1, 2}
      <3>1. Again(i)' \in {0, 1}
        BY DEF Again
      <3>2. Again(i) \in {0, 1, 2} /\ Again(i) > 0
        BY StreamFacts
      <3> QED
        BY <3>1, <3>2
    <2>4. Times(i) + Copies(queue, i) + AtWork(i) + Again(i) <= Paid + 1
      BY StreamFacts DEF StreamRepeats
    <2>5. Times(i) \in Nat /\ Copies(queue, i) \in Nat /\ AtWork(i) \in {0, 1} /\ Paid \in Nat
      BY StreamFacts
    <2> QED
      BY <2>1, <2>2, <2>3, <2>4, <2>5
  <1> QED
    BY <1>3, <1>5, <1>6, <1>7, <1>8 DEF StreamInv

LEMMA StreamPrefetchInv ==
    ASSUME StreamInv, StreamPrefetch
    PROVE  StreamInv'
  <1> DEFINE b == Begin(next)
  <1>1. /\ mode = "running" /\ next <= Len(log) /\ next' = next + 1 /\ queue' = Append(queue, b)
        /\ UNCHANGED <<setting, log, committed, faults, mode, work, pending, rebalance, handled,
                       skipped>>
    BY DEF StreamPrefetch, Fetched, kafkaVars
  <1>2. b \in BatchType /\ b.at = next /\ b.last = next /\ (b.step = "commit" => ~Readable(next))
    BY StreamFacts, BeginFacts
  <1> HIDE DEF b
  <1>3. /\ queue' \in Seq(BatchType) /\ ToSet(queue') = ToSet(queue) \union {b}
        /\ DOMAIN queue' = DOMAIN queue \union {Len(queue) + 1}
        /\ \A k \in DOMAIN queue : k \in 1..Len(queue) /\ queue'[k] = queue[k]
        /\ queue'[Len(queue) + 1] = b
    BY <1>1, <1>2, AppendSet, StreamFacts
  <1>4. InHand' = InHand \union {b}
    BY <1>1, <1>3 DEF InHand
  <1>5. /\ HandledInOrder' /\ Kind' = Kind
        /\ \A i : Times(i)' = Times(i) /\ (Done(i) => Done(i)') /\ (Readable(i)' <=> Readable(i))
    BY <1>1, StillInOrder DEF Readable, Kind
  <1>6. KafkaTypeOK' /\ ConsumerTypes'
    BY <1>1, <1>3, StreamFacts DEF KafkaTypeOK, ConsumerTypes, HandsType
  <1>7. StreamHabits'
    <2>1. Paid' = Paid
      BY <1>1, PaidFacts, StreamFacts
    <2> QED
      BY <1>1, <1>2, <1>4, <1>5, <2>1, StreamFacts DEF StreamHabits
  <1>8. \A i \in 1..(next - 1) : Done(i) \/ \E c \in InHand : c.at = i
    BY <1>1, StreamFacts DEF StreamOrder
  <1>9. StreamOrder'
    <2>1. \A i \in 1..Len(log) : i <= committed => Done(i)'
      BY <1>5, StreamFacts DEF StreamOrder
    <2>2. \A w \in work : \A i \in 1..(w.at - 1) : Done(i)'
      BY <1>5, StreamFacts DEF StreamOrder
    <2>3. ASSUME NEW k \in DOMAIN queue', NEW i \in 1..(queue'[k].at - 1)
          PROVE  Done(i)' \/ (\E w \in work : w.at = i) \/ \E l \in 1..(k - 1) : queue'[l].at = i
      <3>1. CASE k \in DOMAIN queue
        <4>1. queue'[k] = queue[k] /\ k \in 1..Len(queue) /\ Len(queue) \in Nat
          BY <1>3, <3>1, StreamFacts
        <4>2. ASSUME NEW l \in 1..(k - 1) PROVE queue'[l] = queue[l]
          <5>1. l \in 1..Len(queue)
            BY <4>1
          <5>2. l \in DOMAIN queue
            BY <5>1, StreamFacts
          <5> QED
            BY <1>3, <5>2
        <4>3. Done(i) \/ (\E w \in work : w.at = i) \/ \E l \in 1..(k - 1) : queue[l].at = i
          BY <3>1, <4>1, StreamFacts DEF StreamOrder
        <4> QED
          BY <1>5, <4>2, <4>3
      <3>2. CASE k = Len(queue) + 1
        <4>1. Done(i) \/ \E c \in InHand : c.at = i
          BY <1>2, <1>3, <1>8, <3>2
        <4>2. CASE \E c \in InHand : c.at = i
          <5>1. PICK c \in InHand : c.at = i
            BY <4>2
          <5>2. CASE c \in work
            BY <5>1, <5>2
          <5>3. CASE c \in ToSet(queue)
            <6>1. PICK l \in DOMAIN queue : queue[l] = c
              BY <5>3 DEF ToSet
            <6>2. l \in 1..(k - 1) /\ queue'[l] = queue[l]
              BY <1>3, <3>2, <6>1, StreamFacts
            <6> QED
              BY <5>1, <6>1, <6>2
          <5> QED
            BY <5>1, <5>2, <5>3 DEF InHand
        <4> QED
          BY <1>5, <4>1, <4>2
      <3> QED
        BY <1>3, <3>1, <3>2
    <2>4. ASSUME NEW i \in 1..(next' - 1)
          PROVE  Done(i)' \/ \E c \in InHand' : c.at = i
      <3>1. i \in 1..(next - 1) \/ i = next
        BY <1>1, StreamFacts
      <3> QED
        BY <1>2, <1>4, <1>5, <1>8, <3>1
    <2> QED
      BY <1>1, <2>1, <2>2, <2>3, <2>4 DEF StreamOrder
  <1>10. StreamRepeats'
    <2> SUFFICES ASSUME NEW i \in 1..Len(log)
                 PROVE  Times(i)' + Copies(queue', i) + AtWork(i)' + Again(i)' <= Paid' + 1
      BY <1>1 DEF StreamRepeats
    <2>1. Times(i)' = Times(i) /\ Paid' = Paid /\ AtWork(i)' = AtWork(i)
      BY <1>1, <1>5, PaidFacts, StreamFacts DEF AtWork
    <2>2. Copies(queue', i) = Copies(queue, i) + (IF next = i THEN 1 ELSE 0)
      BY <1>1, <1>2, CopiesAdded, StreamFacts
    <2>3. Again(i)' + (IF next = i THEN 1 ELSE 0) = Again(i)
      BY <1>1, StreamFacts DEF Again
    <2>4. Times(i) + Copies(queue, i) + AtWork(i) + Again(i) <= Paid + 1
      BY StreamFacts DEF StreamRepeats
    <2>5. /\ Times(i) \in Nat /\ Copies(queue, i) \in Nat /\ AtWork(i) \in {0, 1} /\ Paid \in Nat
          /\ Again(i) \in {0, 1, 2} /\ Again(i)' \in {0, 1, 2}
      <3>1. Again(i)' \in {0, 1, 2}
        BY DEF Again
      <3> QED
        BY <3>1, StreamFacts
    <2> QED
      BY <2>1, <2>2, <2>3, <2>4, <2>5
  <1> QED
    BY <1>5, <1>6, <1>7, <1>9, <1>10 DEF StreamInv

LEMMA StreamOnMessageInv ==
    ASSUME StreamInv, StreamOnMessage
    PROVE  StreamInv'
  <1> DEFINE h == Head(queue)
  <1>1. /\ queue # <<>> /\ work = {} /\ queue' = Tail(queue)
        /\ work' = IF Readable(h.at) THEN {h} ELSE {}
        /\ UNCHANGED <<setting, log, committed, faults, mode, next, pending, rebalance, handled,
                       skipped>>
    BY DEF StreamOnMessage, kafkaVars
  <1>2. /\ queue' \in Seq(BatchType) /\ h = queue[1] /\ 1 \in DOMAIN queue
        /\ ToSet(queue) = {h} \union ToSet(queue')
        /\ \A k \in DOMAIN queue : k \in Nat /\ k >= 1
        /\ \A k \in DOMAIN queue' : k + 1 \in DOMAIN queue /\ queue'[k] = queue[k + 1]
    BY <1>1, TailSet, StreamFacts
  <1>3. h \in InHand /\ h \in BatchType
    BY <1>2, StreamFacts
  <1> HIDE DEF h
  <1>4. InHand' \subseteq InHand /\ (Readable(h.at) => InHand' = InHand)
        /\ InHand \subseteq InHand' \union {h}
    BY <1>1, <1>2 DEF InHand
  <1>5. /\ HandledInOrder' /\ Kind' = Kind
        /\ \A i : Times(i)' = Times(i) /\ (Done(i) => Done(i)') /\ (Readable(i)' <=> Readable(i))
    BY <1>1, StillInOrder DEF Readable, Kind
  <1>6. KafkaTypeOK' /\ ConsumerTypes'
    <2>1. work' \subseteq BatchType
      BY <1>1, <1>3
    <2> QED
      BY <1>1, <1>2, <2>1, StreamFacts DEF KafkaTypeOK, ConsumerTypes, HandsType
  <1>7. StreamHabits'
    <2>1. Paid' = Paid /\ mode # "down"
      BY <1>1, PaidFacts, StreamFacts DEF StreamHabits
    <2> QED
      BY <1>1, <1>4, <1>5, <2>1, StreamFacts DEF StreamHabits
  <1>8. \A i \in 1..(h.at - 1) : Done(i)
    <2>1. \A k \in DOMAIN queue : \A i \in 1..(queue[k].at - 1) :
              Done(i) \/ (\E w \in work : w.at = i) \/ \E l \in 1..(k - 1) : queue[l].at = i
      BY StreamFacts DEF StreamOrder
    <2>2. \A l \in 1..(1 - 1) : FALSE
      OBVIOUS
    <2> QED
      BY <1>1, <1>2, <2>1, <2>2
  <1>9. Readable(h.at) \/ Done(h.at)
    BY DEF Done, Wanted
  <1>10. StreamOrder'
    <2>1. \A i \in 1..Len(log) : i <= committed => Done(i)'
      BY <1>5, StreamFacts DEF StreamOrder
    <2>2. \A w \in work' : \A i \in 1..(w.at - 1) : Done(i)'
      BY <1>1, <1>5, <1>8
    <2>3. ASSUME NEW k \in DOMAIN queue', NEW i \in 1..(queue'[k].at - 1)
          PROVE  Done(i)' \/ (\E w \in work' : w.at = i) \/ \E l \in 1..(k - 1) : queue'[l].at = i
      <3>1. k + 1 \in DOMAIN queue /\ queue'[k] = queue[k + 1] /\ k \in Nat
        BY <1>2
      <3>2. Done(i) \/ (\E w \in work : w.at = i) \/ \E l \in 1..((k + 1) - 1) : queue[l].at = i
        BY <3>1, StreamFacts DEF StreamOrder
      <3>3. CASE \E l \in 1..((k + 1) - 1) : queue[l].at = i
        <4>1. PICK l \in 1..k : queue[l].at = i
          BY <3>1, <3>3
        <4>2. CASE l = 1
          BY <1>1, <1>2, <1>5, <1>9, <4>1, <4>2
        <4>3. CASE l # 1
          <5>1. l - 1 \in 1..(k - 1) /\ (l - 1) + 1 = l
            BY <3>1, <4>3
          <5>2. l - 1 \in DOMAIN queue'
            <6>1. DOMAIN queue' = 1..Len(queue') /\ Len(queue') \in Nat
              BY <1>2
            <6> QED
              BY <3>1, <5>1, <6>1
          <5>3. queue'[l - 1] = queue[l]
            BY <1>2, <5>1, <5>2
          <5> QED
            BY <4>1, <5>1, <5>3
        <4> QED
          BY <4>2, <4>3
      <3> QED
        BY <1>1, <1>5, <3>2, <3>3
    <2>4. ASSUME mode # "down", NEW i \in 1..(next - 1)
          PROVE  Done(i)' \/ \E b \in InHand' : b.at = i
      <3>1. Done(i) \/ \E b \in InHand : b.at = i
        BY <2>4, StreamFacts DEF StreamOrder
      <3>2. CASE \E b \in InHand : b.at = i
        <4>1. PICK b \in InHand : b.at = i
          BY <3>2
        <4>2. b \in InHand' \/ Done(i)
          BY <1>4, <1>9, <4>1
        <4> QED
          BY <1>5, <4>1, <4>2
      <3> QED
        BY <1>5, <3>1, <3>2
    <2> QED
      BY <1>1, <2>1, <2>2, <2>3, <2>4 DEF StreamOrder
  <1>11. StreamRepeats'
    <2> SUFFICES ASSUME NEW i \in 1..Len(log)
                 PROVE  Times(i)' + Copies(queue', i) + AtWork(i)' + Again(i)' <= Paid' + 1
      BY <1>1 DEF StreamRepeats
    <2>1. Times(i)' = Times(i) /\ Paid' = Paid /\ Again(i)' = Again(i)
      BY <1>1, <1>5, PaidFacts, StreamFacts DEF Again
    <2>2. Copies(queue, i) = Copies(queue', i) + (IF h.at = i THEN 1 ELSE 0)
          /\ Copies(queue', i) \in Nat
      BY <1>1, CopiesTaken, StreamFacts DEF h
    <2>3. AtWork(i) = 0 /\ AtWork(i)' \in {0, 1} /\ (AtWork(i)' = 1 => h.at = i)
      BY <1>1 DEF AtWork
    <2>4. Times(i) + Copies(queue, i) + AtWork(i) + Again(i) <= Paid + 1
      BY StreamFacts DEF StreamRepeats
    <2>5. Times(i) \in Nat /\ Paid \in Nat /\ Again(i) \in {0, 1, 2}
      BY StreamFacts
    <2> QED
      BY <2>1, <2>2, <2>3, <2>4, <2>5
  <1> QED
    BY <1>5, <1>6, <1>7, <1>10, <1>11 DEF StreamInv

\* The one message at work is committed, or left without.
LEMMA StreamCommitInv ==
    ASSUME StreamInv, NEW w \in work, w.step = "commit", work' = {},
           committed' \in {committed, w.at},
           faults' = faults \/ \E kind : Failure(kind),
           UNCHANGED <<setting, log, mode, next, queue, pending, rebalance, handled, skipped>>
    PROVE  StreamInv'
  <1>1. /\ w \in InHand /\ w \in BatchType /\ w.at \in 1..Len(log) /\ mode # "down"
        /\ \A v \in work : v = w
    BY StreamFacts DEF StreamHabits
  <1>2. InHand' \subseteq InHand /\ InHand \subseteq InHand' \union {w}
    BY <1>1 DEF InHand
  <1>3. /\ HandledInOrder' /\ Kind' = Kind
        /\ \A i : Times(i)' = Times(i) /\ (Done(i) => Done(i)') /\ (Readable(i)' <=> Readable(i))
    BY StillInOrder DEF Readable, Kind
  <1>4. /\ faults'.count \in 0..setting.faults /\ faults'.kinds \subseteq FaultKinds
        /\ Paid \in Nat /\ Paid' \in Nat /\ Paid <= Paid'
    <2>1. CASE faults' = faults
      BY <2>1, PaidFacts, StreamFacts DEF KafkaTypeOK
    <2>2. CASE \E kind : Failure(kind)
      BY <2>2, FailureFacts, StreamFacts
    <2> QED
      BY <2>1, <2>2
  <1>5. KafkaTypeOK' /\ ConsumerTypes'
    <2>1. committed' \in {Nothing} \union 0..Len(log)
      BY <1>1, StreamFacts DEF KafkaTypeOK
    <2> QED
      BY <1>4, <2>1, StreamFacts DEF KafkaTypeOK, ConsumerTypes, HandsType
  <1>6. StreamHabits'
    <2>1. rebalance # "none" => Paid' > 0
      BY <1>4, StreamFacts DEF StreamHabits
    <2> QED
      BY <1>1, <1>2, <1>3, <2>1, StreamFacts DEF StreamHabits
  <1>7. Done(w.at)
    BY <1>1, StreamFacts DEF StreamHabits, Done, Wanted
  <1>8. \A i \in 1..(w.at - 1) : Done(i)
    BY StreamFacts DEF StreamOrder
  <1>9. StreamOrder'
    <2>1. ASSUME NEW i \in 1..Len(log), i <= committed' PROVE Done(i)'
      <3>1. CASE i <= committed
        BY <1>3, <3>1, StreamFacts DEF StreamOrder
      <3>2. CASE i <= w.at
        <4>1. i = w.at \/ i \in 1..(w.at - 1)
          BY <1>1, <3>2, StreamFacts
        <4> QED
          BY <1>3, <1>7, <1>8, <4>1
      <3> QED
        BY <2>1, <3>1, <3>2
    <2>2. ASSUME NEW k \in DOMAIN queue, NEW i \in 1..(queue[k].at - 1)
          PROVE  Done(i)' \/ \E l \in 1..(k - 1) : queue[l].at = i
      <3>1. Done(i) \/ (\E v \in work : v.at = i) \/ \E l \in 1..(k - 1) : queue[l].at = i
        BY StreamFacts DEF StreamOrder
      <3>2. (\E v \in work : v.at = i) => Done(i)
        BY <1>1, <1>7
      <3> QED
        BY <1>3, <3>1, <3>2
    <2>3. mode # "down" => \A i \in 1..(next - 1) : Done(i)' \/ \E b \in InHand' : b.at = i
      <3> SUFFICES ASSUME mode # "down", NEW i \in 1..(next - 1)
                   PROVE  Done(i)' \/ \E b \in InHand' : b.at = i
        OBVIOUS
      <3>1. Done(i) \/ \E b \in InHand : b.at = i
        BY StreamFacts DEF StreamOrder
      <3> QED
        BY <1>2, <1>3, <1>7, <3>1
    <2> QED
      BY <2>1, <2>2, <2>3 DEF StreamOrder
  <1>10. StreamRepeats'
    <2> SUFFICES ASSUME NEW i \in 1..Len(log)
                 PROVE  Times(i)' + Copies(queue', i) + AtWork(i)' + Again(i)' <= Paid' + 1
      BY DEF StreamRepeats
    <2>1. /\ Times(i)' = Times(i) /\ Again(i)' = Again(i) /\ AtWork(i)' = 0
          /\ Copies(queue', i) = Copies(queue, i)
      BY <1>3 DEF Again, AtWork
    <2>2. Times(i) + Copies(queue, i) + AtWork(i) + Again(i) <= Paid + 1
      BY StreamFacts DEF StreamRepeats
    <2>3. /\ Times(i) \in Nat /\ Copies(queue, i) \in Nat /\ AtWork(i) \in {0, 1}
          /\ Again(i) \in {0, 1, 2}
      BY StreamFacts
    <2> QED
      BY <1>4, <2>1, <2>2, <2>3
  <1> QED
    BY <1>3, <1>5, <1>6, <1>9, <1>10 DEF StreamInv

\* The client joins again, is destroyed, or its process ends: messages are lost
\* from its hands, if any, and none is gained.
LEMMA StreamLeftInv ==
    ASSUME StreamInv, UNCHANGED <<setting, log, committed, next, pending, handled, skipped>>,
           \/ queue' = queue /\ work' = work /\ mode # "down" /\ mode' \in {"running", "closed"}
           \/ queue' = <<>> /\ work' = {} /\ mode' = "down",
           rebalance' \in {"none", "waiting", "joining"},
           rebalance' # "none" => mode' = "running" /\ Paid' > 0,
           faults'.count \in 0..setting.faults, faults'.kinds \subseteq FaultKinds,
           Paid' \in Nat, \A i : Again(i)' + Paid <= Again(i) + Paid'
    PROVE  StreamInv'
  <1>1. /\ HandledInOrder' /\ Kind' = Kind
        /\ \A i : Times(i)' = Times(i) /\ (Done(i) => Done(i)') /\ (Readable(i)' <=> Readable(i))
    BY StillInOrder DEF Readable, Kind
  <1>2. KafkaTypeOK' /\ ConsumerTypes'
    <2>1. KafkaTypeOK'
      BY StreamFacts DEF KafkaTypeOK
    <2>2. queue' \in Seq(BatchType) /\ work' \subseteq BatchType
      <3>1. queue \in Seq(BatchType) /\ work \subseteq BatchType /\ <<>> \in Seq(BatchType)
        BY StreamFacts DEF ConsumerTypes, HandsType
      <3>2. (queue' = queue /\ work' = work) \/ (queue' = <<>> /\ work' = {})
        OBVIOUS
      <3> QED
        BY <3>1, <3>2
    <2>3. HandsType' /\ mode' \in {"down", "running", "closed", "dead"}
      BY <2>2, StreamFacts DEF ConsumerTypes, HandsType
    <2> QED
      BY <2>1, <2>3, StreamFacts DEF ConsumerTypes
  <1>3. InHand' \subseteq InHand
    BY DEF InHand, ToSet
  <1>4. StreamHabits'
    BY <1>1, <1>3, StreamFacts DEF StreamHabits
  <1>5. StreamOrder'
    <2>1. \A i \in 1..Len(log) : i <= committed => Done(i)'
      BY <1>1, StreamFacts DEF StreamOrder
    <2>2. CASE queue' = queue /\ work' = work /\ mode # "down"
      <3>1. InHand' = InHand
        BY <2>2 DEF InHand
      <3>2. \A w \in work : \A i \in 1..(w.at - 1) : Done(i)'
        BY <1>1, StreamFacts DEF StreamOrder
      <3>3. ASSUME NEW k \in DOMAIN queue, NEW i \in 1..(queue[k].at - 1)
            PROVE  Done(i)' \/ (\E w \in work : w.at = i) \/ \E l \in 1..(k - 1) : queue[l].at = i
        <4>1. Done(i) \/ (\E w \in work : w.at = i) \/ \E l \in 1..(k - 1) : queue[l].at = i
          BY StreamFacts DEF StreamOrder
        <4> QED
          BY <1>1, <4>1
      <3>4. ASSUME NEW i \in 1..(next - 1)
            PROVE  Done(i)' \/ \E b \in InHand : b.at = i
        <4>1. Done(i) \/ \E b \in InHand : b.at = i
          BY <2>2, StreamFacts DEF StreamOrder
        <4> QED
          BY <1>1, <4>1
      <3> QED
        BY <2>1, <2>2, <3>1, <3>2, <3>3, <3>4 DEF StreamOrder
    <2>3. CASE queue' = <<>> /\ work' = {} /\ mode' = "down"
      BY <2>1, <2>3 DEF StreamOrder
    <2> QED
      BY <2>2, <2>3
  <1>6. StreamRepeats'
    <2> SUFFICES ASSUME NEW i \in 1..Len(log)
                 PROVE  Times(i)' + Copies(queue', i) + AtWork(i)' + Again(i)' <= Paid' + 1
      BY DEF StreamRepeats
    <2>1. /\ Times(i) \in Nat /\ Copies(queue, i) \in Nat /\ AtWork(i) \in {0, 1} /\ Paid \in Nat
          /\ Again(i) \in {0, 1, 2} /\ Again(i)' \in {0, 1, 2}
      <3>1. Again(i)' \in {0, 1, 2}
        BY DEF Again
      <3> QED
        BY <3>1, StreamFacts
    <2>2. Copies(queue', i) \in Nat /\ Copies(queue', i) <= Copies(queue, i)
      <3>1. Copies(<<>>, i) = 0
        <4>1. PICK b : b \in BatchType
          <5>1. [at |-> 1, last |-> 1, step |-> "handle"] \in BatchType
            BY DEF BatchType
          <5> QED
            BY <5>1
        <4> QED
          BY <4>1, CopiesAdded, StreamFacts
      <3> QED
        BY <2>1, <3>1
    <2>3. AtWork(i)' \in {0, 1} /\ AtWork(i)' <= AtWork(i)
      BY DEF AtWork
    <2>4. Times(i) + Copies(queue, i) + AtWork(i) + Again(i) <= Paid + 1
      BY StreamFacts DEF StreamRepeats
    <2>5. Times(i)' = Times(i)
      BY <1>1
    <2>6. Again(i)' + Paid <= Again(i) + Paid'
      OBVIOUS
    <2>7. \A t, c, d, a, e, g, f, p, r \in Nat :
              t + c + a + g <= p + 1 /\ d <= c /\ e <= a /\ f + p <= g + r => t + d + e + f <= r + 1
      OBVIOUS
    <2>8. AtWork(i)' \in Nat /\ AtWork(i) \in Nat /\ Again(i) \in Nat /\ Again(i)' \in Nat
      BY <2>1, <2>3
    <2> QED
      BY <2>1, <2>2, <2>3, <2>4, <2>5, <2>6, <2>7, <2>8
  <1> QED
    BY <1>1, <1>2, <1>4, <1>5, <1>6 DEF StreamInv

LEMMA StreamHandleInv ==
    ASSUME StreamInv, NEW w \in work, Handle(w)
    PROVE  StreamInv'
  <1> DEFINE v == [w EXCEPT !.step = "commit"]
  <1>1. /\ w.step = "handle" /\ handled' = HandledTimes(w.at)
        /\ work' = (work \ {w}) \union {v}
        /\ UNCHANGED <<setting, log, committed, faults, mode, next, queue, pending, rebalance,
                       skipped>>
    BY DEF Handle, kafkaVars
  <1>2. /\ w \in InHand /\ w \in BatchType /\ w.at \in DOMAIN log /\ mode # "down"
        /\ \A u \in work : u = w
    BY StreamFacts DEF StreamHabits
  <1>3. v \in BatchType /\ v.at = w.at /\ v.last = w.last /\ v.step = "commit"
    BY <1>2 DEF BatchType
  <1> HIDE DEF v
  <1>4. work' = {v} /\ InHand' \subseteq InHand \union {v}
    BY <1>1, <1>2 DEF InHand
  <1>5. /\ DOMAIN handled' = DOMAIN handled \union {w.at}
        /\ handled' = [k \in DOMAIN handled' |-> handled'[k]]
        /\ \A k \in DOMAIN handled' : handled'[k] \in Nat
        /\ \A k : Times(k) \in Nat /\ Times(k)' = Times(k) + (IF k = w.at THEN 1 ELSE 0)
    BY <1>1, <1>2, HandledOnce, StreamFacts
  <1>6. /\ Kind' = Kind
        /\ \A i : (Done(i) => Done(i)') /\ (Readable(i)' <=> Readable(i))
    BY <1>1, <1>5 DEF Done, Wanted, Readable, Kind
  <1>7. KafkaTypeOK' /\ ConsumerTypes'
    <2>1. /\ queue \in Seq(BatchType) /\ next \in Nat \ {0} /\ next <= Len(log) + 1
          /\ DOMAIN handled \subseteq DOMAIN log
      BY StreamFacts DEF ConsumerTypes
    <2>2. HandsType'
      BY <1>1, <1>3, <1>4, <2>1 DEF HandsType
    <2>3. DOMAIN handled' \subseteq DOMAIN log
      BY <1>2, <1>5, <2>1
    <2> QED
      BY <1>1, <1>5, <2>2, <2>3, StreamFacts DEF KafkaTypeOK, ConsumerTypes
  <1>8. StreamHabits'
    <2>1. Paid' = Paid
      BY <1>1, PaidFacts, StreamFacts
    <2>2. \A b \in InHand' : b.at = b.last /\ b.at <= Len(log)
      BY <1>2, <1>3, <1>4, StreamFacts DEF StreamHabits
    <2>3. \A b \in InHand' : b.step = "commit" /\ Readable(b.at)' => Times(b.at)' > 0
      <3> SUFFICES ASSUME NEW b \in InHand', b.step = "commit", Readable(b.at)
                   PROVE  Times(b.at)' > 0
        BY <1>6
      <3>1. CASE b = v
        BY <1>3, <1>5, <3>1
      <3>2. CASE b \in InHand
        <4>1. Times(b.at) > 0
          BY <3>2, StreamFacts DEF StreamHabits
        <4> QED
          BY <1>5, <4>1
      <3> QED
        BY <1>4, <3>1, <3>2
    <2> QED
      BY <1>1, <1>2, <1>4, <1>6, <2>1, <2>2, <2>3, StreamFacts DEF StreamHabits
  <1>9. \A i \in 1..(w.at - 1) : Done(i)
    BY StreamFacts DEF StreamOrder
  <1>10. StreamOrder'
    <2>1. \A i \in 1..Len(log) : i <= committed => Done(i)'
      BY <1>6, StreamFacts DEF StreamOrder
    <2>2. \A k \in DOMAIN queue : \A i \in 1..(queue[k].at - 1) :
              Done(i)' \/ (\E u \in work' : u.at = i) \/ \E l \in 1..(k - 1) : queue[l].at = i
      <3> SUFFICES ASSUME NEW k \in DOMAIN queue, NEW i \in 1..(queue[k].at - 1)
                   PROVE  Done(i)' \/ (\E u \in work' : u.at = i) \/ \E l \in 1..(k - 1) : queue[l].at = i
        OBVIOUS
      <3>1. Done(i) \/ (\E u \in work : u.at = i) \/ \E l \in 1..(k - 1) : queue[l].at = i
        BY StreamFacts DEF StreamOrder
      <3>2. (\E u \in work : u.at = i) => \E u \in work' : u.at = i
        BY <1>2, <1>3, <1>4
      <3> QED
        BY <1>6, <3>1, <3>2
    <2>3. mode # "down" => \A i \in 1..(next - 1) : Done(i)' \/ \E b \in InHand' : b.at = i
      <3> SUFFICES ASSUME mode # "down", NEW i \in 1..(next - 1)
                   PROVE  Done(i)' \/ \E b \in InHand' : b.at = i
        OBVIOUS
      <3>1. Done(i) \/ \E b \in InHand : b.at = i
        BY StreamFacts DEF StreamOrder
      <3>2. ASSUME NEW b \in InHand, b.at = i PROVE \E c \in InHand' : c.at = i
        <4>1. b \in ToSet(queue) \/ b = w
          BY <1>2 DEF InHand
        <4>2. v \in InHand' /\ ToSet(queue) \subseteq InHand'
          BY <1>1, <1>4 DEF InHand
        <4> QED
          BY <1>3, <3>2, <4>1, <4>2
      <3> QED
        BY <1>6, <3>1, <3>2
    <2>4. \A u \in work' : \A i \in 1..(u.at - 1) : Done(i)'
      BY <1>3, <1>4, <1>6, <1>9
    <2> QED
      BY <1>1, <2>1, <2>2, <2>3, <2>4 DEF StreamOrder
  <1>11. HandledInOrder'
    <2> SUFFICES ASSUME NEW j \in DOMAIN handled', NEW i \in 1..(j - 1)
                 PROVE  Done(i)'
      BY DEF HandledInOrder, Done
    <2>1. CASE j = w.at
      BY <1>6, <1>9, <2>1
    <2>2. CASE j \in DOMAIN handled
      <3>1. OneByOne /\ HandledInOrder
        BY StreamFacts DEF StreamInv
      <3> QED
        BY <1>6, <2>2, <3>1 DEF HandledInOrder, Done
    <2> QED
      BY <1>5, <2>1, <2>2
  <1>12. StreamRepeats'
    <2> SUFFICES ASSUME NEW i \in 1..Len(log)
                 PROVE  Times(i)' + Copies(queue', i) + AtWork(i)' + Again(i)' <= Paid' + 1
      BY <1>1 DEF StreamRepeats
    <2>1. /\ Copies(queue', i) = Copies(queue, i) /\ Paid' = Paid /\ Again(i)' = Again(i)
          /\ Times(i)' = Times(i) + (IF i = w.at THEN 1 ELSE 0)
      BY <1>1, <1>5, PaidFacts, StreamFacts DEF Again
    <2>2. AtWork(i)' = 0 /\ AtWork(i) = IF i = w.at THEN 1 ELSE 0
      BY <1>1, <1>2, <1>3, <1>4 DEF AtWork
    <2>3. Times(i) + Copies(queue, i) + AtWork(i) + Again(i) <= Paid + 1
      BY StreamFacts DEF StreamRepeats
    <2>4. /\ Times(i) \in Nat /\ Copies(queue, i) \in Nat /\ Paid \in Nat
          /\ Again(i) \in {0, 1, 2}
      BY StreamFacts
    <2> QED
      BY <2>1, <2>2, <2>3, <2>4
  <1> QED
    BY <1>7, <1>8, <1>10, <1>11, <1>12 DEF StreamInv

\* Every step of the stream client.
LEMMA StreamStepsInv ==
    ASSUME StreamInv, Start \/ Consume \/ ConsumerFails
    PROVE  StreamInv'
  <1>1. Kind = "stream" /\ pending = 0
    BY StreamFacts DEF StreamHabits
  <1>2. ASSUME StreamInit PROVE StreamInv'
    <2>1. /\ mode = "down" /\ mode' = "running" /\ Rejoin /\ rebalance = "none"
          /\ UNCHANGED <<kafkaVars, queue, work, pending, rebalance, handled>>
      BY <1>2, StreamFacts DEF StreamInit, Connect, StreamHabits
    <2>2. \A i : Again(i) > 0
      BY <2>1 DEF Again
    <2> QED
      BY <2>1, <2>2, StreamRejoinInv
  <1>3. ASSUME StreamRejoin PROVE StreamInv'
    <2>1. /\ mode = "running" /\ mode' = mode /\ Rejoin /\ rebalance = "joining"
          /\ rebalance' = "none"
          /\ UNCHANGED <<kafkaVars, queue, work, pending, handled>>
      BY <1>3, StreamFacts DEF StreamRejoin, StreamHabits
    <2>2. \A i : Again(i) > 0
      BY <2>1 DEF Again
    <2> QED
      BY <2>1, <2>2, StreamRejoinInv
  <1>4. ASSUME StreamCommit \/ \E w \in work : CommitFails(w) PROVE StreamInv'
    <2>1. PICK w \in work :
              /\ w.step = "commit" /\ work' \in {{}, work \ {w}} /\ committed' \in {committed, w.at}
              /\ faults' = faults \/ Failure("commit")
              /\ UNCHANGED <<setting, log, mode, next, queue, pending, rebalance, handled, skipped>>
      BY <1>4 DEF StreamCommit, CommitFails
    <2>2. work' = {}
      BY <2>1, StreamFacts DEF StreamHabits
    <2> QED
      BY <2>1, <2>2, StreamCommitInv
  <1>5. /\ faults.count \in 0..setting.faults /\ faults.kinds \subseteq FaultKinds
        /\ Paid \in Nat /\ (faults' = faults => Paid' = Paid)
        /\ \A i : Again(i) \in {0, 1, 2}
    BY PaidFacts, StreamFacts DEF KafkaTypeOK
  <1>6. ASSUME StreamOnRebalance PROVE StreamInv'
    <2>1. /\ mode = "running" /\ mode' = mode /\ rebalance = "none" /\ Failure("rebalance")
          /\ rebalance' \in {"joining", "waiting"}
          /\ UNCHANGED <<setting, log, committed, next, queue, work, pending, handled, skipped>>
      BY <1>6 DEF StreamOnRebalance
    <2>2. /\ faults'.count \in 0..setting.faults /\ faults'.kinds \subseteq FaultKinds
          /\ Paid' \in Nat /\ Paid + 1 <= Paid'
      <3>1. "rebalance" \in Refetching
        BY DEF Refetching
      <3> QED
        BY <2>1, <3>1, FailureFacts, StreamFacts
    <2>3. \A i : Again(i)' + Paid <= Again(i) + Paid'
      <3>1. \A i : Again(i)' <= Again(i) + 1 /\ Again(i)' \in {0, 1, 2}
        BY <2>1 DEF Again
      <3> QED
        BY <1>5, <2>2, <3>1
    <2> QED
      BY <1>5, <2>1, <2>2, <2>3, StreamLeftInv
  <1>7. ASSUME StreamRebalanceWaited PROVE StreamInv'
    <2>1. /\ mode = "running" /\ mode' = mode /\ rebalance = "waiting" /\ rebalance' = "joining"
          /\ UNCHANGED <<setting, log, committed, faults, next, queue, work, pending, handled, skipped>>
          /\ Paid > 0
      BY <1>7, StreamFacts DEF StreamRebalanceWaited, StreamHabits, kafkaVars
    <2>2. \A i : Again(i)' + Paid <= Again(i) + Paid'
      <3>1. \A i : Again(i)' = Again(i)
        BY <2>1 DEF Again
      <3> QED
        BY <1>5, <2>1, <3>1
    <2> QED
      BY <1>5, <2>1, <2>2, StreamLeftInv
  <1>8. ASSUME Destroy PROVE StreamInv'
    <2>1. /\ mode = "running" /\ mode' = "closed" /\ rebalance' = "none" /\ Failure("crash")
          /\ UNCHANGED <<setting, log, committed, next, queue, work, pending, handled, skipped>>
      BY <1>1, <1>8 DEF Destroy
    <2>2. /\ faults'.count \in 0..setting.faults /\ faults'.kinds \subseteq FaultKinds
          /\ Paid' \in Nat /\ Paid + 1 <= Paid'
      <3>1. "crash" \in Refetching
        BY DEF Refetching
      <3> QED
        BY <2>1, <3>1, FailureFacts, StreamFacts
    <2>3. \A i : Again(i)' + Paid <= Again(i) + Paid'
      <3>1. \A i : Again(i)' = 1
        BY <2>1 DEF Again
      <3> QED
        BY <1>5, <2>2, <3>1
    <2> QED
      BY <2>1, <2>2, <2>3, StreamLeftInv
  <1>9. ASSUME Exit PROVE StreamInv'
    <2>1. /\ mode # "down" /\ mode' = "down" /\ queue' = <<>> /\ work' = {} /\ pending' = pending
          /\ rebalance' = "none" /\ (IF mode = "running" THEN Failure("crash") ELSE faults' = faults)
          /\ UNCHANGED <<setting, log, committed, next, handled, skipped>>
      BY <1>1, <1>9 DEF Exit
    <2>2. /\ faults'.count \in 0..setting.faults /\ faults'.kinds \subseteq FaultKinds
          /\ Paid' \in Nat /\ Paid <= Paid' /\ (mode = "running" => Paid + 1 <= Paid')
      <3>1. "crash" \in Refetching
        BY DEF Refetching
      <3>2. CASE mode = "running"
        BY <2>1, <3>1, <3>2, FailureFacts, StreamFacts
      <3>3. CASE mode # "running"
        BY <1>5, <2>1, <3>3
      <3> QED
        BY <3>2, <3>3
    <2>3. \A i : Again(i)' + Paid <= Again(i) + Paid'
      <3>1. \A i : Again(i)' = 1 /\ (mode # "running" => Again(i) = 1)
        BY <2>1 DEF Again
      <3> QED
        BY <1>5, <2>2, <3>1
    <2> QED
      BY <2>1, <2>2, <2>3, StreamLeftInv
  <1>10. CASE Start
    <2>1. StreamInit
      BY <1>1, <1>10
         DEF Start, RdkafkaInit, GenericInit, StreamInit, KafkajsInit, CssConnect, Connect
    <2> QED
      BY <1>2, <2>1
  <1>11. CASE Consume
    <2>1. \/ StreamPrefetch \/ StreamOnMessage \/ StreamCommit
          \/ StreamRebalanceWaited \/ StreamRejoin
          \/ \E w \in work : Handle(w)
      BY <1>1, <1>11
         DEF Consume, RdkafkaTake, RdkafkaCommit, CommitArrives, GenericOnMessage, GenericWork,
             GenericCommit, KafkajsEachMessage, KafkajsCommit, CssConsumeSync, CssConsumeAsync,
             CssWork, CssCommit
    <2> QED
      BY <1>3, <1>4, <1>7, <2>1, StreamPrefetchInv, StreamOnMessageInv, StreamHandleInv
  <1>12. CASE ConsumerFails
    <2>1. StreamOnRebalance \/ (\E w \in work : CommitFails(w)) \/ Destroy \/ Exit
      BY <1>1, <1>12
         DEF ConsumerFails, RdkafkaCommitThrows, KafkajsCommitRejects, CssCallbackThrows
    <2> QED
      BY <1>4, <1>6, <1>8, <1>9, <2>1
  <1> QED
    BY <1>10, <1>11, <1>12

LEMMA StreamGrowth ==
    ASSUME StreamInv, NEW messages \in Seq(Message), log' = log \o messages,
           setting' = setting, committed' = committed,
           faults' = faults \/ \E kind : Failure(kind),
           UNCHANGED <<mode, next, queue, work, pending, rebalance, handled, skipped>>
    PROVE  StreamInv'
  <1>1. /\ log' \in Seq(Message) /\ Len(log)' \in Nat /\ Len(log)' >= Len(log)
        /\ DOMAIN log' = 1..Len(log)' /\ \A i \in 1..Len(log) : log'[i] = log[i]
    <2>1. log \in Seq(Message)
      BY StreamFacts DEF KafkaTypeOK
    <2> QED
      BY <2>1
  <1>2. /\ faults'.count \in 0..setting.faults /\ faults'.kinds \subseteq FaultKinds
        /\ Paid \in Nat /\ Paid' \in Nat /\ Paid <= Paid'
    <2>1. CASE faults' = faults
      BY <2>1, PaidFacts, StreamFacts DEF KafkaTypeOK
    <2>2. CASE \E kind : Failure(kind)
      BY <2>2, FailureFacts, StreamFacts
    <2> QED
      BY <2>1, <2>2
  <1>3. /\ \A i : Times(i)' = Times(i) /\ Times(i) \in Nat
        /\ InHand' = InHand /\ Kind' = Kind
    BY StreamFacts DEF Times, InHand, Kind
  <1>4. \A i \in 1..Len(log) : (Done(i) => Done(i)') /\ (Readable(i)' <=> Readable(i))
    BY <1>1, <1>3 DEF Done, Wanted, Readable, Kind
  <1>5. KafkaTypeOK' /\ ConsumerTypes'
    <2>1. KafkaTypeOK'
      BY <1>1, <1>2, StreamFacts DEF KafkaTypeOK
    <2>2. next <= Len(log)' + 1 /\ pending \in 0..Len(log)'
      BY <1>1, StreamFacts DEF ConsumerTypes
    <2>3. DOMAIN handled \subseteq DOMAIN log' /\ skipped \subseteq DOMAIN log'
      BY <1>1, StreamFacts DEF ConsumerTypes
    <2> QED
      BY <2>1, <2>2, <2>3, StreamFacts DEF ConsumerTypes, HandsType
  <1>6. StreamHabits'
    <2>1. \A b \in InHand : b.at <= Len(log)' /\ (Readable(b.at)' <=> Readable(b.at))
      BY <1>1, <1>4, StreamFacts
    <2>2. rebalance # "none" => Paid' > 0
      BY <1>2, StreamFacts DEF StreamHabits
    <2> QED
      BY <1>3, <2>1, <2>2, StreamFacts DEF StreamHabits
  <1>7. StreamOrder'
    <2>1. ASSUME NEW i \in 1..Len(log)', i <= committed PROVE Done(i)'
      <3>1. i \in 1..Len(log)
        BY <1>1, <2>1, StreamFacts
      <3> QED
        BY <1>4, <2>1, <3>1, StreamFacts DEF StreamOrder
    <2>2. ASSUME NEW w \in work, NEW i \in 1..(w.at - 1) PROVE Done(i)'
      <3>1. i \in 1..Len(log) /\ Done(i)
        BY StreamFacts DEF StreamOrder
      <3> QED
        BY <1>4, <3>1
    <2>3. ASSUME NEW k \in DOMAIN queue, NEW i \in 1..(queue[k].at - 1)
          PROVE  Done(i)' \/ (\E w \in work : w.at = i) \/ \E l \in 1..(k - 1) : queue[l].at = i
      <3>1. queue[k].at \in 1..Len(log)
        BY StreamFacts
      <3>2. i \in 1..Len(log)
        BY <3>1, StreamFacts
      <3>3. Done(i) \/ (\E w \in work : w.at = i) \/ \E l \in 1..(k - 1) : queue[l].at = i
        BY StreamFacts DEF StreamOrder
      <3> QED
        BY <1>4, <3>2, <3>3
    <2>4. ASSUME mode # "down", NEW i \in 1..(next - 1)
          PROVE  Done(i)' \/ \E b \in InHand : b.at = i
      <3>1. i \in 1..Len(log)
        BY StreamFacts
      <3>2. Done(i) \/ \E b \in InHand : b.at = i
        BY <2>4, StreamFacts DEF StreamOrder
      <3> QED
        BY <1>4, <3>1, <3>2
    <2> QED
      BY <1>3, <2>1, <2>2, <2>3, <2>4 DEF StreamOrder
  <1>8. HandledInOrder'
    <2> SUFFICES ASSUME NEW j \in DOMAIN handled, NEW i \in 1..(j - 1)
                 PROVE  Done(i)'
      BY DEF HandledInOrder, Done
    <2>1. i \in 1..Len(log)
      BY StreamFacts DEF ConsumerTypes
    <2>2. OneByOne /\ HandledInOrder
      BY StreamFacts DEF StreamInv
    <2> QED
      BY <1>4, <2>1, <2>2 DEF HandledInOrder, Done
  <1>9. StreamRepeats'
    <2> SUFFICES ASSUME NEW i \in 1..Len(log)'
                 PROVE  Times(i) + Copies(queue, i) + AtWork(i) + Again(i) <= Paid' + 1
      BY <1>3 DEF StreamRepeats, AtWork, Again
    <2>1. CASE i \in 1..Len(log)
      <3>1. Times(i) + Copies(queue, i) + AtWork(i) + Again(i) <= Paid + 1
        BY <2>1, StreamFacts DEF StreamRepeats
      <3>2. Times(i) \in Nat /\ Copies(queue, i) \in Nat /\ AtWork(i) \in {0, 1} /\ Again(i) \in {0, 1, 2}
        BY StreamFacts
      <3> QED
        BY <1>2, <3>1, <3>2
    <2>2. CASE i \notin 1..Len(log)
      <3>1. Times(i) = 0
        BY <2>2, StreamFacts DEF Times, ConsumerTypes
      <3>2. \A b \in InHand : b.at # i
        BY <2>2, StreamFacts
      <3>3. AtWork(i) = 0
        BY <3>2, StreamFacts DEF AtWork
      <3>4. Copies(queue, i) = 0
        <4>1. {k \in DOMAIN queue : queue[k].at = i} = {}
          BY <3>2, StreamFacts
        <4> QED
          BY <4>1, FS_EmptySet DEF Copies
      <3>5. Again(i) <= Paid' + 1
        <4>1. Again(i) = 2 => rebalance # "none"
          BY DEF Again
        <4>2. Again(i) \in {0, 1, 2} /\ (rebalance # "none" => Paid > 0)
          BY StreamFacts DEF StreamHabits
        <4> QED
          BY <1>2, <4>1, <4>2
      <3> QED
        BY <1>2, <3>1, <3>3, <3>4, <3>5, StreamFacts
    <2> QED
      BY <2>1, <2>2
  <1> QED
    BY <1>5, <1>6, <1>7, <1>8, <1>9 DEF StreamInv

LEMMA StreamInitInv ==
    ASSUME KafkaInit, ConsumerInit, Kind = "stream"
    PROVE  StreamInv
  <1>1. /\ log = <<>> /\ committed = Nothing /\ faults = [count |-> 0, kinds |-> {}]
        /\ mode = "down" /\ next = 1 /\ queue = <<>> /\ work = {} /\ pending = 0
        /\ rebalance = "none" /\ handled = Unhandled /\ skipped = {}
        /\ setting \in Setting /\ setting \in Settings
    BY KafkaAssumption DEF KafkaInit, ConsumerInit
  <1>2. InHand = {} /\ DOMAIN handled = {} /\ handled = [i \in DOMAIN handled |-> handled[i]]
    BY <1>1 DEF InHand, ToSet, Unhandled
  <1>3. KafkaTypeOK
    BY <1>1 DEF KafkaTypeOK, Setting
  <1>4. ConsumerTypes
    <2>1. HandsType
      BY <1>1 DEF HandsType
    <2>2. DOMAIN handled \subseteq DOMAIN log /\ \A i \in DOMAIN handled : handled[i] \in Nat
      BY <1>2
    <2>3. mode = "down" /\ pending = 0 /\ rebalance = "none" /\ Len(log) = 0 /\ skipped \subseteq DOMAIN log
      BY <1>1
    <2>4. 0 \in 0..0
      OBVIOUS
    <2>5. pending \in 0..Len(log) /\ rebalance \in {"none", "waiting", "joining"}
      BY <2>3, <2>4, Zenon
    <2> QED
      BY <1>2, <2>1, <2>2, <2>3, <2>5, Zenon DEF ConsumerTypes
  <1>5. StreamHabits
    BY <1>1, <1>2 DEF StreamHabits
  <1>6. StreamOrder /\ HandledInOrder /\ StreamRepeats
    BY <1>1, <1>2 DEF StreamOrder, HandledInOrder, StreamRepeats
  <1> QED
    BY <1>3, <1>4, <1>5, <1>6 DEF StreamInv

--------------------------------------------------------------------------------
(* All the clients *)

LEMMA ConsumerFacts ==
    ASSUME ConsumerInv
    PROVE  /\ KafkaTypeOK /\ ConsumerTypes /\ HandledInOrder /\ ConsumerTypeOK
           /\ Paid \in Nat /\ \A i \in 1..Len(log) : Times(i) <= Paid + 1
           /\ OneByOne => \A i \in 1..Len(log) : i <= committed => Done(i)
           /\ ~OneByOne => OrderedInv
  <1>1. CASE Kind # "stream" /\ OrderedInv
    <2>1. Held
      BY <1>1, InvHeld
    <2>2. ConsumerTypeOK /\ Paid \in Nat
      BY <2>1, HeldTypes, HeldFacts, PaidFacts
    <2>3. \A i \in 1..Len(log) : Times(i) \in Nat
      BY <2>1, TimesNat
    <2>4. \A i \in 1..Len(log) : Times(i) <= Paid + 1
      BY <1>1, <2>2, <2>3 DEF OrderedInv, Repeats
    <2> QED
      BY <1>1, <2>2, <2>4 DEF OrderedInv, CommittedDone
  <1>2. CASE Kind = "stream" /\ StreamInv
    <2>1. ConsumerTypeOK
      <3>1. \A b \in InHand : {b.at, b.last} \subseteq DOMAIN log /\ b.step \in {"handle", "commit"}
        BY <1>2, StreamFacts DEF StreamHabits, BatchType
      <3>2. next \in Nat
        BY <1>2, StreamFacts
      <3> QED
        BY <1>2, <3>1, <3>2, StreamFacts DEF ConsumerTypes, ConsumerTypeOK
    <2>2. ASSUME NEW i \in 1..Len(log) PROVE Times(i) <= Paid + 1
      <3>1. Times(i) + Copies(queue, i) + AtWork(i) + Again(i) <= Paid + 1
        BY <1>2, StreamFacts DEF StreamRepeats
      <3>2. /\ Times(i) \in Nat /\ Copies(queue, i) \in Nat /\ AtWork(i) \in {0, 1}
            /\ Again(i) \in {0, 1, 2} /\ Paid \in Nat
        BY <1>2, StreamFacts
      <3> QED
        BY <3>1, <3>2
    <2> QED
      BY <1>2, <2>1, <2>2, StreamFacts DEF StreamInv, StreamOrder
  <1> QED
    BY <1>1, <1>2 DEF ConsumerInv

\* What the consumer leaves alone.
LEMMA ConsumerFrame ==
    ASSUME Start \/ Consume \/ ConsumerFails
    PROVE  /\ UNCHANGED <<setting, log>>
           /\ faults' = faults \/ \E kind : Failure(kind)
  <1>1. CASE Start
    BY <1>1 DEF Start, RdkafkaInit, GenericInit, StreamInit, KafkajsInit, CssConnect, Connect, kafkaVars
  <1>2. CASE Consume
    BY <1>2 DEF Consume, RdkafkaTake, RdkafkaCommit, CommitArrives, GenericOnMessage, GenericWork,
                GenericCommit, StreamPrefetch, StreamOnMessage, StreamCommit,
                StreamRebalanceWaited, StreamRejoin, KafkajsEachMessage, KafkajsCommit, CssConsumeSync,
                CssConsumeAsync, CssWork, Handle, CssCommit, kafkaVars
  <1>3. CASE ConsumerFails
    BY <1>3 DEF ConsumerFails, RdkafkaCommitThrows, StreamOnRebalance, KafkajsCommitRejects,
                CssCallbackThrows, CommitFails, Destroy, Exit
  <1> QED
    BY <1>1, <1>2, <1>3

\* Every step of a consumer.
LEMMA ConsumerStepsInv ==
    ASSUME ConsumerInv, Start \/ Consume \/ ConsumerFails
    PROVE  ConsumerInv'
  <1>1. Kind' = Kind
    BY ConsumerFrame DEF Kind
  <1> QED
    BY <1>1, OrderedStepsInv, StreamStepsInv DEF ConsumerInv

\* What the consumer has is not touched by what is stored behind it, nor by a
\* failure of somebody else.
LEMMA GrowthInv ==
    ASSUME ConsumerInv, NEW messages \in Seq(Message), log' = log \o messages,
           setting' = setting, committed' = committed,
           faults' = faults \/ \E kind : Failure(kind),
           UNCHANGED <<mode, next, queue, work, pending, rebalance, handled, skipped>>
    PROVE  ConsumerInv'
  <1>1. Kind' = Kind
    BY DEF Kind
  <1> QED
    BY <1>1, OrderedGrowth, StreamGrowth DEF ConsumerInv

LEMMA ConsumerInitInv ==
    ASSUME KafkaInit, ConsumerInit
    PROVE  ConsumerInv
  BY OrderedInitInv, StreamInitInv DEF ConsumerInv

--------------------------------------------------------------------------------
(* The producers *)

IsOf(m, r, n) == m.form = "subscribed" /\ m.from = r /\ m.n = n
In(r, n)      == \E i \in DOMAIN log : IsOf(log[i], r, n)
Own(m)        == m.from \in Request /\ m.n \in 1..setting.sends[m.from] /\ m.form = "subscribed"

\* Requests whose messages are not on their way yet.
Unsent(r) == \/ send[r].state \in {"idle", "connecting"}
             \/ send[r].state = "sending" /\ setting.producer # "rdkafka"

\* The library's producers are one from the start, the adapter's are made.
ProducersMade ==
    /\ outbox = [p \in Made |-> outbox[p]]
    /\ IsFiniteSet(Made) /\ Made = 1..Cardinality(Made)
    /\ ~Css => Made = {1}
    /\ setting.producer \in {"generic", "kafkajs"} => outbox[1] = <<>>

StatesFit ==
    /\ ~Css => \A r \in Request : send[r].state # "connecting"
    /\ Css => \A r \in Request : send[r].state = "sending" => using[r] \in Made
    /\ setting.producer = "rdkafka" =>
           \A r \in Request : send[r].state = "sending" => send[r].acks \in 1..setting.sends[r]

AllOwn ==
    /\ \A i \in DOMAIN log : Own(log[i]) \/ log[i].from = "others"
    /\ \A p \in Made : \A j \in DOMAIN outbox[p] : Own(outbox[p][j])

ProducerTypes == ProducerTypeOK /\ ProducersMade /\ StatesFit /\ AllOwn

\* A queue holds the messages of a request in their order.
QueuedInOrder ==
    \A p \in Made : \A i, j \in DOMAIN outbox[p] :
        i < j /\ outbox[p][i].from = outbox[p][j].from => outbox[p][i].n < outbox[p][j].n

\* Before a promise is settled, what lacks an acknowledgement is in the queue.
Got(r) == setting.sends[r] - send[r].acks
UnderWay(r) ==
    /\ \A n \in 1..Got(r) : In(r, n)
    /\ \A n \in (Got(r) + 1)..setting.sends[r] : \E j \in DOMAIN outbox[1] : IsOf(outbox[1][j], r, n)
    /\ \A j \in DOMAIN outbox[1] : outbox[1][j].from = r => outbox[1][j].n > Got(r)

Acknowledged ==
    \A r \in Request :
        /\ Resolved(r) /\ ~Css => \A n \in 1..setting.sends[r] : In(r, n)
        /\ setting.producer = "rdkafka" /\ send[r].state = "sending" => UnderWay(r)

\* Unless a delivery failed, what comes earlier in a batch is stored earlier.
StoredFromFront ==
    "ack" \notin faults.kinds =>
        \A r \in Request : \A n \in 1..setting.sends[r] : \A m \in 1..(n - 1) :
            /\ In(r, n) => In(r, m)
            /\ \A p \in Made : \A j \in DOMAIN outbox[p] :
                   IsOf(outbox[p][j], r, n) =>
                       In(r, m) \/ \E i \in 1..(j - 1) : IsOf(outbox[p][i], r, m)

NotSentYet ==
    \A r \in Request : Unsent(r) =>
        /\ \A i \in DOMAIN log : log[i].from # r
        /\ \A p \in Made : \A j \in DOMAIN outbox[p] : outbox[p][j].from # r

\* As long as no producer was overwritten, only one has messages.
OneProducer ==
    overwritten = {} =>
        /\ Css => /\ \A p \in Made : Busy(p) => p = listed
                  /\ \A r \in Request : send[r].state = "sending" => using[r] = listed

\* The order of the calls is kept from the queue to the partition.
CallsInOrder ==
    /\ \A s, r \in Request : <<s, r>> \in sentAfter => Resolved(s) /\ send[r].state # "idle"
    /\ SentInOrder
    /\ overwritten = {} =>
        \A s, r \in Request : \A p \in Made : \A i \in DOMAIN outbox[p] :
            <<s, r>> \in sentAfter /\ outbox[p][i].from = s =>
                /\ \A j \in DOMAIN log : log[j].from # r
                /\ \A j \in DOMAIN outbox[p] : outbox[p][j].from = r => i < j

ProducerInv ==
    /\ KafkaTypeOK
    /\ ProducerTypes
    /\ QueuedInOrder
    /\ Acknowledged
    /\ StoredFromFront
    /\ NotSentYet
    /\ OneProducer
    /\ CallsInOrder

--------------------------------------------------------------------------------
(* Lemmas about batches, queues and the partition *)

LEMMA ConcatFacts ==
    ASSUME NEW S, NEW s \in Seq(S), NEW t \in Seq(S)
    PROVE  /\ s \o t \in Seq(S) /\ Len(s) \in Nat /\ Len(t) \in Nat
           /\ Len(s \o t) = Len(s) + Len(t)
           /\ DOMAIN s = 1..Len(s) /\ DOMAIN t = 1..Len(t) /\ DOMAIN (s \o t) = 1..(Len(s) + Len(t))
           /\ \A i \in 1..Len(s) : (s \o t)[i] = s[i]
           /\ \A i \in 1..Len(t) : (s \o t)[Len(s) + i] = t[i]
           /\ \A i \in DOMAIN (s \o t) :
                  i \in 1..Len(s) \/ (i - Len(s) \in 1..Len(t) /\ (s \o t)[i] = t[i - Len(s)])
  OBVIOUS

LEMMA OneFacts ==
    ASSUME NEW S, NEW e \in S
    PROVE  <<e>> \in Seq(S) /\ Len(<<e>>) = 1 /\ <<e>>[1] = e
  OBVIOUS

LEMMA OneMore ==
    ASSUME NEW S, NEW s \in Seq(S), NEW e \in S
    PROVE  s \o <<e>> # s
  <1>1. Len(s \o <<e>>) = Len(s) + 1 /\ Len(s) \in Nat
    OBVIOUS
  <1> QED
    BY <1>1

LEMMA ProducerFacts ==
    ASSUME KafkaTypeOK
    PROVE  /\ setting \in Setting /\ \A r \in Request : setting.sends[r] \in Nat
           /\ QueueSize \in Nat \ {0} /\ "others" \notin Request
           /\ log \in Seq(Message) /\ DOMAIN log = 1..Len(log) /\ Len(log) \in Nat
  BY KafkaAssumption DEF KafkaTypeOK, Setting

\* The messages of a batch, or of its beginning.
LEMMA BatchFacts ==
    ASSUME KafkaTypeOK, NEW r \in Request, NEW k \in 0..setting.sends[r]
    PROVE  /\ Len(Batched(r)) = setting.sends[r] /\ Batched(r) \in Seq(Message)
           /\ SubSeq(Batched(r), 1, k) \in Seq(Message) /\ Len(SubSeq(Batched(r), 1, k)) = k
           /\ \A n \in 1..k : IsOf(SubSeq(Batched(r), 1, k)[n], r, n)
           /\ \A n \in 1..setting.sends[r] : IsOf(Batched(r)[n], r, n)
  <1>1. setting.sends[r] \in Nat
    BY ProducerFacts
  <1>2. \A n \in 1..setting.sends[r] : [form |-> "subscribed", from |-> r, n |-> n] \in Message
    BY <1>1 DEF Message, Form
  <1>3. Batched(r) \in Seq(Message) /\ Len(Batched(r)) = setting.sends[r]
    BY <1>1, <1>2 DEF Batched
  <1>4. \A n \in 1..setting.sends[r] : IsOf(Batched(r)[n], r, n)
    BY <1>1 DEF Batched, IsOf
  <1>5. /\ SubSeq(Batched(r), 1, k) \in Seq(Message) /\ Len(SubSeq(Batched(r), 1, k)) = k
        /\ \A n \in 1..k : SubSeq(Batched(r), 1, k)[n] = Batched(r)[n]
    BY <1>1, <1>3
  <1> QED
    BY <1>1, <1>3, <1>4, <1>5

LEMMA FaultTypes ==
    ASSUME KafkaTypeOK, NEW kind, Failure(kind)
    PROVE  /\ faults'.count \in 0..setting.faults /\ faults'.kinds \subseteq FaultKinds
           /\ faults'.kinds = faults.kinds \union {kind}
  <1>1. setting.faults \in Nat /\ faults.count \in 0..setting.faults
    BY ProducerFacts DEF KafkaTypeOK, Setting
  <1> QED
    BY <1>1 DEF Failure, KafkaTypeOK

\* What is stored stays where it is.
LEMMA StoreFacts ==
    ASSUME KafkaTypeOK, NEW messages \in Seq(Message), log' = log \o messages,
           setting' = setting, committed' = committed,
           faults' = faults \/ \E kind : Failure(kind)
    PROVE  /\ KafkaTypeOK'
           /\ DOMAIN log' = 1..(Len(log) + Len(messages))
           /\ \A i \in 1..Len(log) : log'[i] = log[i]
           /\ \A i \in DOMAIN log' : i \in 1..Len(log) \/
                  (i - Len(log) \in 1..Len(messages) /\ log'[i] = messages[i - Len(log)])
           /\ \A r, n : In(r, n)' <=> In(r, n) \/ \E i \in 1..Len(messages) : IsOf(messages[i], r, n)
  <1>1. log \in Seq(Message) /\ Len(log) \in Nat /\ Len(messages) \in Nat /\ DOMAIN log = 1..Len(log)
    BY ProducerFacts
  <1>2. /\ log' \in Seq(Message) /\ Len(log') = Len(log) + Len(messages)
        /\ DOMAIN log' = 1..(Len(log) + Len(messages))
        /\ \A i \in 1..Len(log) : log'[i] = log[i]
        /\ \A i \in 1..Len(messages) : log'[Len(log) + i] = messages[i]
        /\ \A i \in DOMAIN log' : i \in 1..Len(log) \/
               (i - Len(log) \in 1..Len(messages) /\ log'[i] = messages[i - Len(log)])
    BY <1>1, ConcatFacts
  <1>3. KafkaTypeOK'
    <2>1. faults'.count \in 0..setting.faults /\ faults'.kinds \subseteq FaultKinds
      BY FaultTypes DEF KafkaTypeOK
    <2> QED
      BY <1>1, <1>2, <2>1 DEF KafkaTypeOK, Nothing
  <1>4. ASSUME NEW r, NEW n
        PROVE  In(r, n)' <=> In(r, n) \/ \E i \in 1..Len(messages) : IsOf(messages[i], r, n)
    <2>1. In(r, n)' => In(r, n) \/ \E i \in 1..Len(messages) : IsOf(messages[i], r, n)
      BY <1>1, <1>2 DEF In
    <2>2. In(r, n) => In(r, n)'
      <3> SUFFICES ASSUME NEW i \in DOMAIN log, IsOf(log[i], r, n)
                   PROVE  \E j \in DOMAIN log' : IsOf(log'[j], r, n)
        BY DEF In
      <3>1. i \in DOMAIN log' /\ log'[i] = log[i]
        BY <1>1, <1>2
      <3> QED
        BY <3>1
    <2>3. ASSUME NEW i \in 1..Len(messages), IsOf(messages[i], r, n)
          PROVE  In(r, n)'
      <3>1. Len(log) + i \in DOMAIN log' /\ log'[Len(log) + i] = messages[i]
        BY <1>1, <1>2
      <3> QED
        BY <2>3, <3>1 DEF In
    <2> QED
      BY <2>1, <2>2, <2>3
  <1> QED
    BY <1>2, <1>3, <1>4

\* A request goes on, the others stay.
LEMMA BecomesFacts ==
    ASSUME ProducerTypeOK, NEW r \in Request, NEW state \in SendState, NEW acks \in Nat,
           Becomes(r, state, acks)
    PROVE  /\ send' \in [Request -> [state : SendState, acks : Nat]]
           /\ send'[r].state = state /\ send'[r].acks = acks
           /\ \A x \in Request : x # r => send'[x] = send[x]
  BY DEF Becomes, Is, ProducerTypeOK

\* Messages go to the end of a queue.
LEMMA QueueFacts ==
    ASSUME ProducerTypes, NEW p \in Made, NEW messages \in Seq(Message), Queue(p, messages)
    PROVE  /\ Made' = Made /\ outbox' = [x \in Made' |-> outbox'[x]]
           /\ \A x \in Made : x # p => outbox'[x] = outbox[x]
           /\ outbox'[p] \in Seq(Message) /\ Len(outbox'[p]) = Len(outbox[p]) + Len(messages)
           /\ outbox[p] \in Seq(Message) /\ Len(outbox[p]) \in Nat /\ DOMAIN outbox[p] = 1..Len(outbox[p])
           /\ DOMAIN outbox'[p] = 1..(Len(outbox[p]) + Len(messages))
           /\ \A i \in 1..Len(outbox[p]) : outbox'[p][i] = outbox[p][i]
           /\ \A i \in 1..Len(messages) : outbox'[p][Len(outbox[p]) + i] = messages[i]
           /\ \A i \in DOMAIN outbox'[p] : i \in 1..Len(outbox[p]) \/
                  (i - Len(outbox[p]) \in 1..Len(messages)
                   /\ outbox'[p][i] = messages[i - Len(outbox[p])])
  <1>1. outbox[p] \in Seq(Message) /\ outbox = [x \in Made |-> outbox[x]]
    BY DEF ProducerTypes, ProducerTypeOK, ProducersMade
  <1>2. outbox' = [outbox EXCEPT ![p] = outbox[p] \o messages]
    BY DEF Queue
  <1>3. /\ Made' = Made /\ outbox'[p] = outbox[p] \o messages
        /\ \A x \in Made : x # p => outbox'[x] = outbox[x]
        /\ outbox' = [x \in Made' |-> outbox'[x]]
    BY <1>1, <1>2 DEF Made
  <1> QED
    BY <1>1, <1>3, ConcatFacts

\* The first message leaves a queue.
LEMMA TailFacts ==
    ASSUME ProducerTypes, NEW p \in Made, Busy(p), outbox' = [outbox EXCEPT ![p] = Tail(@)]
    PROVE  /\ Made' = Made /\ outbox' = [x \in Made' |-> outbox'[x]]
           /\ \A x \in Made : x # p => outbox'[x] = outbox[x]
           /\ outbox'[p] \in Seq(Message) /\ Len(outbox'[p]) <= QueueSize
           /\ Head(outbox[p]) = outbox[p][1] /\ 1 \in DOMAIN outbox[p]
           /\ outbox[p][1] \in Message /\ Own(outbox[p][1])
           /\ \A j \in DOMAIN outbox[p] : j \in Nat /\ j >= 1 /\ (j # 1 => j - 1 \in DOMAIN outbox'[p])
           /\ \A j \in DOMAIN outbox'[p] :
                  j \in Nat /\ j >= 1 /\ j + 1 \in DOMAIN outbox[p] /\ outbox'[p][j] = outbox[p][j + 1]
  <1>1. /\ outbox[p] \in Seq(Message) /\ outbox = [x \in Made |-> outbox[x]] /\ outbox[p] # <<>>
        /\ Len(outbox[p]) <= QueueSize
    BY DEF ProducerTypes, ProducerTypeOK, ProducersMade, Busy
  <1>2. /\ Made' = Made /\ outbox'[p] = Tail(outbox[p])
        /\ \A x \in Made : x # p => outbox'[x] = outbox[x]
        /\ outbox' = [x \in Made' |-> outbox'[x]]
    BY <1>1 DEF Made
  <1>3. /\ Len(outbox[p]) \in Nat \ {0} /\ DOMAIN outbox[p] = 1..Len(outbox[p])
        /\ Head(outbox[p]) = outbox[p][1]
    BY <1>1
  <1>4. /\ Tail(outbox[p]) \in Seq(Message) /\ Len(Tail(outbox[p])) = Len(outbox[p]) - 1
        /\ DOMAIN Tail(outbox[p]) = 1..(Len(outbox[p]) - 1)
        /\ \A j \in 1..(Len(outbox[p]) - 1) : Tail(outbox[p])[j] = outbox[p][j + 1]
    BY <1>1, <1>3
  <1>5. 1 \in DOMAIN outbox[p] /\ outbox[p][1] \in Message /\ Own(outbox[p][1])
    BY <1>1, <1>3 DEF ProducerTypes, AllOwn
  <1>6. Len(outbox'[p]) <= QueueSize
    BY <1>1, <1>2, <1>3, <1>4, KafkaAssumption
  <1>7. \A j \in DOMAIN outbox[p] : j \in Nat /\ j >= 1 /\ (j # 1 => j - 1 \in DOMAIN outbox'[p])
    BY <1>2, <1>3, <1>4
  <1>8. \A j \in DOMAIN outbox'[p] :
            j \in Nat /\ j >= 1 /\ j + 1 \in DOMAIN outbox[p] /\ outbox'[p][j] = outbox[p][j + 1]
    <2>1. \A j \in DOMAIN outbox'[p] : j \in Nat /\ j >= 1
      BY <1>2, <1>3, <1>4
    <2>2. \A j \in DOMAIN Tail(outbox[p]) :
              j + 1 \in DOMAIN outbox[p] /\ Tail(outbox[p])[j] = outbox[p][j + 1]
      BY <1>1, TailSet
    <2> QED
      BY <1>2, <2>1, <2>2
  <1>9. outbox'[p] \in Seq(Message)
    BY <1>2, <1>4
  <1> QED
    BY <1>2, <1>3, <1>5, <1>6, <1>7, <1>8, <1>9

--------------------------------------------------------------------------------
(* A message leaves a queue, for the partition or not *)

Delivers(p) ==
    /\ Busy(p)
    /\ outbox' = [outbox EXCEPT ![p] = Tail(@)]
    /\ \/ log' = log \o <<outbox[p][1]>> /\ (faults' = faults \/ Failure("ack"))
       \/ log' = log /\ Failure("ack")
    /\ UNCHANGED <<setting, committed, using, listed, overwritten, sentAfter>>
    /\ send' \in [Request -> [state : SendState, acks : Nat]]
    /\ \A x \in Request :
           \/ send'[x] = send[x]
           \/ /\ setting.producer = "rdkafka" /\ send[x].state = "sending"
              /\ send'[x].state \in {"sending", "resolved", "rejected"}
              /\ send'[x].state = "sending" => send'[x].acks \in 1..setting.sends[x]

LEMMA DeliverFacts ==
    ASSUME ProducerInv, NEW p \in Made, Delivers(p)
    PROVE  /\ KafkaTypeOK' /\ outbox[p][1] \in Message
           /\ \A i \in DOMAIN log : i \in DOMAIN log' /\ log'[i] = log[i] /\ i <= Len(log)
           /\ \A i \in DOMAIN log' :
                  \/ i \in DOMAIN log /\ log'[i] = log[i]
                  \/ i = Len(log) + 1 /\ log'[i] = outbox[p][1]
           /\ \A r, n : In(r, n) => In(r, n)'
           /\ \A r, n : In(r, n)' => In(r, n) \/ IsOf(outbox[p][1], r, n)
           /\ log' # log => \A r, n : IsOf(outbox[p][1], r, n) => In(r, n)'
           /\ "ack" \in faults'.kinds \/ (log' # log /\ faults' = faults)
           /\ faults.kinds \subseteq faults'.kinds
  <1>1. KafkaTypeOK /\ ProducerTypes
    BY DEF ProducerInv
  <1>2. outbox[p][1] \in Message
    BY <1>1, TailFacts DEF Delivers
  <1>3. log \in Seq(Message) /\ Len(log) \in Nat /\ DOMAIN log = 1..Len(log)
    BY <1>1, ProducerFacts
  <1>4. faults' = faults \/ \E kind : Failure(kind)
    BY DEF Delivers
  <1>5. /\ "ack" \in faults'.kinds \/ faults' = faults
        /\ faults.kinds \subseteq faults'.kinds
        /\ log' = log => "ack" \in faults'.kinds
    <2>1. Failure("ack") => "ack" \in faults'.kinds /\ faults.kinds \subseteq faults'.kinds
      BY <1>1, FaultTypes
    <2>2. log' = log => Failure("ack")
      <3>1. log \o <<outbox[p][1]>> # log
        BY <1>2, <1>3, OneMore
      <3> QED
        BY <3>1 DEF Delivers
    <2> QED
      BY <2>1, <2>2 DEF Delivers
  <1>6. CASE log' = log
    <2>1. KafkaTypeOK'
      BY <1>1, <1>4, <1>6, FaultTypes DEF KafkaTypeOK, Delivers
    <2> QED
      BY <1>2, <1>3, <1>5, <1>6, <2>1 DEF In
  <1>7. CASE log' # log
    <2>1. PICK messages \in Seq(Message) :
              /\ messages = <<outbox[p][1]>> /\ Len(messages) = 1 /\ messages[1] = outbox[p][1]
      BY <1>2, OneFacts
    <2>2. log' = log \o messages /\ Len(messages) = 1 /\ messages[1] = outbox[p][1]
      BY <1>7, <2>1 DEF Delivers
    <2>3. setting' = setting /\ committed' = committed
      BY DEF Delivers
    <2>4. /\ KafkaTypeOK'
          /\ DOMAIN log' = 1..(Len(log) + Len(messages))
          /\ \A i \in 1..Len(log) : log'[i] = log[i]
          /\ \A i \in DOMAIN log' : i \in 1..Len(log) \/
                 (i - Len(log) \in 1..Len(messages) /\ log'[i] = messages[i - Len(log)])
          /\ \A r, n : In(r, n)' <=> In(r, n) \/ \E i \in 1..Len(messages) : IsOf(messages[i], r, n)
      BY <1>1, <1>4, <2>2, <2>3, StoreFacts
    <2>5. \A i \in DOMAIN log : i \in DOMAIN log' /\ log'[i] = log[i] /\ i <= Len(log)
      BY <1>3, <2>2, <2>4
    <2>6. ASSUME NEW i \in DOMAIN log', i \notin DOMAIN log
          PROVE  i = Len(log) + 1 /\ log'[i] = outbox[p][1]
      <3>1. i - Len(log) = 1 /\ i \in Int
        BY <1>3, <2>2, <2>4, <2>6
      <3> QED
        BY <1>3, <2>2, <2>4, <2>6, <3>1
    <2>7. \A r, n : In(r, n)' <=> In(r, n) \/ IsOf(outbox[p][1], r, n)
      <3>1. 1..Len(messages) = {1}
        BY <2>2
      <3> QED
        BY <2>2, <2>4, <3>1
    <2> QED
      BY <1>2, <1>3, <1>5, <1>7, <2>4, <2>5, <2>6, <2>7
  <1> QED
    BY <1>6, <1>7

LEMMA DeliverKeeps ==
    ASSUME ProducerInv, NEW p \in Made, Delivers(p)
    PROVE  /\ ProducerTypes' /\ QueuedInOrder' /\ StoredFromFront' /\ NotSentYet'
           /\ OneProducer' /\ CallsInOrder'
  <1> DEFINE m == outbox[p][1]
  <1>1. /\ KafkaTypeOK /\ ProducerTypes /\ QueuedInOrder /\ StoredFromFront /\ NotSentYet
        /\ OneProducer /\ CallsInOrder /\ SentInOrder
    BY DEF ProducerInv, CallsInOrder
  <1>2. /\ Busy(p) /\ outbox' = [outbox EXCEPT ![p] = Tail(@)]
        /\ UNCHANGED <<setting, committed, using, listed, overwritten, sentAfter>>
        /\ send' \in [Request -> [state : SendState, acks : Nat]]
        /\ \A x \in Request :
               \/ send'[x] = send[x]
               \/ /\ setting.producer = "rdkafka" /\ send[x].state = "sending"
                  /\ send'[x].state \in {"sending", "resolved", "rejected"}
                  /\ send'[x].state = "sending" => send'[x].acks \in 1..setting.sends[x]
    BY DEF Delivers
  <1>3. /\ Made' = Made /\ outbox' = [x \in Made' |-> outbox'[x]]
        /\ \A x \in Made : x # p => outbox'[x] = outbox[x]
        /\ outbox'[p] \in Seq(Message) /\ Len(outbox'[p]) <= QueueSize
        /\ 1 \in DOMAIN outbox[p]
        /\ \A j \in DOMAIN outbox[p] : j \in Nat /\ j >= 1 /\ (j # 1 => j - 1 \in DOMAIN outbox'[p])
        /\ \A j \in DOMAIN outbox'[p] :
               j \in Nat /\ j >= 1 /\ j + 1 \in DOMAIN outbox[p] /\ outbox'[p][j] = outbox[p][j + 1]
    BY <1>1, <1>2, TailFacts
  <1>4. m \in Message /\ Own(m)
    BY <1>1, <1>2, TailFacts
  <1>5. /\ \A i \in DOMAIN log : i \in DOMAIN log' /\ log'[i] = log[i] /\ i <= Len(log)
        /\ \A i \in DOMAIN log' :
               \/ i \in DOMAIN log /\ log'[i] = log[i]
               \/ i = Len(log) + 1 /\ log'[i] = m
        /\ \A r, n : In(r, n) => In(r, n)'
        /\ \A r, n : In(r, n)' => In(r, n) \/ IsOf(m, r, n)
        /\ log' # log => \A r, n : IsOf(m, r, n) => In(r, n)'
        /\ "ack" \in faults'.kinds \/ (log' # log /\ faults' = faults)
        /\ faults.kinds \subseteq faults'.kinds
    BY DeliverFacts
  <1> HIDE DEF m
  <1>6. QueuedInOrder'
    <2> SUFFICES ASSUME NEW x \in Made, NEW i \in DOMAIN outbox'[x], NEW j \in DOMAIN outbox'[x],
                        i < j, outbox'[x][i].from = outbox'[x][j].from
                 PROVE  outbox'[x][i].n < outbox'[x][j].n
      BY <1>3 DEF QueuedInOrder
    <2>1. CASE x = p
      <3>1. /\ i \in Nat /\ i + 1 \in DOMAIN outbox[p] /\ outbox'[p][i] = outbox[p][i + 1]
            /\ j \in Nat /\ j + 1 \in DOMAIN outbox[p] /\ outbox'[p][j] = outbox[p][j + 1]
        BY <1>3, <2>1
      <3>2. i + 1 < j + 1
        BY <3>1
      <3> QED
        BY <1>1, <2>1, <3>1, <3>2 DEF QueuedInOrder
    <2>2. CASE x # p
      BY <1>1, <1>3, <2>2 DEF QueuedInOrder
    <2> QED
      BY <2>1, <2>2
  <1>7. ASSUME NEW x \in Made, NEW j \in DOMAIN outbox'[x]
        PROVE  \E i \in DOMAIN outbox[x] : outbox'[x][j] = outbox[x][i]
    BY <1>3
  <1>8. ProducerTypes'
    <2>1. ProducerTypeOK'
      BY <1>1, <1>2, <1>3 DEF ProducerTypes, ProducerTypeOK
    <2>2. AllOwn'
      <3>1. \A i \in DOMAIN log' : Own(log[i])' \/ log'[i].from = "others"
        BY <1>1, <1>2, <1>4, <1>5 DEF ProducerTypes, AllOwn, Own
      <3>2. ASSUME NEW x \in Made, NEW j \in DOMAIN outbox'[x]
            PROVE  Own(outbox[x][j])'
        <4>1. PICK i \in DOMAIN outbox[x] : outbox'[x][j] = outbox[x][i]
          BY <1>7
        <4>2. Own(outbox[x][i])
          BY <1>1 DEF ProducerTypes, AllOwn
        <4> QED
          BY <1>2, <4>1, <4>2 DEF Own
      <3> QED
        BY <1>3, <3>1, <3>2 DEF AllOwn
    <2>3. setting.producer \notin {"generic", "kafkajs"}
      <3> SUFFICES ASSUME setting.producer \in {"generic", "kafkajs"}
                   PROVE  FALSE
        OBVIOUS
      <3>1. outbox[1] = <<>> /\ Made = {1}
        BY <1>1 DEF ProducerTypes, ProducersMade, Css
      <3> QED
        BY <1>2, <3>1 DEF Busy
    <2>4. ProducersMade'
      BY <1>1, <1>2, <1>3, <2>3 DEF ProducerTypes, ProducersMade, Css
    <2>5. StatesFit'
      <3>1. StatesFit
        BY <1>1 DEF ProducerTypes
      <3>2. ~Css' => \A r \in Request : send'[r].state # "connecting"
        BY <1>2, <3>1 DEF StatesFit, Css
      <3>3. Css' => \A r \in Request : send'[r].state = "sending" => using'[r] \in Made'
        BY <1>2, <1>3, <3>1 DEF StatesFit, Css
      <3>4. setting'.producer = "rdkafka" => \A r \in Request :
                send'[r].state = "sending" => send'[r].acks \in 1..setting'.sends[r]
        BY <1>2, <3>1 DEF StatesFit
      <3> QED
        BY <3>2, <3>3, <3>4 DEF StatesFit
    <2> QED
      BY <2>1, <2>2, <2>4, <2>5 DEF ProducerTypes
  <1>9. NotSentYet'
    <2> SUFFICES ASSUME NEW r \in Request, Unsent(r)'
                 PROVE  /\ \A i \in DOMAIN log' : log'[i].from # r
                        /\ \A x \in Made : \A j \in DOMAIN outbox'[x] : outbox'[x][j].from # r
      BY <1>3 DEF NotSentYet
    <2>1. Unsent(r)
      BY <1>2 DEF Unsent
    <2>2. m.from # r
      BY <1>1, <1>3, <2>1 DEF NotSentYet, m
    <2> QED
      BY <1>1, <1>5, <1>7, <2>1, <2>2 DEF NotSentYet
  <1>10. StoredFromFront'
    <2> SUFFICES ASSUME "ack" \notin faults'.kinds, NEW r \in Request,
                        NEW n \in 1..setting.sends[r], NEW k \in 1..(n - 1)
                 PROVE  /\ In(r, n)' => In(r, k)'
                        /\ \A x \in Made : \A j \in DOMAIN outbox'[x] :
                               IsOf(outbox'[x][j], r, n) =>
                                   In(r, k)' \/ \E i \in 1..(j - 1) : IsOf(outbox'[x][i], r, k)
      BY <1>2, <1>3 DEF StoredFromFront
    <2>1. /\ In(r, n) => In(r, k)
          /\ \A x \in Made : \A j \in DOMAIN outbox[x] :
                 IsOf(outbox[x][j], r, n) =>
                     In(r, k) \/ \E i \in 1..(j - 1) : IsOf(outbox[x][i], r, k)
      BY <1>1, <1>5 DEF StoredFromFront
    <2>2. log' # log
      BY <1>5
    <2>3. In(r, n)' => In(r, k)'
      <3>1. IsOf(m, r, n) => In(r, k)
        BY <1>3, <2>1 DEF m
      <3> QED
        BY <1>5, <2>1, <3>1
    <2>4. ASSUME NEW x \in Made, NEW j \in DOMAIN outbox'[x], IsOf(outbox'[x][j], r, n), ~In(r, k)'
          PROVE  \E i \in 1..(j - 1) : IsOf(outbox'[x][i], r, k)
      <3>1. CASE x # p
        BY <1>3, <1>5, <2>1, <2>4, <3>1
      <3>2. CASE x = p
        <4>1. j \in Nat /\ j + 1 \in DOMAIN outbox[p] /\ IsOf(outbox[p][j + 1], r, n)
          BY <1>3, <2>4, <3>2
        <4>2. PICK i \in 1..j : IsOf(outbox[p][i], r, k)
          BY <1>5, <2>1, <2>4, <4>1
        <4>3. i # 1
          BY <1>5, <2>2, <2>4, <4>2 DEF m
        <4>4. i - 1 \in 1..(j - 1) /\ (i - 1) + 1 = i
          BY <4>1, <4>2, <4>3
        <4>5. i \in DOMAIN outbox[p]
          <5>1. outbox[p] \in Seq(Message)
            BY <1>1 DEF ProducerTypes, ProducerTypeOK
          <5> QED
            BY <4>1, <4>2, <5>1
        <4>6. outbox'[p][i - 1] = outbox[p][i]
          BY <1>3, <4>3, <4>4, <4>5
        <4> QED
          BY <3>2, <4>2, <4>4, <4>6
      <3> QED
        BY <3>1, <3>2
    <2> QED
      BY <2>3, <2>4
  <1>11. OneProducer'
    BY <1>1, <1>2, <1>3 DEF OneProducer, Busy, Css
  <1>12. CallsInOrder'
    <2>1. \A s, r \in Request : <<s, r>> \in sentAfter => Resolved(s)' /\ send'[r].state # "idle"
      BY <1>1, <1>2 DEF CallsInOrder, Resolved
    <2>2. ASSUME overwritten = {}, NEW x \in Made, NEW y \in Made, Busy(x), Busy(y)
          PROVE  x = y
      BY <1>1, <2>2 DEF OneProducer, ProducerTypes, ProducersMade
    <2>3. SentInOrder'
      <3> SUFFICES ASSUME overwritten = {}, NEW s \in Request, NEW r \in Request,
                          <<s, r>> \in sentAfter, NEW i \in DOMAIN log', NEW j \in DOMAIN log',
                          log'[i].from = s, log'[j].from = r
                   PROVE  i < j
        BY <1>2 DEF SentInOrder
      <3>1. ASSUME m.from = s
            PROVE  m.from # r /\ \A k \in DOMAIN log : log[k].from # r
        BY <1>1, <1>3, <3>1 DEF CallsInOrder, m
      <3>2. CASE i \in DOMAIN log /\ log'[i] = log[i] /\ j \in DOMAIN log /\ log'[j] = log[j]
        BY <1>1, <3>2 DEF SentInOrder
      <3>3. CASE i = Len(log) + 1 /\ log'[i] = m
        BY <1>5, <3>1, <3>3
      <3>4. CASE i \in DOMAIN log /\ j = Len(log) + 1
        BY <1>1, <1>5, <3>4, ProducerFacts
      <3> QED
        BY <1>5, <3>2, <3>3, <3>4
    <2>4. ASSUME overwritten = {}, NEW s \in Request, NEW r \in Request, <<s, r>> \in sentAfter,
                 NEW x \in Made, NEW i \in DOMAIN outbox'[x], outbox'[x][i].from = s
          PROVE  /\ \A j \in DOMAIN log' : log'[j].from # r
                 /\ \A j \in DOMAIN outbox'[x] : outbox'[x][j].from = r => i < j
      <3>1. PICK k \in DOMAIN outbox[x] : outbox'[x][i] = outbox[x][k]
        BY <1>7
      <3>2. /\ \A j \in DOMAIN log : log[j].from # r
            /\ \A j \in DOMAIN outbox[x] : outbox[x][j].from = r => k < j
        BY <1>1, <2>4, <3>1 DEF CallsInOrder
      <3>3. Busy(x)
        BY <3>1 DEF Busy
      <3>4. x = p
        BY <1>2, <2>2, <2>4, <3>3
      <3>5. m.from # r
        BY <1>3, <3>1, <3>2, <3>4 DEF m
      <3>6. \A j \in DOMAIN log' : log'[j].from # r
        BY <1>5, <3>2, <3>5
      <3>7. ASSUME NEW j \in DOMAIN outbox'[x], outbox'[x][j].from = r
            PROVE  i < j
        <4>1. /\ i + 1 \in DOMAIN outbox[p] /\ outbox[p][i + 1].from = s
              /\ j + 1 \in DOMAIN outbox[p] /\ outbox[p][j + 1].from = r
              /\ i \in Nat /\ j \in Nat
          BY <1>3, <2>4, <3>4, <3>7
        <4>2. i + 1 < j + 1
          BY <1>1, <2>4, <4>1 DEF CallsInOrder
        <4> QED
          BY <4>1, <4>2
      <3> QED
        BY <3>6, <3>7
    <2> QED
      BY <1>2, <1>3, <2>1, <2>3, <2>4 DEF CallsInOrder
  <1> QED
    BY <1>6, <1>8, <1>9, <1>10, <1>11, <1>12

\* A request whose messages are not the one that leaves is under way as before.
LEMMA UnderWayKept ==
    ASSUME ProducerInv, NEW r \in Request, 1 \in Made, Delivers(1), outbox[1][1].from # r,
           UnderWay(r), send'[r] = send[r]
    PROVE  UnderWay(r)'
  <1>1. KafkaTypeOK /\ ProducerTypes
    BY DEF ProducerInv
  <1>2. /\ \A j \in DOMAIN outbox[1] : j \in Nat /\ j >= 1 /\ (j # 1 => j - 1 \in DOMAIN outbox'[1])
        /\ \A j \in DOMAIN outbox'[1] :
               j \in Nat /\ j >= 1 /\ j + 1 \in DOMAIN outbox[1] /\ outbox'[1][j] = outbox[1][j + 1]
    BY <1>1, TailFacts DEF Delivers
  <1>3. Got(r)' = Got(r) /\ setting' = setting
    BY DEF Got, Delivers
  <1>4. \A n : In(r, n) => In(r, n)'
    BY DeliverFacts
  <1>5. \A n \in (Got(r) + 1)..setting.sends[r] : \E j \in DOMAIN outbox'[1] : IsOf(outbox'[1][j], r, n)
    <2> SUFFICES ASSUME NEW n \in (Got(r) + 1)..setting.sends[r]
                 PROVE  \E j \in DOMAIN outbox'[1] : IsOf(outbox'[1][j], r, n)
      OBVIOUS
    <2>1. PICK j \in DOMAIN outbox[1] : IsOf(outbox[1][j], r, n)
      BY DEF UnderWay
    <2>2. j # 1
      BY <2>1 DEF IsOf
    <2>3. j - 1 \in DOMAIN outbox'[1] /\ (j - 1) + 1 = j
      BY <1>2, <2>2
    <2> QED
      BY <1>2, <2>1, <2>3
  <1>6. \A j \in DOMAIN outbox'[1] : outbox'[1][j].from = r => outbox'[1][j].n > Got(r)
    BY <1>2 DEF UnderWay
  <1>7. \A n \in 1..Got(r) : In(r, n)'
    BY <1>4 DEF UnderWay
  <1> QED
    BY <1>3, <1>5, <1>6, <1>7 DEF UnderWay

\* The first message of a request in the queue is the next to be acknowledged.
LEMMA FirstIsNext ==
    ASSUME ProducerInv, setting.producer = "rdkafka", 1 \in Made, Busy(1),
           NEW r \in Request, outbox[1][1].from = r, send[r].state = "sending"
    PROVE  IsOf(outbox[1][1], r, Got(r) + 1) /\ send[r].acks \in 1..setting.sends[r]
  <1>1. /\ KafkaTypeOK /\ ProducerTypes /\ QueuedInOrder /\ UnderWay(r)
        /\ send[r].acks \in 1..setting.sends[r] /\ setting.sends[r] \in Nat
    BY ProducerFacts DEF ProducerInv, Acknowledged, ProducerTypes, StatesFit
  <1>2. outbox[1] \in Seq(Message) /\ outbox[1] # <<>>
    BY <1>1 DEF ProducerTypes, ProducerTypeOK, Busy
  <1>3. 1 \in DOMAIN outbox[1] /\ Own(outbox[1][1]) /\ \A j \in DOMAIN outbox[1] : j \in Nat /\ j >= 1
    <2>1. 1 \in DOMAIN outbox[1] /\ \A j \in DOMAIN outbox[1] : j \in Nat /\ j >= 1
      BY <1>2
    <2> QED
      BY <1>1, <2>1 DEF ProducerTypes, AllOwn
  <1>4. Got(r) \in Nat /\ Got(r) + 1 \in (Got(r) + 1)..setting.sends[r]
    BY <1>1 DEF Got
  <1>5. PICK j \in DOMAIN outbox[1] : IsOf(outbox[1][j], r, Got(r) + 1)
    BY <1>1, <1>4 DEF UnderWay
  <1>6. outbox[1][1].n > Got(r) /\ outbox[1][1].n \in Nat
    BY <1>1, <1>3 DEF UnderWay, Own
  <1>7. j # 1 => outbox[1][1].n < Got(r) + 1
    <2> SUFFICES ASSUME j # 1
                 PROVE  outbox[1][1].n < Got(r) + 1
      OBVIOUS
    <2>1. 1 < j
      BY <1>3
    <2> QED
      BY <1>1, <1>3, <1>5, <2>1 DEF QueuedInOrder, IsOf
  <1>8. outbox[1][1].n = Got(r) + 1
    BY <1>4, <1>5, <1>6, <1>7 DEF IsOf
  <1> QED
    BY <1>1, <1>3, <1>8 DEF IsOf, Own

LEMMA RdkafkaDeliveredInv ==
    ASSUME ProducerInv, RdkafkaDelivered
    PROVE  ProducerInv'
  <1>1. KafkaTypeOK /\ ProducerTypes /\ Acknowledged /\ ProducerTypeOK
    BY DEF ProducerInv, ProducerTypes
  <1>2. setting.producer = "rdkafka" /\ Busy(1) /\ Made = {1} /\ 1 \in Made
    BY <1>1 DEF RdkafkaDelivered, ProducerTypes, ProducersMade, Css
  <1>3. /\ outbox' = [outbox EXCEPT ![1] = Tail(@)]
        /\ UNCHANGED <<setting, committed, faults, using, listed, overwritten, sentAfter>>
    BY DEF RdkafkaDelivered
  <1>4. Head(outbox[1]) = outbox[1][1] /\ Own(outbox[1][1])
    BY <1>1, <1>2, <1>3, TailFacts
  <1>15. PICK q \in Request : q = outbox[1][1].from
    BY <1>4 DEF Own
  <1>5. /\ log' = log \o <<outbox[1][1]>>
        /\ IF send[q].state # "sending" THEN send' = send
           ELSE Becomes(q, IF send[q].acks = 1 THEN "resolved" ELSE "sending", send[q].acks - 1)
    BY <1>4, <1>15 DEF RdkafkaDelivered, Store
  <1>6. send[q].state = "sending" =>
            IsOf(outbox[1][1], q, Got(q) + 1) /\ send[q].acks \in 1..setting.sends[q]
    BY <1>2, <1>15, FirstIsNext
  <1>7. setting.sends[q] \in Nat
    BY <1>1, <1>4, ProducerFacts
  <1>8. /\ send' \in [Request -> [state : SendState, acks : Nat]]
        /\ \A x \in Request : x # q => send'[x] = send[x]
        /\ IF send[q].state # "sending" THEN send'[q] = send[q]
           ELSE send'[q].acks = send[q].acks - 1
                /\ send'[q].state = IF send[q].acks = 1 THEN "resolved" ELSE "sending"
    <2>1. CASE send[q].state # "sending"
      BY <1>1, <1>5, <2>1 DEF ProducerTypeOK
    <2>2. CASE send[q].state = "sending"
      <3>1. send[q].acks - 1 \in Nat
        BY <1>6, <1>7, <2>2
      <3>2. (IF send[q].acks = 1 THEN "resolved" ELSE "sending") \in SendState
        BY DEF SendState
      <3> QED
        BY <1>1, <1>4, <1>5, <2>2, <3>1, <3>2, BecomesFacts
    <2> QED
      BY <2>1, <2>2
  <1>9. Delivers(1)
    <2>1. \A x \in Request :
              \/ send'[x] = send[x]
              \/ /\ setting.producer = "rdkafka" /\ send[x].state = "sending"
                 /\ send'[x].state \in {"sending", "resolved", "rejected"}
                 /\ send'[x].state = "sending" => send'[x].acks \in 1..setting.sends[x]
      BY <1>2, <1>6, <1>7, <1>8
    <2> QED
      BY <1>2, <1>3, <1>5, <1>8, <2>1 DEF Delivers
  <1>10. /\ KafkaTypeOK' /\ \A r, n : In(r, n) => In(r, n)'
         /\ \A r, n : IsOf(outbox[1][1], r, n) => In(r, n)'
    <2>1. log' # log
      <3>1. log \in Seq(Message) /\ outbox[1][1] \in Message
        BY <1>1, <1>2, <1>3, ProducerFacts, TailFacts
      <3> QED
        BY <1>5, <3>1, OneMore
    <2> QED
      BY <1>2, <1>9, <2>1, DeliverFacts
  <1>11. ASSUME NEW r \in Request, Resolved(r)', NEW n \in 1..setting.sends[r]
         PROVE  In(r, n)'
    <2>1. CASE Resolved(r)
      BY <1>1, <1>2, <1>10, <2>1 DEF Acknowledged, Css
    <2>2. CASE ~Resolved(r)
      <3>1. r = q /\ send[q].state = "sending" /\ send[q].acks = 1
        BY <1>8, <1>11, <2>2 DEF Resolved
      <3>2. n \in 1..Got(q) \/ n = Got(q) + 1
        BY <1>7, <3>1 DEF Got
      <3>3. UnderWay(q)
        BY <1>1, <1>2, <1>4, <3>1 DEF Acknowledged
      <3> QED
        BY <1>6, <1>10, <3>1, <3>2, <3>3 DEF UnderWay
    <2> QED
      BY <2>1, <2>2
  <1>12. ASSUME NEW r \in Request, send'[r].state = "sending"
         PROVE  UnderWay(r)'
    <2>1. send[r].state = "sending" /\ UnderWay(r)
      BY <1>1, <1>2, <1>8, <1>12 DEF Acknowledged
    <2>2. CASE r # q
      BY <1>2, <1>8, <1>9, <1>15, <2>1, <2>2, UnderWayKept
    <2>3. CASE r = q
      <3>1. /\ \A j \in DOMAIN outbox[1] :
                   j \in Nat /\ j >= 1 /\ (j # 1 => j - 1 \in DOMAIN outbox'[1])
            /\ \A j \in DOMAIN outbox'[1] :
                   j \in Nat /\ j >= 1 /\ j + 1 \in DOMAIN outbox[1] /\ outbox'[1][j] = outbox[1][j + 1]
            /\ 1 \in DOMAIN outbox[1]
        BY <1>1, <1>2, <1>3, TailFacts
      <3>2. Got(q) \in Nat /\ Got(q)' = Got(q) + 1 /\ IsOf(outbox[1][1], q, Got(q) + 1)
        <4>1. /\ send[q].acks \in 1..setting.sends[q] /\ send'[q].acks = send[q].acks - 1
              /\ IsOf(outbox[1][1], q, Got(q) + 1)
          BY <1>6, <1>8, <2>1, <2>3
        <4>2. Got(q)' = setting.sends[q] - send'[q].acks
          BY <1>3 DEF Got
        <4>3. Got(q) \in Nat /\ setting.sends[q] - (send[q].acks - 1) = Got(q) + 1
          BY <1>7, <4>1 DEF Got
        <4> QED
          BY <4>1, <4>2, <4>3
      <3>7. UnderWay(q)
        BY <2>1, <2>3
      <3>3. \A n \in 1..(Got(q) + 1) : In(q, n)'
        <4>1. \A n \in 1..(Got(q) + 1) : n \in 1..Got(q) \/ n = Got(q) + 1
          BY <3>2
        <4> QED
          BY <1>10, <3>2, <3>7, <4>1 DEF UnderWay
      <3>4. ASSUME NEW n \in (Got(q) + 2)..setting.sends[q]
            PROVE  \E j \in DOMAIN outbox'[1] : IsOf(outbox'[1][j], q, n)
        <4>1. n \in (Got(q) + 1)..setting.sends[q] /\ n # Got(q) + 1
          BY <1>7, <3>2, <3>4
        <4>2. PICK j \in DOMAIN outbox[1] : IsOf(outbox[1][j], q, n)
          BY <2>1, <2>3, <4>1 DEF UnderWay
        <4>3. j # 1
          BY <3>2, <4>1, <4>2 DEF IsOf
        <4>4. j - 1 \in DOMAIN outbox'[1] /\ (j - 1) + 1 = j
          BY <3>1, <4>3
        <4> QED
          BY <3>1, <4>2, <4>4
      <3>5. ASSUME NEW j \in DOMAIN outbox'[1], outbox'[1][j].from = q
            PROVE  outbox'[1][j].n > Got(q) + 1
        <4>1. j + 1 \in DOMAIN outbox[1] /\ 1 < j + 1 /\ outbox'[1][j] = outbox[1][j + 1]
          BY <3>1
        <4>2. QueuedInOrder
          BY DEF ProducerInv
        <4>3. outbox[1][1].n < outbox[1][j + 1].n
          BY <1>2, <3>1, <3>2, <3>5, <4>1, <4>2 DEF QueuedInOrder, IsOf
        <4>4. outbox[1][j + 1].n \in Nat
          BY <1>1, <1>2, <4>1 DEF ProducerTypes, AllOwn, Own
        <4> QED
          BY <3>2, <4>1, <4>3, <4>4 DEF IsOf
      <3>6. (Got(q) + 1) + 1 = Got(q) + 2
        BY <3>2
      <3>8. /\ \A n \in 1..Got(q)' : In(q, n)'
            /\ \A n \in (Got(q)' + 1)..setting.sends[q] :
                   \E j \in DOMAIN outbox'[1] : IsOf(outbox'[1][j], q, n)
            /\ \A j \in DOMAIN outbox'[1] : outbox'[1][j].from = q => outbox'[1][j].n > Got(q)'
        BY <3>2, <3>3, <3>4, <3>5, <3>6
      <3> QED
        BY <1>3, <2>3, <3>8 DEF UnderWay
    <2> QED
      BY <2>2, <2>3
  <1>13. Acknowledged'
    BY <1>3, <1>11, <1>12 DEF Acknowledged
  <1>14. /\ ProducerTypes' /\ QueuedInOrder' /\ StoredFromFront' /\ NotSentYet'
         /\ OneProducer' /\ CallsInOrder'
    BY <1>2, <1>9, DeliverKeeps
  <1> QED
    BY <1>10, <1>13, <1>14 DEF ProducerInv

LEMMA RdkafkaNotDeliveredInv ==
    ASSUME ProducerInv, RdkafkaNotDelivered
    PROVE  ProducerInv'
  <1>1. KafkaTypeOK /\ ProducerTypes /\ Acknowledged /\ ProducerTypeOK
    BY DEF ProducerInv, ProducerTypes
  <1>2. setting.producer = "rdkafka" /\ Busy(1) /\ Made = {1} /\ 1 \in Made
    BY <1>1 DEF RdkafkaNotDelivered, ProducerTypes, ProducersMade, Css
  <1>3. /\ outbox' = [outbox EXCEPT ![1] = Tail(@)] /\ Failure("ack")
        /\ UNCHANGED <<setting, committed, using, listed, overwritten, sentAfter>>
    BY DEF RdkafkaNotDelivered
  <1>4. Head(outbox[1]) = outbox[1][1] /\ Own(outbox[1][1])
    BY <1>1, <1>2, <1>3, TailFacts
  <1>5. PICK q \in Request : q = outbox[1][1].from
    BY <1>4 DEF Own
  <1>6. /\ log' = log \o <<outbox[1][1]>> \/ log' = log
        /\ IF send[q].state # "sending" THEN send' = send
           ELSE Becomes(q, "rejected", send[q].acks)
    BY <1>4, <1>5 DEF RdkafkaNotDelivered, Store
  <1>7. /\ send' \in [Request -> [state : SendState, acks : Nat]]
        /\ \A x \in Request : x # q => send'[x] = send[x]
        /\ IF send[q].state # "sending" THEN send'[q] = send[q] ELSE send'[q].state = "rejected"
    <2>1. CASE send[q].state # "sending"
      BY <1>1, <1>6, <2>1 DEF ProducerTypeOK
    <2>2. CASE send[q].state = "sending"
      <3>1. send[q].acks \in Nat /\ "rejected" \in SendState
        BY <1>1 DEF ProducerTypeOK, SendState
      <3> QED
        BY <1>1, <1>6, <2>2, <3>1, BecomesFacts
    <2> QED
      BY <2>1, <2>2
  <1>8. Delivers(1)
    <2>1. \A x \in Request :
              \/ send'[x] = send[x]
              \/ /\ setting.producer = "rdkafka" /\ send[x].state = "sending"
                 /\ send'[x].state \in {"sending", "resolved", "rejected"}
                 /\ send'[x].state = "sending" => send'[x].acks \in 1..setting.sends[x]
      BY <1>2, <1>7
    <2> QED
      BY <1>2, <1>3, <1>6, <1>7, <2>1 DEF Delivers
  <1>9. KafkaTypeOK' /\ \A r, n : In(r, n) => In(r, n)'
    BY <1>2, <1>8, DeliverFacts
  <1>10. Acknowledged'
    <2>1. ASSUME NEW r \in Request, Resolved(r)', NEW n \in 1..setting.sends[r]
          PROVE  In(r, n)'
      <3>1. Resolved(r)
        BY <1>7, <2>1 DEF Resolved
      <3> QED
        BY <1>1, <1>2, <1>9, <3>1 DEF Acknowledged, Css
    <2>2. ASSUME NEW r \in Request, send'[r].state = "sending"
          PROVE  UnderWay(r)'
      <3>1. send'[r] = send[r] /\ r # q /\ UnderWay(r)
        BY <1>1, <1>2, <1>7, <2>2 DEF Acknowledged
      <3> QED
        BY <1>2, <1>5, <1>8, <3>1, UnderWayKept
    <2> QED
      BY <1>3, <2>1, <2>2 DEF Acknowledged
  <1>11. /\ ProducerTypes' /\ QueuedInOrder' /\ StoredFromFront' /\ NotSentYet'
         /\ OneProducer' /\ CallsInOrder'
    BY <1>2, <1>8, DeliverKeeps
  <1> QED
    BY <1>9, <1>10, <1>11 DEF ProducerInv

LEMMA CssDeliveredInv ==
    ASSUME ProducerInv, NEW p \in Made, CssDelivered(p)
    PROVE  ProducerInv'
  <1>1. KafkaTypeOK /\ ProducerTypes /\ ProducerTypeOK
    BY DEF ProducerInv, ProducerTypes
  <1>2. /\ Css /\ Busy(p) /\ outbox' = [outbox EXCEPT ![p] = Tail(@)]
        /\ UNCHANGED <<setting, committed, send, using, listed, overwritten, sentAfter>>
    BY DEF CssDelivered
  <1>3. Head(outbox[p]) = outbox[p][1]
    BY <1>1, <1>2, TailFacts
  <1>4. \/ log' = log \o <<outbox[p][1]>> /\ faults' = faults
        \/ log' = log /\ Failure("ack")
    BY <1>3 DEF CssDelivered, Store
  <1>5. Delivers(p)
    BY <1>1, <1>2, <1>4 DEF Delivers, ProducerTypeOK
  <1>6. Acknowledged'
    BY <1>2 DEF Acknowledged, Css
  <1>7. KafkaTypeOK'
    BY <1>5, DeliverFacts
  <1>8. /\ ProducerTypes' /\ QueuedInOrder' /\ StoredFromFront' /\ NotSentYet'
        /\ OneProducer' /\ CallsInOrder'
    BY <1>5, DeliverKeeps
  <1> QED
    BY <1>6, <1>7, <1>8 DEF ProducerInv

--------------------------------------------------------------------------------
(* A batch, or what there is room for, goes to a queue *)

Queues(r, p, k) ==
    /\ setting.producer \in {"rdkafka", "css"}
    /\ send[r].state = IF Css THEN "sending" ELSE "idle"
    /\ Css => using[r] = p
    /\ Len(outbox[p]) + k <= QueueSize
    /\ Queue(p, SubSeq(Batched(r), 1, k))
    /\ UNCHANGED <<kafkaVars, using, listed, overwritten>>
    /\ send' \in [Request -> [state : SendState, acks : Nat]]
    /\ \A x \in Request : x # r => send'[x] = send[x]
    /\ IF Css THEN send'[r].state \in {"resolved", "rejected"}
       ELSE \/ send'[r].state = "rejected"
            \/ send'[r].state = "sending" /\ send'[r].acks = k /\ k = setting.sends[r] /\ k > 0
    /\ IF Css THEN sentAfter' = sentAfter ELSE Comes(r)

LEMMA QueuesFacts ==
    ASSUME ProducerInv, NEW r \in Request, NEW p \in Made, NEW k \in 0..setting.sends[r],
           Queues(r, p, k), NEW l, l = Len(outbox[p])
    PROVE  /\ l \in Nat /\ \A j \in DOMAIN outbox[p] : j <= l
           /\ \A y \in Made : \A j \in DOMAIN outbox[y] :
                  j \in Nat /\ j >= 1 /\ j \in DOMAIN outbox'[y] /\ outbox'[y][j] = outbox[y][j]
           /\ \A y \in Made : \A j \in DOMAIN outbox'[y] :
                  \/ j \in DOMAIN outbox[y] /\ outbox'[y][j] = outbox[y][j]
                  \/ /\ y = p /\ j \in Nat /\ j > l /\ j - l \in 1..k
                     /\ IsOf(outbox'[y][j], r, j - l)
           /\ \A n \in 1..k : l + n \in DOMAIN outbox'[p] /\ IsOf(outbox'[p][l + n], r, n)
           /\ \A j \in DOMAIN log : log[j].from # r
           /\ \A y \in Made : \A j \in DOMAIN outbox[y] : outbox[y][j].from # r
           /\ Made' = Made /\ outbox' = [x \in Made' |-> outbox'[x]]
           /\ outbox'[p] \in Seq(Message) /\ Len(outbox'[p]) <= QueueSize
           /\ \A x \in Made : x # p => outbox'[x] = outbox[x]
  <1>1. KafkaTypeOK /\ ProducerTypes /\ NotSentYet /\ k \in Nat /\ setting.sends[r] \in Nat
    BY ProducerFacts DEF ProducerInv
  <1>2. PICK messages \in Seq(Message) :
            /\ messages = SubSeq(Batched(r), 1, k) /\ Len(messages) = k
            /\ \A n \in 1..k : IsOf(messages[n], r, n)
    BY <1>1, BatchFacts
  <1>3. Queue(p, messages) /\ Len(outbox[p]) + k <= QueueSize
    BY <1>2 DEF Queues
  <1>4. /\ Made' = Made /\ outbox' = [x \in Made' |-> outbox'[x]]
        /\ \A x \in Made : x # p => outbox'[x] = outbox[x]
        /\ outbox'[p] \in Seq(Message) /\ Len(outbox'[p]) = Len(outbox[p]) + Len(messages)
        /\ outbox[p] \in Seq(Message) /\ Len(outbox[p]) \in Nat /\ DOMAIN outbox[p] = 1..Len(outbox[p])
        /\ DOMAIN outbox'[p] = 1..(Len(outbox[p]) + Len(messages))
        /\ \A i \in 1..Len(outbox[p]) : outbox'[p][i] = outbox[p][i]
        /\ \A i \in 1..Len(messages) : outbox'[p][Len(outbox[p]) + i] = messages[i]
        /\ \A i \in DOMAIN outbox'[p] : i \in 1..Len(outbox[p]) \/
               (i - Len(outbox[p]) \in 1..Len(messages)
                /\ outbox'[p][i] = messages[i - Len(outbox[p])])
    BY <1>1, <1>3, QueueFacts
  <1>5. \A y \in Made : outbox[y] \in Seq(Message)
    BY <1>1 DEF ProducerTypes, ProducerTypeOK
  <1>6. ASSUME NEW y \in Made, NEW j \in DOMAIN outbox[y]
        PROVE  j \in Nat /\ j >= 1 /\ j \in DOMAIN outbox'[y] /\ outbox'[y][j] = outbox[y][j]
    <2>1. j \in Nat /\ j >= 1
      BY <1>5
    <2>2. CASE y = p
      BY <1>1, <1>2, <1>4, <2>1, <2>2
    <2>3. CASE y # p
      BY <1>4, <2>1, <2>3
    <2> QED
      BY <2>2, <2>3
  <1>7. ASSUME NEW y \in Made, NEW j \in DOMAIN outbox'[y], j \notin DOMAIN outbox[y]
        PROVE  y = p /\ j \in Nat /\ j > l /\ j - l \in 1..k /\ IsOf(outbox'[y][j], r, j - l)
    <2>1. y = p
      BY <1>4, <1>7
    <2>2. j \in 1..(l + k) /\ j \notin 1..l /\ l \in Nat
      BY <1>2, <1>4, <1>7, <2>1
    <2>3. j - l \in 1..k /\ outbox'[p][j] = messages[j - l]
      BY <1>1, <1>2, <1>4, <2>1, <2>2
    <2> QED
      BY <1>2, <2>1, <2>2, <2>3
  <1>8. \A n \in 1..k : l + n \in DOMAIN outbox'[p] /\ IsOf(outbox'[p][l + n], r, n)
    <2> SUFFICES ASSUME NEW n \in 1..k
                 PROVE  l + n \in DOMAIN outbox'[p] /\ IsOf(outbox'[p][l + n], r, n)
      OBVIOUS
    <2>1. l + n \in 1..(l + k) /\ n \in 1..Len(messages)
      BY <1>1, <1>2, <1>4
    <2>2. outbox'[p][l + n] = messages[n]
      BY <1>4, <2>1
    <2>3. l + n \in DOMAIN outbox'[p]
      BY <1>2, <1>4, <2>1
    <2> QED
      BY <1>2, <2>2, <2>3
  <1>9. Unsent(r)
    BY DEF Unsent, Queues, Css
  <1>10. Len(outbox'[p]) <= QueueSize /\ l \in Nat /\ \A j \in DOMAIN outbox[p] : j <= l
    BY <1>2, <1>3, <1>4
  <1>11. \A y \in Made : \A j \in DOMAIN outbox'[y] :
             \/ j \in DOMAIN outbox[y] /\ outbox'[y][j] = outbox[y][j]
             \/ /\ y = p /\ j \in Nat /\ j > l /\ j - l \in 1..k
                /\ IsOf(outbox'[y][j], r, j - l)
    BY <1>6, <1>7
  <1> QED
    BY <1>1, <1>4, <1>6, <1>8, <1>9, <1>10, <1>11 DEF NotSentYet

LEMMA QueuesInv ==
    ASSUME ProducerInv, NEW r \in Request, NEW p \in Made, NEW k \in 0..setting.sends[r],
           Queues(r, p, k)
    PROVE  ProducerInv'
  <1>1. /\ KafkaTypeOK /\ ProducerTypes /\ ProducerTypeOK /\ QueuedInOrder /\ Acknowledged
        /\ StoredFromFront /\ NotSentYet /\ OneProducer /\ CallsInOrder /\ SentInOrder
        /\ setting.sends[r] \in Nat /\ k \in Nat
    BY ProducerFacts DEF ProducerInv, ProducerTypes, CallsInOrder
  <1>2. PICK l : l = Len(outbox[p])
    OBVIOUS
  <1>3. /\ l \in Nat /\ \A j \in DOMAIN outbox[p] : j <= l
        /\ \A y \in Made : \A j \in DOMAIN outbox[y] :
               j \in Nat /\ j >= 1 /\ j \in DOMAIN outbox'[y] /\ outbox'[y][j] = outbox[y][j]
        /\ \A y \in Made : \A j \in DOMAIN outbox'[y] :
               \/ j \in DOMAIN outbox[y] /\ outbox'[y][j] = outbox[y][j]
               \/ /\ y = p /\ j \in Nat /\ j > l /\ j - l \in 1..k
                  /\ IsOf(outbox'[y][j], r, j - l)
        /\ \A n \in 1..k : l + n \in DOMAIN outbox'[p] /\ IsOf(outbox'[p][l + n], r, n)
    BY <1>2, QueuesFacts
  <1>4. /\ \A j \in DOMAIN log : log[j].from # r
        /\ \A y \in Made : \A j \in DOMAIN outbox[y] : outbox[y][j].from # r
        /\ Made' = Made /\ outbox' = [x \in Made' |-> outbox'[x]]
        /\ outbox'[p] \in Seq(Message) /\ Len(outbox'[p]) <= QueueSize
        /\ \A x \in Made : x # p => outbox'[x] = outbox[x]
    BY <1>2, QueuesFacts
  <1>5. /\ setting.producer \in {"rdkafka", "css"}
        /\ send[r].state = IF Css THEN "sending" ELSE "idle"
        /\ Css => using[r] = p
        /\ UNCHANGED <<setting, log, committed, faults, using, listed, overwritten>>
        /\ send' \in [Request -> [state : SendState, acks : Nat]]
        /\ \A x \in Request : x # r => send'[x] = send[x]
        /\ IF Css THEN send'[r].state \in {"resolved", "rejected"}
           ELSE \/ send'[r].state = "rejected"
                \/ send'[r].state = "sending" /\ send'[r].acks = k /\ k = setting.sends[r] /\ k > 0
    BY DEF Queues, kafkaVars
  <1>6. /\ sentAfter \subseteq sentAfter'
        /\ \A s, x \in Request : <<s, x>> \in sentAfter' => <<s, x>> \in sentAfter \/ (x = r /\ Resolved(s))
        /\ sentAfter' \subseteq Request \X Request
    <2>1. sentAfter' = sentAfter \/ Comes(r)
      BY DEF Queues
    <2>2. sentAfter \subseteq Request \X Request
      BY <1>1 DEF ProducerTypeOK
    <2> QED
      BY <2>1, <2>2 DEF Comes
  <1>7. \A n, x : In(x, n)' <=> In(x, n)
    BY <1>5 DEF In
  <1>8. KafkaTypeOK'
    BY <1>1, <1>5 DEF KafkaTypeOK
  <1>9. ProducerTypes'
    <2>1. ProducerTypeOK'
      BY <1>1, <1>4, <1>5, <1>6 DEF ProducerTypeOK
    <2>2. AllOwn'
      <3>1. \A i \in DOMAIN log' : Own(log[i])' \/ log'[i].from = "others"
        BY <1>1, <1>5 DEF ProducerTypes, AllOwn, Own
      <3>2. ASSUME NEW y \in Made, NEW j \in DOMAIN outbox'[y]
            PROVE  Own(outbox[y][j])'
        <4>1. CASE j \in DOMAIN outbox[y] /\ outbox'[y][j] = outbox[y][j]
          BY <1>1, <1>5, <4>1 DEF ProducerTypes, AllOwn, Own
        <4>2. CASE j - l \in 1..k /\ IsOf(outbox'[y][j], r, j - l)
          BY <1>1, <1>5, <4>2 DEF IsOf, Own
        <4> QED
          BY <1>3, <4>1, <4>2
      <3> QED
        BY <1>4, <3>1, <3>2 DEF AllOwn
    <2>3. ProducersMade'
      BY <1>1, <1>4, <1>5 DEF ProducerTypes, ProducersMade, Css
    <2>4. StatesFit'
      <3>1. StatesFit
        BY <1>1 DEF ProducerTypes
      <3>2. ~Css' => \A x \in Request : send'[x].state # "connecting"
        BY <1>5, <3>1 DEF StatesFit, Css
      <3>3. Css' => \A x \in Request : send'[x].state = "sending" => using'[x] \in Made'
        BY <1>4, <1>5, <3>1 DEF StatesFit, Css
      <3>4. setting'.producer = "rdkafka" => \A x \in Request :
                send'[x].state = "sending" => send'[x].acks \in 1..setting'.sends[x]
        BY <1>1, <1>5, <3>1 DEF StatesFit, Css
      <3> QED
        BY <3>2, <3>3, <3>4 DEF StatesFit
    <2> QED
      BY <2>1, <2>2, <2>3, <2>4 DEF ProducerTypes
  <1>10. QueuedInOrder'
    <2> SUFFICES ASSUME NEW y \in Made, NEW i \in DOMAIN outbox'[y], NEW j \in DOMAIN outbox'[y],
                        i < j, outbox'[y][i].from = outbox'[y][j].from
                 PROVE  outbox'[y][i].n < outbox'[y][j].n
      BY <1>4 DEF QueuedInOrder
    <2>1. CASE i \in DOMAIN outbox[y] /\ j \in DOMAIN outbox[y]
      BY <1>1, <1>3, <2>1 DEF QueuedInOrder
    <2>2. CASE i \notin DOMAIN outbox[y] /\ j \notin DOMAIN outbox[y]
      BY <1>3, <2>2 DEF IsOf
    <2>3. CASE i \in DOMAIN outbox[y] /\ j \notin DOMAIN outbox[y]
      BY <1>3, <1>4, <2>3 DEF IsOf
    <2>4. CASE i \notin DOMAIN outbox[y] /\ j \in DOMAIN outbox[y]
      BY <1>3, <2>4
    <2> QED
      BY <2>1, <2>2, <2>3, <2>4
  <1>11. Acknowledged'
    <2>1. ASSUME NEW x \in Request, Resolved(x)', ~Css, NEW n \in 1..setting.sends[x]
          PROVE  In(x, n)
      BY <1>1, <1>5, <2>1 DEF Acknowledged, Resolved
    <2>2. ASSUME setting.producer = "rdkafka", NEW x \in Request, send'[x].state = "sending"
          PROVE  UnderWay(x)'
      <3>1. Made = {1} /\ p = 1 /\ ~Css
        BY <1>1, <2>2 DEF ProducerTypes, ProducersMade, Css
      <3>2. CASE x = r
        <4>1. /\ \A j \in DOMAIN outbox'[1] : outbox'[1][j].from = r => outbox'[1][j].n > 0
              /\ \A n \in 1..setting.sends[r] : \E j \in DOMAIN outbox'[1] : IsOf(outbox'[1][j], r, n)
          BY <1>3, <1>4, <1>5, <2>2, <3>1, <3>2 DEF IsOf
        <4>2. Got(r)' = 0
          BY <1>1, <1>5, <2>2, <3>1, <3>2 DEF Got
        <4> QED
          BY <1>5, <3>2, <4>1, <4>2 DEF UnderWay
      <3>3. CASE x # r
        <4>1. UnderWay(x) /\ Got(x)' = Got(x)
          BY <1>1, <1>5, <2>2, <3>3 DEF Acknowledged, Got
        <4>2. \A j \in DOMAIN outbox'[1] : outbox'[1][j].from = x => outbox'[1][j].n > Got(x)
          BY <1>3, <3>1, <3>3, <4>1 DEF UnderWay, IsOf
        <4>3. \A n \in (Got(x) + 1)..setting.sends[x] : \E j \in DOMAIN outbox'[1] : IsOf(outbox'[1][j], x, n)
          BY <1>3, <3>1, <4>1 DEF UnderWay
        <4> QED
          BY <1>5, <1>7, <4>1, <4>2, <4>3 DEF UnderWay
      <3> QED
        BY <3>2, <3>3
    <2> QED
      BY <1>5, <1>7, <2>1, <2>2 DEF Acknowledged, Css
  <1>12. StoredFromFront'
    <2> SUFFICES ASSUME "ack" \notin faults.kinds, NEW x \in Request,
                        NEW n \in 1..setting.sends[x], NEW m \in 1..(n - 1)
                 PROVE  /\ In(x, n) => In(x, m)
                        /\ \A y \in Made : \A j \in DOMAIN outbox'[y] :
                               IsOf(outbox'[y][j], x, n) =>
                                   In(x, m) \/ \E i \in 1..(j - 1) : IsOf(outbox'[y][i], x, m)
      BY <1>4, <1>5, <1>7 DEF StoredFromFront
    <2>1. /\ In(x, n) => In(x, m)
          /\ \A y \in Made : \A j \in DOMAIN outbox[y] :
                 IsOf(outbox[y][j], x, n) =>
                     In(x, m) \/ \E i \in 1..(j - 1) : IsOf(outbox[y][i], x, m)
      BY <1>1 DEF StoredFromFront
    <2>2. ASSUME NEW y \in Made, NEW j \in DOMAIN outbox'[y], IsOf(outbox'[y][j], x, n), ~In(x, m)
          PROVE  \E i \in 1..(j - 1) : IsOf(outbox'[y][i], x, m)
      <3>1. CASE j \in DOMAIN outbox[y] /\ outbox'[y][j] = outbox[y][j]
        <4>1. PICK i \in 1..(j - 1) : IsOf(outbox[y][i], x, m)
          BY <2>1, <2>2, <3>1
        <4>2. i \in DOMAIN outbox[y]
          <5>1. outbox[y] \in Seq(Message)
            BY <1>1 DEF ProducerTypeOK
          <5> QED
            BY <3>1, <4>1, <5>1
        <4> QED
          BY <1>3, <4>1, <4>2
      <3>2. CASE y = p /\ j \in Nat /\ j > l /\ j - l \in 1..k /\ IsOf(outbox'[y][j], r, j - l)
        <4>1. x = r /\ n = j - l
          BY <2>2, <3>2 DEF IsOf
        <4>2. m \in 1..k /\ l + m \in 1..(j - 1)
          BY <1>1, <1>3, <3>2, <4>1
        <4>3. IsOf(outbox'[p][l + m], r, m)
          BY <1>3, <4>2
        <4> QED
          BY <3>2, <4>1, <4>2, <4>3
      <3> QED
        BY <1>3, <3>1, <3>2
    <2> QED
      BY <2>1, <2>2
  <1>13. NotSentYet'
    <2> SUFFICES ASSUME NEW x \in Request, Unsent(x)'
                 PROVE  /\ \A i \in DOMAIN log : log[i].from # x
                        /\ \A y \in Made : \A j \in DOMAIN outbox'[y] : outbox'[y][j].from # x
      BY <1>4, <1>5 DEF NotSentYet
    <2>1. x # r /\ Unsent(x)
      BY <1>5 DEF Unsent, Css
    <2> QED
      BY <1>1, <1>3, <2>1 DEF NotSentYet, IsOf
  <1>14. OneProducer'
    BY <1>1, <1>4, <1>5 DEF OneProducer, Busy, Css
  <1>15. CallsInOrder'
    <2>1. \A s, x \in Request : <<s, x>> \in sentAfter' =>
              /\ Resolved(s) /\ s # r /\ Resolved(s)' /\ send'[x].state # "idle"
              /\ <<s, x>> \in sentAfter \/ x = r
      BY <1>1, <1>5, <1>6 DEF CallsInOrder, Resolved, Css
    <2>2. SentInOrder'
      BY <1>1, <1>4, <1>5, <2>1 DEF SentInOrder
    <2>3. ASSUME overwritten = {}, NEW s \in Request, NEW x \in Request, <<s, x>> \in sentAfter',
                 NEW y \in Made, NEW i \in DOMAIN outbox'[y], outbox'[y][i].from = s
          PROVE  /\ \A j \in DOMAIN log : log[j].from # x
                 /\ \A j \in DOMAIN outbox'[y] : outbox'[y][j].from = x => i < j
      <3>1. i \in DOMAIN outbox[y] /\ outbox[y][i].from = s
        BY <1>3, <2>1, <2>3 DEF IsOf
      <3>2. CASE x = r
        <4>1. \A j \in DOMAIN outbox'[y] : outbox'[y][j].from = r => j > l /\ y = p
          BY <1>3, <1>4
        <4>2. y = p => i <= l /\ i \in Nat
          BY <1>3, <3>1
        <4>3. ASSUME NEW j \in DOMAIN outbox'[y], outbox'[y][j].from = r
              PROVE  i < j
          <5>1. j > l /\ y = p /\ i <= l /\ i \in Nat
            BY <4>1, <4>2, <4>3
          <5>2. j \in Nat
            BY <1>3, <4>3, <5>1
          <5> QED
            BY <1>3, <5>1, <5>2
        <4> QED
          BY <1>4, <3>2, <4>3
      <3>3. CASE x # r
        <4>1. <<s, x>> \in sentAfter
          BY <2>1, <2>3, <3>3
        <4>2. /\ \A j \in DOMAIN log : log[j].from # x
              /\ \A j \in DOMAIN outbox[y] : outbox[y][j].from = x => i < j
          BY <1>1, <2>3, <3>1, <4>1 DEF CallsInOrder
        <4> QED
          BY <1>3, <3>3, <4>2 DEF IsOf
      <3> QED
        BY <3>2, <3>3
    <2> QED
      BY <1>4, <1>5, <2>1, <2>2, <2>3 DEF CallsInOrder
  <1> QED
    BY <1>8, <1>9, <1>10, <1>11, <1>12, <1>13, <1>14, <1>15 DEF ProducerInv

LEMMA RdkafkaSendInv ==
    ASSUME ProducerInv, NEW r \in Request, RdkafkaSend(r)
    PROVE  ProducerInv'
  <1>1. KafkaTypeOK /\ ProducerTypes /\ ProducerTypeOK
    BY DEF ProducerInv, ProducerTypes
  <1>2. setting.producer = "rdkafka" /\ ~Css /\ 1 \in Made
    BY <1>1 DEF RdkafkaSend, ProducerTypes, ProducersMade, Css
  <1>3. setting.sends[r] \in Nat /\ Len(Batched(r)) = setting.sends[r] /\ QueueSize \in Nat
    <2>1. setting.sends[r] \in Nat /\ QueueSize \in Nat
      BY <1>1, ProducerFacts
    <2>2. PICK k \in 0..setting.sends[r] : k = 0
      BY <2>1
    <2> QED
      BY <1>1, <2>1, <2>2, BatchFacts
  <1>4. PICK room : room = QueueSize - Len(outbox[1])
    OBVIOUS
  <1>5. room \in Nat /\ Len(outbox[1]) + room = QueueSize /\ Len(outbox[1]) \in Nat
    <2>1. outbox[1] \in Seq(Message) /\ Len(outbox[1]) <= QueueSize
      BY <1>1, <1>2 DEF ProducerTypeOK
    <2>2. Len(outbox[1]) \in Nat
      BY <2>1
    <2> QED
      BY <1>3, <1>4, <2>1, <2>2
  <1>6. PICK k : k = IF setting.sends[r] < room THEN setting.sends[r] ELSE room
    OBVIOUS
  <1>7. /\ k \in 0..setting.sends[r] /\ Len(outbox[1]) + k <= QueueSize
        /\ setting.sends[r] <= room => k = setting.sends[r]
    BY <1>3, <1>5, <1>6
  <1>8. /\ send[r].state = "idle" /\ setting.sends[r] > 0 /\ Comes(r)
        /\ Queue(1, SubSeq(Batched(r), 1, k))
        /\ Becomes(r, IF setting.sends[r] > room THEN "rejected" ELSE "sending", setting.sends[r])
        /\ UNCHANGED <<kafkaVars, using, listed, overwritten>>
    BY <1>3, <1>4, <1>6 DEF RdkafkaSend
  <1>9. /\ send' \in [Request -> [state : SendState, acks : Nat]]
        /\ \A x \in Request : x # r => send'[x] = send[x]
        /\ send'[r].state = (IF setting.sends[r] > room THEN "rejected" ELSE "sending")
        /\ send'[r].acks = setting.sends[r]
    <2>1. (IF setting.sends[r] > room THEN "rejected" ELSE "sending") \in SendState
      BY DEF SendState
    <2> QED
      BY <1>1, <1>3, <1>8, <2>1, BecomesFacts
  <1>10. \/ send'[r].state = "rejected"
         \/ send'[r].state = "sending" /\ send'[r].acks = k /\ k = setting.sends[r] /\ k > 0
    BY <1>3, <1>5, <1>7, <1>8, <1>9
  <1>11. Queues(r, 1, k)
    BY <1>2, <1>7, <1>8, <1>9, <1>10 DEF Queues
  <1> QED
    BY <1>2, <1>7, <1>11, QueuesInv

LEMMA SendMessageInv ==
    ASSUME ProducerInv, NEW r \in Request, SendMessage(r)
    PROVE  ProducerInv'
  <1>1. /\ KafkaTypeOK /\ ProducerTypes /\ ProducerTypeOK /\ StatesFit
        /\ setting.sends[r] \in Nat /\ QueueSize \in Nat
    BY ProducerFacts DEF ProducerInv, ProducerTypes
  <1>2. PICK p \in Made : p = using[r]
    BY <1>1 DEF SendMessage, StatesFit
  <1>3. PICK k : k = IF Len(outbox[p]) + setting.sends[r] <= QueueSize THEN setting.sends[r] ELSE 0
    OBVIOUS
  <1>4. /\ outbox[p] \in Seq(Message) /\ Len(outbox[p]) \in Nat /\ Len(outbox[p]) <= QueueSize
        /\ outbox = [x \in Made |-> outbox[x]]
    BY <1>1 DEF ProducerTypeOK, ProducerTypes, ProducersMade
  <1>5. k \in 0..setting.sends[r] /\ Len(outbox[p]) + k <= QueueSize
    BY <1>1, <1>3, <1>4
  <1>6. /\ Css /\ send[r].state = "sending"
        /\ IF Len(outbox[p]) + setting.sends[r] <= QueueSize THEN Queue(p, Batched(r)) ELSE outbox' = outbox
        /\ Becomes(r, IF Len(outbox[p]) + setting.sends[r] <= QueueSize THEN "resolved" ELSE "rejected", 0)
        /\ UNCHANGED <<kafkaVars, using, listed, overwritten, sentAfter>>
    BY <1>2 DEF SendMessage
  <1>7. Queue(p, SubSeq(Batched(r), 1, k))
    <2>1. CASE Len(outbox[p]) + setting.sends[r] <= QueueSize
      <3>1. Batched(r) \in Seq(Message) /\ Len(Batched(r)) = k
        BY <1>1, <1>3, <1>5, <2>1, BatchFacts
      <3>2. SubSeq(Batched(r), 1, k) = Batched(r)
        BY <3>1
      <3> QED
        BY <1>6, <2>1, <3>2
    <2>2. CASE ~(Len(outbox[p]) + setting.sends[r] <= QueueSize)
      <3>1. SubSeq(Batched(r), 1, k) = <<>>
        BY <1>3, <2>2
      <3>2. outbox[p] \o <<>> = outbox[p]
        BY <1>4
      <3>3. outbox' = [outbox EXCEPT ![p] = outbox[p]]
        BY <1>4, <1>6, <2>2
      <3> QED
        BY <3>1, <3>2, <3>3 DEF Queue
    <2> QED
      BY <2>1, <2>2
  <1>8. /\ send' \in [Request -> [state : SendState, acks : Nat]]
        /\ \A x \in Request : x # r => send'[x] = send[x]
        /\ send'[r].state \in {"resolved", "rejected"}
    <2>1. PICK state \in {"resolved", "rejected"} : Becomes(r, state, 0)
      BY <1>6
    <2>2. state \in SendState
      BY DEF SendState
    <2> QED
      BY <1>1, <2>1, <2>2, BecomesFacts
  <1>9. Queues(r, p, k)
    BY <1>2, <1>5, <1>6, <1>7, <1>8 DEF Queues, Css
  <1> QED
    BY <1>5, <1>9, QueuesInv

--------------------------------------------------------------------------------
(* A call that queues nothing yet *)

Calls(r) ==
    /\ setting.producer # "rdkafka" /\ send[r].state = "idle"
    /\ Comes(r)
    /\ UNCHANGED <<kafkaVars, listed, outbox, overwritten>>
    /\ send' \in [Request -> [state : SendState, acks : Nat]]
    /\ \A x \in Request : x # r => send'[x] = send[x]
    /\ using' \in [Request -> Made \union {0}]
    /\ \A x \in Request : x # r => using'[x] = using[x]
    /\ send'[r].state = IF Css /\ listed = 0 THEN "connecting" ELSE "sending"
    /\ Css => using'[r] = listed

LEMMA CallsInv ==
    ASSUME ProducerInv, NEW r \in Request, Calls(r)
    PROVE  ProducerInv'
  <1>1. /\ KafkaTypeOK /\ ProducerTypes /\ ProducerTypeOK /\ ProducersMade /\ StatesFit /\ AllOwn
        /\ QueuedInOrder /\ Acknowledged
        /\ StoredFromFront /\ NotSentYet /\ OneProducer /\ CallsInOrder /\ SentInOrder
    BY DEF ProducerInv, ProducerTypes, CallsInOrder
  <1>2. /\ setting.producer # "rdkafka" /\ send[r].state = "idle"
        /\ UNCHANGED <<setting, log, committed, faults, listed, outbox, overwritten>>
        /\ send' \in [Request -> [state : SendState, acks : Nat]]
        /\ \A x \in Request : x # r => send'[x] = send[x]
        /\ using' \in [Request -> Made \union {0}]
        /\ \A x \in Request : x # r => using'[x] = using[x]
        /\ send'[r].state = IF Css /\ listed = 0 THEN "connecting" ELSE "sending"
        /\ Css => using'[r] = listed
    BY DEF Calls, kafkaVars
  <1>3. /\ \A s, x \in Request : <<s, x>> \in sentAfter' => <<s, x>> \in sentAfter \/ (x = r /\ Resolved(s))
        /\ sentAfter' \subseteq Request \X Request
    BY <1>1 DEF Calls, Comes, ProducerTypeOK
  <1>4. Made' = Made /\ \A x, n : In(x, n)' <=> In(x, n)
    BY <1>2 DEF Made, In
  <1>5. KafkaTypeOK'
    BY <1>1, <1>2 DEF KafkaTypeOK
  <1>6. ProducerTypes'
    <2>1. ProducerTypeOK'
      BY <1>1, <1>2, <1>3, <1>4 DEF ProducerTypeOK
    <2>2. ProducersMade'
      BY <1>1, <1>2, <1>4 DEF ProducersMade, Css
    <2>3. StatesFit'
      <3>1. ~Css' => \A x \in Request : send'[x].state # "connecting"
        BY <1>1, <1>2 DEF StatesFit, Css
      <3>2. Css' => \A x \in Request : send'[x].state = "sending" => using'[x] \in Made'
        BY <1>1, <1>2, <1>4 DEF StatesFit, Css, ProducerTypeOK
      <3> QED
        BY <1>2, <3>1, <3>2 DEF StatesFit
    <2>4. AllOwn'
      BY <1>1, <1>2, <1>4 DEF AllOwn, Own
    <2> QED
      BY <2>1, <2>2, <2>3, <2>4 DEF ProducerTypes
  <1>7. QueuedInOrder' /\ StoredFromFront'
    BY <1>1, <1>2, <1>4 DEF QueuedInOrder, StoredFromFront
  <1>8. Acknowledged'
    BY <1>1, <1>2, <1>4 DEF Acknowledged, Resolved, Css
  <1>9. NotSentYet'
    BY <1>1, <1>2, <1>4 DEF NotSentYet, Unsent
  <1>10. OneProducer'
    BY <1>1, <1>2, <1>4 DEF OneProducer, Busy, Css
  <1>11. CallsInOrder'
    <2>1. \A s, x \in Request : <<s, x>> \in sentAfter' =>
              /\ Resolved(s) /\ Resolved(s)' /\ send'[x].state # "idle"
              /\ <<s, x>> \in sentAfter \/ x = r
      BY <1>1, <1>2, <1>3 DEF CallsInOrder, Resolved
    <2>2. /\ \A j \in DOMAIN log : log[j].from # r
          /\ \A y \in Made : \A j \in DOMAIN outbox[y] : outbox[y][j].from # r
      BY <1>1, <1>2 DEF NotSentYet, Unsent
    <2>3. SentInOrder'
      BY <1>1, <1>2, <2>1, <2>2 DEF SentInOrder
    <2> QED
      BY <1>1, <1>2, <1>4, <2>1, <2>2, <2>3 DEF CallsInOrder
  <1> QED
    BY <1>5, <1>6, <1>7, <1>8, <1>9, <1>10, <1>11 DEF ProducerInv

LEMMA CallInv ==
    ASSUME ProducerInv, NEW r \in Request, Call(r)
    PROVE  ProducerInv'
  <1>1. KafkaTypeOK /\ ProducerTypeOK
    BY DEF ProducerInv, ProducerTypes
  <1>2. ASSUME NEW kind \in {"generic", "kafkajs"}, Send(kind, r)
        PROVE  ProducerInv'
    <2>1. Len(Batched(r)) \in Nat
      <3>1. setting.sends[r] \in Nat
        BY <1>1, ProducerFacts
      <3>2. PICK k \in 0..setting.sends[r] : k = 0
        BY <3>1
      <3> QED
        BY <1>1, <3>1, <3>2, BatchFacts
    <2>2. /\ send' \in [Request -> [state : SendState, acks : Nat]]
          /\ send'[r].state = "sending"
          /\ \A x \in Request : x # r => send'[x] = send[x]
      <3>1. "sending" \in SendState
        BY DEF SendState
      <3> QED
        BY <1>1, <1>2, <2>1, <3>1, BecomesFacts DEF Send
    <2>3. Calls(r)
      BY <1>1, <1>2, <2>2 DEF Send, Calls, ProducerTypeOK, Css
    <2> QED
      BY <2>3, CallsInv
  <1>3. ASSUME Css, GetProducer(r)
        PROVE  ProducerInv'
    <2>1. PICK state \in {"sending", "connecting"} :
              /\ Becomes(r, state, 0) /\ state = (IF listed = 0 THEN "connecting" ELSE "sending")
              /\ using' = [using EXCEPT ![r] = listed]
      BY <1>3 DEF GetProducer
    <2>2. state \in SendState
      BY DEF SendState
    <2>3. /\ send' \in [Request -> [state : SendState, acks : Nat]]
          /\ send'[r].state = state
          /\ \A x \in Request : x # r => send'[x] = send[x]
      BY <1>1, <2>1, <2>2, BecomesFacts
    <2>4. /\ using' \in [Request -> Made \union {0}] /\ using'[r] = listed
          /\ \A x \in Request : x # r => using'[x] = using[x]
      BY <1>1, <2>1 DEF ProducerTypeOK
    <2>5. Calls(r)
      BY <1>3, <2>1, <2>3, <2>4 DEF GetProducer, Calls, Css
    <2> QED
      BY <2>5, CallsInv
  <1> QED
    BY <1>2, <1>3, RdkafkaSendInv DEF Call, GenericSend, KafkajsSend, ProduceMessage, ConnectAll

--------------------------------------------------------------------------------
(* What is left of the producers' steps *)

LEMMA GenericSentInv ==
    ASSUME ProducerInv, NEW r \in Request, GenericSent(r)
    PROVE  ProducerInv'
  <1>1. /\ KafkaTypeOK /\ ProducerTypes /\ ProducerTypeOK /\ ProducersMade /\ StatesFit /\ AllOwn
        /\ QueuedInOrder /\ Acknowledged
        /\ StoredFromFront /\ NotSentYet /\ OneProducer /\ CallsInOrder /\ SentInOrder
        /\ setting.sends[r] \in Nat
    BY ProducerFacts DEF ProducerInv, ProducerTypes, CallsInOrder
  <1>2. /\ setting.producer \in {"generic", "kafkajs"} /\ send[r].state = "sending"
        /\ UNCHANGED <<setting, committed, using, listed, outbox, overwritten, sentAfter>>
    BY DEF GenericSent
  <1>3. Made' = Made /\ Made = {1} /\ ~Css /\ \A y \in Made : DOMAIN outbox[y] = {} /\ DOMAIN outbox'[y] = {}
    BY <1>1, <1>2 DEF Made, ProducersMade, Css
  <1>4. PICK state \in {"resolved", "rejected"} :
            /\ Becomes(r, state, 0)
            /\ state = "resolved" => log' = log \o Batched(r)
            /\ log' = log \o Batched(r) \/ log' = log
            /\ faults' = faults \/ Failure("ack")
    BY DEF GenericSent, Store
  <1>5. /\ send' \in [Request -> [state : SendState, acks : Nat]] /\ send'[r].state = state
        /\ \A x \in Request : x # r => send'[x] = send[x]
    <2>1. state \in SendState
      BY DEF SendState
    <2> QED
      BY <1>1, <1>4, <2>1, BecomesFacts
  <1>6. PICK messages \in Seq(Message) :
            /\ log' = log \o messages
            /\ \A n \in 1..Len(messages) : n \in 1..setting.sends[r] /\ IsOf(messages[n], r, n)
            /\ messages = <<>> \/ Len(messages) = setting.sends[r]
            /\ state = "resolved" => Len(messages) = setting.sends[r]
    <2>1. PICK k \in 0..setting.sends[r] : k = 0
      BY <1>1
    <2>2. /\ Len(Batched(r)) = setting.sends[r] /\ Batched(r) \in Seq(Message)
          /\ \A n \in 1..setting.sends[r] : IsOf(Batched(r)[n], r, n)
      BY <1>1, <2>1, BatchFacts
    <2>3. CASE log' = log \o Batched(r)
      BY <2>2, <2>3
    <2>4. CASE log' = log /\ state # "resolved"
      <3>1. <<>> \in Seq(Message) /\ Len(<<>>) = 0
        OBVIOUS
      <3>2. log \o <<>> = log
        BY <1>1, ProducerFacts
      <3>3. log' = log \o <<>> /\ \A n \in 1..Len(<<>>) : FALSE
        BY <2>4, <3>1, <3>2
      <3>4. PICK messages \in Seq(Message) : messages = <<>>
        BY <3>1
      <3> QED
        BY <2>4, <3>3, <3>4
    <2> QED
      BY <1>4, <2>3, <2>4
  <1>7. /\ KafkaTypeOK'
        /\ \A i \in 1..Len(log) : log'[i] = log[i]
        /\ \A i \in DOMAIN log' : i \in 1..Len(log) \/
               (i - Len(log) \in 1..Len(messages) /\ log'[i] = messages[i - Len(log)])
        /\ \A x, n : In(x, n)' <=> In(x, n) \/ \E i \in 1..Len(messages) : IsOf(messages[i], x, n)
        /\ DOMAIN log' = 1..(Len(log) + Len(messages))
    BY <1>1, <1>2, <1>4, <1>6, StoreFacts
  <1>8. /\ \A i \in DOMAIN log' :
               \/ i \in DOMAIN log /\ log'[i] = log[i]
               \/ /\ i \in Nat /\ i > Len(log) /\ log'[i].from = r
                  /\ log'[i].form = "subscribed" /\ log'[i].n \in 1..setting.sends[r]
        /\ Len(log) \in Nat /\ DOMAIN log = 1..Len(log)
    <2>1. Len(log) \in Nat /\ DOMAIN log = 1..Len(log) /\ Len(messages) \in Nat
      BY <1>1, ProducerFacts
    <2>2. ASSUME NEW i \in DOMAIN log', i \notin 1..Len(log)
          PROVE  /\ i \in Nat /\ i > Len(log) /\ log'[i].from = r
                 /\ log'[i].form = "subscribed" /\ log'[i].n \in 1..setting.sends[r]
      <3>1. i \in Nat /\ i > Len(log)
        BY <1>7, <2>1, <2>2
      <3>2. i - Len(log) \in 1..Len(messages) /\ log'[i] = messages[i - Len(log)]
        BY <1>7, <2>2
      <3> QED
        BY <1>6, <3>1, <3>2 DEF IsOf
    <2> QED
      BY <1>7, <2>1, <2>2
  <1>9. /\ \A x \in Request : \A n : In(x, n) => In(x, n)'
        /\ \A x \in Request : \A n : In(x, n)' => In(x, n) \/ (x = r /\ \A k \in 1..setting.sends[r] : In(r, k)')
        /\ state = "resolved" => \A k \in 1..setting.sends[r] : In(r, k)'
    <2>1. Len(messages) = setting.sends[r] => \A k \in 1..setting.sends[r] : In(r, k)'
      BY <1>6, <1>7
    <2>2. ASSUME NEW x \in Request, NEW n, In(x, n)', ~In(x, n)
          PROVE  x = r /\ Len(messages) = setting.sends[r]
      <3>1. PICK i \in 1..Len(messages) : IsOf(messages[i], x, n)
        BY <1>7, <2>2
      <3>2. messages # <<>>
        BY <3>1
      <3> QED
        BY <1>6, <3>1, <3>2 DEF IsOf
    <2> QED
      BY <1>6, <1>7, <2>1, <2>2
  <1>10. ProducerTypes'
    <2>1. ProducerTypeOK'
      BY <1>1, <1>2, <1>3, <1>5 DEF ProducerTypeOK
    <2>2. ProducersMade'
      BY <1>1, <1>2, <1>3 DEF ProducersMade, Css
    <2>3. StatesFit'
      BY <1>1, <1>2, <1>3, <1>5 DEF StatesFit, Css
    <2>4. \A i \in DOMAIN log' : Own(log[i])' \/ log'[i].from = "others"
      BY <1>1, <1>2, <1>8 DEF AllOwn, Own
    <2>5. AllOwn'
      BY <1>3, <2>4 DEF AllOwn
    <2> QED
      BY <2>1, <2>2, <2>3, <2>5 DEF ProducerTypes
  <1>11. QueuedInOrder'
    BY <1>3 DEF QueuedInOrder
  <1>12. StoredFromFront'
    <2> SUFFICES ASSUME "ack" \notin faults'.kinds, NEW x \in Request,
                        NEW n \in 1..setting.sends[x], NEW m \in 1..(n - 1), In(x, n)'
                 PROVE  In(x, m)'
      BY <1>2, <1>3 DEF StoredFromFront
    <2>1. "ack" \notin faults.kinds
      BY <1>1, <1>4, FaultTypes
    <2>2. CASE In(x, n)
      BY <1>1, <1>9, <2>1, <2>2 DEF StoredFromFront
    <2>3. CASE x = r /\ \A k \in 1..setting.sends[r] : In(r, k)'
      BY <1>1, <2>3
    <2> QED
      BY <1>9, <2>2, <2>3
  <1>13. Acknowledged'
    <2>1. ASSUME NEW x \in Request, Resolved(x)', NEW n \in 1..setting.sends[x]
          PROVE  In(x, n)'
      BY <1>1, <1>3, <1>5, <1>9, <2>1 DEF Acknowledged, Resolved
    <2> QED
      BY <1>2, <2>1 DEF Acknowledged
  <1>14. NotSentYet'
    <2> SUFFICES ASSUME NEW x \in Request, Unsent(x)'
                 PROVE  \A i \in DOMAIN log' : log'[i].from # x
      BY <1>3 DEF NotSentYet
    <2>1. x # r /\ Unsent(x)
      BY <1>2, <1>5 DEF Unsent
    <2> QED
      BY <1>1, <1>8, <2>1 DEF NotSentYet
  <1>15. OneProducer'
    BY <1>2, <1>3 DEF OneProducer, Css
  <1>16. CallsInOrder'
    <2>1. \A s, x \in Request : <<s, x>> \in sentAfter =>
              /\ Resolved(s) /\ s # r /\ Resolved(s)' /\ send'[x].state # "idle"
      BY <1>1, <1>2, <1>5 DEF CallsInOrder, Resolved
    <2>2. SentInOrder'
      <3> SUFFICES ASSUME overwritten = {}, NEW s \in Request, NEW x \in Request,
                          <<s, x>> \in sentAfter, NEW i \in DOMAIN log', NEW j \in DOMAIN log',
                          log'[i].from = s, log'[j].from = x
                   PROVE  i < j
        BY <1>2 DEF SentInOrder
      <3>1. i \in DOMAIN log /\ log'[i] = log[i]
        BY <1>8, <2>1
      <3>2. CASE j \in DOMAIN log /\ log'[j] = log[j]
        BY <1>1, <3>1, <3>2 DEF SentInOrder
      <3>3. CASE j \in Nat /\ j > Len(log)
        BY <1>8, <3>1, <3>3
      <3> QED
        BY <1>8, <3>2, <3>3
    <2> QED
      BY <1>2, <1>3, <2>1, <2>2 DEF CallsInOrder
  <1> QED
    BY <1>7, <1>10, <1>11, <1>12, <1>13, <1>14, <1>15, <1>16 DEF ProducerInv

\* A producer is made: the later one takes the place in the list.
LEMMA ConnectedInv ==
    ASSUME ProducerInv, NEW r \in Request, Connected(r)
    PROVE  ProducerInv'
  <1>1. /\ KafkaTypeOK /\ ProducerTypes /\ ProducerTypeOK /\ ProducersMade /\ StatesFit /\ AllOwn
        /\ QueuedInOrder /\ Acknowledged
        /\ StoredFromFront /\ NotSentYet /\ OneProducer /\ CallsInOrder /\ SentInOrder
    BY DEF ProducerInv, ProducerTypes, CallsInOrder
  <1>2. PICK p : p = Cardinality(Made) + 1
    OBVIOUS
  <1>3. /\ send[r].state = "connecting"
        /\ outbox' = [x \in Made \union {p} |-> IF x = p THEN <<>> ELSE outbox[x]]
        /\ listed' = p /\ overwritten' = overwritten \union ({listed} \ {0})
        /\ using' = [using EXCEPT ![r] = p]
        /\ Becomes(r, "sending", 0)
        /\ UNCHANGED <<setting, log, committed, faults, sentAfter>>
    BY <1>2 DEF Connected, kafkaVars
  <1>4. Css /\ setting.producer = "css"
    BY <1>1, <1>3 DEF StatesFit, Css
  <1>5. /\ Cardinality(Made) \in Nat /\ Made = 1..Cardinality(Made)
        /\ p \in Nat \ {0} /\ p \notin Made /\ Made \union {p} = 1..p /\ 0 \notin Made
    <2>1. Cardinality(Made) \in Nat /\ Made = 1..Cardinality(Made)
      BY <1>1, FS_CardinalityType DEF ProducersMade
    <2>2. PICK c \in Nat : c = Cardinality(Made)
      BY <2>1
    <2>3. p = c + 1 /\ Made = 1..c
      BY <1>2, <2>1, <2>2
    <2>4. p \in Nat \ {0} /\ p \notin 1..c /\ (1..c) \union {p} = 1..p /\ 0 \notin 1..c
      BY <2>2, <2>3
    <2> QED
      BY <2>1, <2>3, <2>4, Zenon
  <1>6. /\ Made' = Made \union {p} /\ outbox'[p] = <<>>
        /\ \A x \in Made : outbox'[x] = outbox[x]
        /\ outbox' = [x \in Made' |-> outbox'[x]]
    BY <1>3, <1>5 DEF Made
  <1>7. IsFiniteSet(1..p) /\ Cardinality(1..p) = p
    <2>1. 1 \in Int /\ p \in Int /\ p - 1 + 1 = p /\ ~(1 > p)
      BY <1>5
    <2> QED
      BY <2>1, FS_Interval
  <1>8. /\ send' \in [Request -> [state : SendState, acks : Nat]] /\ send'[r].state = "sending"
        /\ \A x \in Request : x # r => send'[x] = send[x]
    <2>1. "sending" \in SendState
      BY DEF SendState
    <2> QED
      BY <1>1, <1>3, <2>1, BecomesFacts
  <1>9. /\ using' \in [Request -> Made' \union {0}] /\ using'[r] = p
        /\ \A x \in Request : x # r => using'[x] = using[x]
    BY <1>1, <1>3, <1>6 DEF ProducerTypeOK
  <1>10. \A x, n : In(x, n)' <=> In(x, n)
    BY <1>3 DEF In
  <1>11. KafkaTypeOK'
    BY <1>1, <1>3 DEF KafkaTypeOK
  <1>12. \A y \in Made' : \A j \in DOMAIN outbox'[y] :
             y \in Made /\ j \in DOMAIN outbox[y] /\ outbox'[y] = outbox[y]
    BY <1>6
  <1>13. ProducerTypes'
    <2>1. ProducerTypeOK'
      <3>1. \A y \in Made' : outbox'[y] \in Seq(Message) /\ Len(outbox'[y]) <= QueueSize
        <4>1. outbox'[p] \in Seq(Message) /\ Len(outbox'[p]) <= QueueSize
          BY <1>1, <1>6, ProducerFacts
        <4> QED
          BY <1>1, <1>6, <4>1 DEF ProducerTypeOK
      <3>2. listed' \in Made' \union {0} /\ overwritten' \subseteq Made'
        BY <1>1, <1>3, <1>6 DEF ProducerTypeOK
      <3> QED
        BY <1>1, <1>3, <1>8, <1>9, <3>1, <3>2 DEF ProducerTypeOK
    <2>2. ProducersMade'
      <3>1. Css'
        BY <1>3, <1>4 DEF Css
      <3>2. setting'.producer \notin {"generic", "kafkajs"}
        BY <1>3, <1>4
      <3>3. IsFiniteSet(Made') /\ Made' = 1..Cardinality(Made')
        BY <1>5, <1>6, <1>7
      <3> QED
        BY <1>6, <3>1, <3>2, <3>3 DEF ProducersMade
    <2>3. StatesFit'
      BY <1>1, <1>3, <1>4, <1>6, <1>8, <1>9 DEF StatesFit, Css
    <2>4. AllOwn'
      <3>1. \A i \in DOMAIN log' : Own(log[i])' \/ log'[i].from = "others"
        BY <1>1, <1>3 DEF AllOwn, Own
      <3>2. \A y \in Made' : \A j \in DOMAIN outbox'[y] : Own(outbox[y][j])'
        BY <1>1, <1>3, <1>12 DEF AllOwn, Own
      <3> QED
        BY <3>1, <3>2 DEF AllOwn
    <2> QED
      BY <2>1, <2>2, <2>3, <2>4 DEF ProducerTypes
  <1>14. QueuedInOrder'
    BY <1>1, <1>12 DEF QueuedInOrder
  <1>20. setting' = setting /\ faults' = faults
    BY <1>3
  <1>15. StoredFromFront'
    <2> SUFFICES ASSUME "ack" \notin faults.kinds, NEW x \in Request,
                        NEW n \in 1..setting.sends[x], NEW m \in 1..(n - 1)
                 PROVE  /\ In(x, n) => In(x, m)
                        /\ \A y \in Made' : \A j \in DOMAIN outbox'[y] :
                               IsOf(outbox'[y][j], x, n) =>
                                   In(x, m) \/ \E i \in 1..(j - 1) : IsOf(outbox'[y][i], x, m)
      BY <1>10, <1>20 DEF StoredFromFront
    <2>1. /\ In(x, n) => In(x, m)
          /\ \A y \in Made : \A j \in DOMAIN outbox[y] :
                 IsOf(outbox[y][j], x, n) =>
                     In(x, m) \/ \E i \in 1..(j - 1) : IsOf(outbox[y][i], x, m)
      BY <1>1 DEF StoredFromFront
    <2> QED
      BY <1>12, <2>1
  <1>16. Acknowledged'
    BY <1>3, <1>4 DEF Acknowledged, Css
  <1>17. NotSentYet'
    <2>1. \A x \in Request : Unsent(x)' => Unsent(x)
      BY <1>3, <1>4, <1>8 DEF Unsent
    <2> QED
      BY <1>1, <1>3, <1>12, <2>1 DEF NotSentYet
  <1>18. OneProducer'
    <2> SUFFICES ASSUME overwritten' = {}
                 PROVE  /\ \A y \in Made' : Busy(y)' => y = p
                        /\ \A x \in Request : send'[x].state = "sending" => using'[x] = p
      BY <1>3 DEF OneProducer
    <2>1. listed = 0 /\ overwritten = {}
      BY <1>3
    <2>2. /\ \A y \in Made : ~Busy(y)
          /\ \A x \in Request : send[x].state # "sending"
      BY <1>1, <1>4, <1>5, <2>1 DEF OneProducer, StatesFit
    <2>3. \A y \in Made' : Busy(y)' => y = p
      BY <1>6, <2>2 DEF Busy
    <2> QED
      BY <1>8, <1>9, <2>2, <2>3
  <1>19. CallsInOrder'
    <2>1. overwritten' = {} => overwritten = {}
      BY <1>3
    <2>2. \A s, x \in Request : <<s, x>> \in sentAfter => Resolved(s)' /\ send'[x].state # "idle"
      BY <1>1, <1>3, <1>8 DEF CallsInOrder, Resolved
    <2>3. SentInOrder'
      BY <1>1, <1>3, <2>1 DEF SentInOrder
    <2>4. ASSUME overwritten' = {}, NEW s \in Request, NEW x \in Request, <<s, x>> \in sentAfter,
                 NEW y \in Made', NEW i \in DOMAIN outbox'[y], outbox'[y][i].from = s
          PROVE  /\ \A j \in DOMAIN log : log[j].from # x
                 /\ \A j \in DOMAIN outbox'[y] : outbox'[y][j].from = x => i < j
      <3>1. y \in Made /\ i \in DOMAIN outbox[y] /\ outbox'[y] = outbox[y]
        BY <1>12
      <3> QED
        BY <1>1, <2>1, <2>4, <3>1 DEF CallsInOrder
    <2> QED
      BY <1>3, <2>2, <2>3, <2>4 DEF CallsInOrder
  <1> QED
    BY <1>11, <1>13, <1>14, <1>15, <1>16, <1>17, <1>18, <1>19 DEF ProducerInv

\* The process of the producers ends.
LEMMA SenderForgetsInv ==
    ASSUME ProducerInv, NEW kind, Failure(kind), SenderForgets
    PROVE  ProducerInv'
  <1>1. /\ KafkaTypeOK /\ ProducerTypes /\ ProducerTypeOK /\ ProducersMade /\ StatesFit /\ AllOwn
        /\ QueuedInOrder /\ Acknowledged
        /\ StoredFromFront /\ NotSentYet /\ OneProducer /\ CallsInOrder /\ SentInOrder
    BY DEF ProducerInv, ProducerTypes, CallsInOrder
  <1>2. /\ send' = [r \in Request |-> IF send[r].state \in {"connecting", "sending"}
                                       THEN Is("lost", 0) ELSE send[r]]
        /\ listed' = 0 /\ outbox' = [p \in Made |-> <<>>]
        /\ UNCHANGED <<setting, log, committed, using, overwritten, sentAfter>>
    BY DEF SenderForgets
  <1>3. /\ send' \in [Request -> [state : SendState, acks : Nat]]
        /\ \A r \in Request : IF send[r].state \in {"connecting", "sending"}
                              THEN send'[r].state = "lost" ELSE send'[r] = send[r]
    BY <1>1, <1>2 DEF Is, SendState, ProducerTypeOK
  <1>4. /\ Made' = Made /\ outbox' = [p \in Made' |-> outbox'[p]]
        /\ \A p \in Made : outbox'[p] = <<>> /\ DOMAIN outbox'[p] = {}
    BY <1>2 DEF Made
  <1>5. faults.kinds \subseteq faults'.kinds
    BY <1>1, FaultTypes
  <1>6. \A x, n : In(x, n)' <=> In(x, n)
    BY <1>2 DEF In
  <1>7. KafkaTypeOK'
    BY <1>1, <1>2, FaultTypes DEF KafkaTypeOK
  <1>8. ProducerTypes'
    <2>1. ProducerTypeOK'
      <3>1. \A y \in Made' : outbox'[y] \in Seq(Message) /\ Len(outbox'[y]) <= QueueSize
        <4>3. <<>> \in Seq(Message) /\ Len(<<>>) = 0
          OBVIOUS
        <4>1. PICK e \in Seq(Message) : e = <<>> /\ Len(e) = 0
          BY <4>3
        <4>2. Len(e) <= QueueSize
          BY <1>1, <4>1, ProducerFacts
        <4> QED
          BY <1>4, <4>1, <4>2
      <3> QED
        BY <1>1, <1>2, <1>3, <1>4, <3>1 DEF ProducerTypeOK
    <2>2. ProducersMade'
      BY <1>1, <1>2, <1>4 DEF ProducersMade, Css
    <2>3. StatesFit'
      BY <1>1, <1>2, <1>3, <1>4 DEF StatesFit, Css
    <2>4. AllOwn'
      BY <1>1, <1>2, <1>4 DEF AllOwn, Own
    <2> QED
      BY <2>1, <2>2, <2>3, <2>4 DEF ProducerTypes
  <1>9. QueuedInOrder' /\ StoredFromFront'
    BY <1>1, <1>2, <1>4, <1>5, <1>6 DEF QueuedInOrder, StoredFromFront
  <1>10. Acknowledged'
    BY <1>1, <1>2, <1>3, <1>6 DEF Acknowledged, Resolved, Css
  <1>11. NotSentYet'
    BY <1>1, <1>2, <1>3, <1>4 DEF NotSentYet, Unsent
  <1>12. OneProducer'
    BY <1>3, <1>4 DEF OneProducer, Busy
  <1>13. CallsInOrder'
    <2>1. \A s, x \in Request : <<s, x>> \in sentAfter => Resolved(s)' /\ send'[x].state # "idle"
      BY <1>1, <1>3 DEF CallsInOrder, Resolved
    <2>2. SentInOrder'
      BY <1>1, <1>2 DEF SentInOrder
    <2> QED
      BY <1>2, <1>4, <2>1, <2>2 DEF CallsInOrder
  <1> QED
    BY <1>7, <1>8, <1>9, <1>10, <1>11, <1>12, <1>13 DEF ProducerInv

\* What others store, and what the consumer commits or fails in, is not the
\* producers' concern.
LEMMA OthersInv ==
    ASSUME ProducerInv, KafkaTypeOK', UNCHANGED producerVars, setting' = setting,
           faults.kinds \subseteq faults'.kinds,
           \A i \in DOMAIN log : i \in DOMAIN log' /\ log'[i] = log[i],
           \A i \in DOMAIN log' : i \in DOMAIN log \/ log'[i].from = "others"
    PROVE  ProducerInv'
  <1>1. /\ KafkaTypeOK /\ ProducerTypes /\ ProducerTypeOK /\ ProducersMade /\ StatesFit /\ AllOwn
        /\ QueuedInOrder /\ Acknowledged /\ "others" \notin Request
        /\ StoredFromFront /\ NotSentYet /\ OneProducer /\ CallsInOrder /\ SentInOrder
    BY ProducerFacts DEF ProducerInv, ProducerTypes, CallsInOrder
  <1>2. UNCHANGED <<setting, send, using, listed, outbox, overwritten, sentAfter>> /\ Made' = Made
    BY DEF producerVars, Made
  <1>3. \A x \in Request : \A n : In(x, n)' <=> In(x, n)
    BY <1>1 DEF In, IsOf
  <1>4. \A i \in DOMAIN log' : log'[i].from \in Request => i \in DOMAIN log /\ log'[i] = log[i]
    BY <1>1
  <1>5. ProducerTypes'
    <2>1. ProducerTypeOK' /\ ProducersMade' /\ StatesFit'
      BY <1>1, <1>2 DEF ProducerTypeOK, ProducersMade, StatesFit, Css
    <2>2. AllOwn'
      BY <1>1, <1>2 DEF AllOwn, Own
    <2> QED
      BY <2>1, <2>2 DEF ProducerTypes
  <1>6. QueuedInOrder'
    BY <1>1, <1>2 DEF QueuedInOrder
  <1>7. StoredFromFront'
    BY <1>1, <1>2, <1>3 DEF StoredFromFront
  <1>8. Acknowledged'
    <2>1. \A r \in Request : UnderWay(r) => UnderWay(r)'
      BY <1>2, <1>3 DEF UnderWay, Got
    <2> QED
      BY <1>1, <1>2, <1>3, <2>1 DEF Acknowledged, Resolved, Css
  <1>9. NotSentYet'
    BY <1>1, <1>2, <1>4 DEF NotSentYet, Unsent
  <1>10. OneProducer'
    BY <1>1, <1>2 DEF OneProducer, Busy, Css
  <1>11. CallsInOrder'
    <2>1. SentInOrder'
      BY <1>1, <1>2, <1>4 DEF SentInOrder
    <2> QED
      BY <1>1, <1>2, <1>4, <2>1 DEF CallsInOrder, Resolved
  <1> QED
    BY <1>5, <1>6, <1>7, <1>8, <1>9, <1>10, <1>11 DEF ProducerInv

LEMMA ProducerStepsInv ==
    ASSUME ProducerInv, Produce \/ ProducerFails \/ \E r \in Request : Call(r)
    PROVE  ProducerInv'
  <1>1. CASE Produce
    BY <1>1, RdkafkaDeliveredInv, GenericSentInv, ConnectedInv, SendMessageInv, CssDeliveredInv
       DEF Produce
  <1>2. CASE ProducerFails
    BY <1>2, RdkafkaNotDeliveredInv, SenderForgetsInv DEF ProducerFails, ConnectFails, SenderExits
  <1>3. CASE \E r \in Request : Call(r)
    BY <1>3, CallInv
  <1> QED
    BY <1>1, <1>2, <1>3

LEMMA ProducerInitInv ==
    ASSUME KafkaInit, ProducerInit
    PROVE  ProducerInv
  <1>1. /\ setting \in Settings /\ setting \in Setting /\ log = <<>> /\ committed = Nothing
        /\ faults = [count |-> 0, kinds |-> {}] /\ QueueSize \in Nat \ {0}
    BY KafkaAssumption DEF KafkaInit
  <1>2. KafkaTypeOK
    BY <1>1 DEF KafkaTypeOK, Setting
  <1>3. /\ send = [r \in Request |-> Is("idle", 0)] /\ using = [r \in Request |-> 0] /\ listed = 0
        /\ overwritten = {} /\ sentAfter = {}
        /\ IF Css THEN outbox = [p \in {} |-> <<>>] ELSE outbox = [p \in {1} |-> <<>>]
    BY DEF ProducerInit
  <1>4. /\ send \in [Request -> [state : SendState, acks : Nat]]
        /\ \A r \in Request : send[r].state = "idle"
    BY <1>3 DEF Is, SendState
  <1>5. /\ (Css => Made = {}) /\ (~Css => Made = {1})
        /\ \A p \in Made : outbox[p] = <<>>
        /\ outbox = [p \in Made |-> outbox[p]]
    <2>1. CASE Css
      BY <1>3, <2>1 DEF Made
    <2>2. CASE ~Css
      BY <1>3, <2>2 DEF Made
    <2> QED
      BY <2>1, <2>2
  <1>6. IsFiniteSet(Made) /\ Made = 1..Cardinality(Made)
    <2>1. CASE Made = {}
      <3>1. IsFiniteSet({}) /\ Cardinality({}) = 0 /\ 1..0 = {}
        BY FS_EmptySet
      <3> QED
        BY <2>1, <3>1
    <2>2. CASE Made = {1}
      <3>1. IsFiniteSet({1}) /\ Cardinality({1}) = 1 /\ 1..1 = {1}
        BY FS_Singleton
      <3> QED
        BY <2>2, <3>1
    <2> QED
      BY <1>5, <2>1, <2>2
  <1>7. ProducerTypeOK
    <2>1. \A y \in Made : outbox[y] \in Seq(Message) /\ Len(outbox[y]) <= QueueSize
      <3>1. <<>> \in Seq(Message) /\ Len(<<>>) = 0
        OBVIOUS
      <3>2. PICK e \in Seq(Message) : e = <<>> /\ Len(e) = 0
        BY <3>1
      <3>3. Len(e) <= QueueSize
        BY <1>1, <3>2
      <3> QED
        BY <1>5, <3>2, <3>3
    <2>2. using \in [Request -> Made \union {0}]
      BY <1>3
    <2> QED
      BY <1>3, <1>4, <2>1, <2>2 DEF ProducerTypeOK
  <1>8. ProducersMade
    BY <1>3, <1>5, <1>6 DEF ProducersMade, Css
  <1>8a. StatesFit
    BY <1>3, <1>4, <1>5 DEF StatesFit
  <1>9. AllOwn
    BY <1>1, <1>5 DEF AllOwn
  <1>10. \A r, n : ~In(r, n)
    BY <1>1 DEF In
  <1>11. QueuedInOrder /\ Acknowledged /\ StoredFromFront /\ NotSentYet /\ OneProducer
    BY <1>1, <1>4, <1>5, <1>10
       DEF QueuedInOrder, Acknowledged, StoredFromFront, NotSentYet, OneProducer, Resolved, Busy
  <1>12. CallsInOrder
    BY <1>1, <1>3 DEF CallsInOrder, SentInOrder
  <1> QED
    BY <1>2, <1>7, <1>8, <1>8a, <1>9, <1>11, <1>12 DEF ProducerInv, ProducerTypes

--------------------------------------------------------------------------------
(* The two ends around the partition *)

MessagingInv == ConsumerInv /\ ProducerInv

\* What the producers do to the partition.
LEMMA ProducersStore ==
    ASSUME ProducerInv, Produce \/ ProducerFails \/ \E r \in Request : Call(r)
    PROVE  /\ \E messages \in Seq(Message) : log' = log \o messages
           /\ setting' = setting /\ committed' = committed
           /\ faults' = faults \/ \E kind : Failure(kind)
  <1>1. KafkaTypeOK /\ ProducerTypes /\ ProducerTypeOK /\ log \in Seq(Message)
    BY ProducerFacts DEF ProducerInv, ProducerTypes
  <1>2. log' = log => \E messages \in Seq(Message) : log' = log \o messages
    <2>1. <<>> \in Seq(Message) /\ log \o <<>> = log
      BY <1>1
    <2> QED
      BY <2>1
  <1>3. ASSUME NEW p \in Made, Busy(p)
        PROVE  <<Head(outbox[p])>> \in Seq(Message)
    <2>1. outbox[p] \in Seq(Message) /\ outbox[p] # <<>>
      BY <1>1, <1>3 DEF ProducerTypeOK, Busy
    <2>2. Head(outbox[p]) \in Message
      BY <2>1
    <2> QED
      BY <2>2, OneFacts
  <1>4. ASSUME NEW r \in Request
        PROVE  Batched(r) \in Seq(Message)
    <2>1. PICK k \in 0..setting.sends[r] : k = 0
      BY <1>1, ProducerFacts
    <2> QED
      BY <1>1, <2>1, BatchFacts
  <1>5. setting.producer = "rdkafka" => 1 \in Made
    BY <1>1 DEF ProducerTypes, ProducersMade, Css
  <1>6. ASSUME RdkafkaDelivered \/ RdkafkaNotDelivered \/ (\E p \in Made : CssDelivered(p))
               \/ (\E r \in Request : GenericSent(r))
        PROVE  \E messages \in Seq(Message) : log' = log \o messages
    BY <1>2, <1>3, <1>4, <1>5, <1>6
       DEF RdkafkaDelivered, RdkafkaNotDelivered, CssDelivered, GenericSent, Store
  <1>7. /\ setting' = setting /\ committed' = committed
        /\ faults' = faults \/ \E kind : Failure(kind)
        /\ \/ log' = log
           \/ RdkafkaDelivered \/ RdkafkaNotDelivered \/ (\E p \in Made : CssDelivered(p))
           \/ \E r \in Request : GenericSent(r)
    <2>1. CASE Produce
      BY <2>1 DEF Produce, RdkafkaDelivered, GenericSent, Connected, SendMessage, CssDelivered, kafkaVars
    <2>2. CASE ProducerFails
      BY <2>2 DEF ProducerFails, RdkafkaNotDelivered, ConnectFails, SenderExits, SenderForgets
    <2>3. CASE \E r \in Request : Call(r)
      BY <2>3 DEF Call, RdkafkaSend, GenericSend, KafkajsSend, Send, ProduceMessage, ConnectAll,
                  GetProducer, kafkaVars
    <2> QED
      BY <2>1, <2>2, <2>3
  <1> QED
    BY <1>2, <1>6, <1>7

\* What others do.
LEMMA ForeignStored ==
    ASSUME KafkaTypeOK, StoreForeign
    PROVE  \E messages \in Seq(Message) :
               log' = log \o messages /\ \A i \in 1..Len(messages) : messages[i].from = "others"
  <1>1. setting \in Setting /\ DOMAIN log = 1..Len(log) /\ Len(log) \in Nat
    BY ProducerFacts
  <1>2. FromOthers \in Nat
    <2>1. IsFiniteSet(1..Len(log))
      BY <1>1, FS_Interval
    <2>2. IsFiniteSet({i \in DOMAIN log : log[i].from = "others"})
      BY <1>1, <2>1, FS_Subset
    <2> QED
      BY <2>2, FS_CardinalityType DEF FromOthers
  <1>3. PICK form \in Form : log' = log \o <<Foreign(form)>>
    <2>1. setting.foreign \in Seq(Form) /\ FromOthers < Len(setting.foreign)
      BY <1>1 DEF Setting, StoreForeign
    <2>2. setting.foreign[FromOthers + 1] \in Form
      BY <1>2, <2>1
    <2> QED
      BY <2>2 DEF StoreForeign, Store
  <1>4. Foreign(form) \in Message /\ Foreign(form).from = "others"
    BY DEF Foreign, Message
  <1>5. PICK messages \in Seq(Message) :
            messages = <<Foreign(form)>> /\ Len(messages) = 1 /\ messages[1] = Foreign(form)
    BY <1>4, OneFacts
  <1>6. \A i \in 1..Len(messages) : i = 1
    BY <1>5
  <1> QED
    BY <1>3, <1>4, <1>5, <1>6

LEMMA InitInv ==
    ASSUME Init
    PROVE  MessagingInv
  BY ConsumerInitInv, ProducerInitInv DEF Init, MessagingInv

LEMMA StepInv ==
    ASSUME MessagingInv, [Next]_vars
    PROVE  MessagingInv'
  <1>1. ConsumerInv /\ ProducerInv /\ KafkaTypeOK
    BY ConsumerFacts DEF MessagingInv
  <1>1a. ConsumerInv' => KafkaTypeOK'
    BY DEF ConsumerInv, OrderedInv, StreamInv
  <1>2. log \in Seq(Message) /\ DOMAIN log = 1..Len(log) /\ Len(log) \in Nat
    BY <1>1, ProducerFacts
  <1>3. ASSUME Start \/ Consume \/ ConsumerFails, UNCHANGED producerVars
        PROVE  MessagingInv'
    <2>1. ConsumerInv'
      BY <1>1, <1>3, ConsumerStepsInv
    <2>2. /\ UNCHANGED <<setting, log>> /\ (faults' = faults \/ \E kind : Failure(kind))
      BY <1>3, ConsumerFrame
    <2>3. faults.kinds \subseteq faults'.kinds
      BY <1>1, <2>2, FaultTypes
    <2>4. ProducerInv'
      BY <1>1, <1>3, <1>1a, <2>1, <2>2, <2>3, OthersInv
    <2> QED
      BY <2>1, <2>4 DEF MessagingInv
  <1>4. ASSUME Produce \/ ProducerFails \/ (\E r \in Request : Call(r)), UNCHANGED consumerVars
        PROVE  MessagingInv'
    <2>1. ProducerInv'
      BY <1>1, <1>4, ProducerStepsInv
    <2>2. /\ \E messages \in Seq(Message) : log' = log \o messages
          /\ setting' = setting /\ committed' = committed
          /\ faults' = faults \/ \E kind : Failure(kind)
      BY <1>1, <1>4, ProducersStore
    <2>3. UNCHANGED <<mode, next, queue, work, pending, rebalance, handled, skipped>>
      BY <1>4 DEF consumerVars
    <2>4. ConsumerInv'
      BY <1>1, <2>2, <2>3, GrowthInv
    <2> QED
      BY <2>1, <2>4 DEF MessagingInv
  <1>5. ASSUME StoreForeign, UNCHANGED <<consumerVars, producerVars>>
        PROVE  MessagingInv'
    <2>1. PICK messages \in Seq(Message) :
              log' = log \o messages /\ \A i \in 1..Len(messages) : messages[i].from = "others"
      BY <1>1, <1>5, ForeignStored
    <2>2. UNCHANGED <<setting, committed, faults>>
      BY <1>5 DEF StoreForeign
    <2>3. UNCHANGED <<mode, next, queue, work, pending, rebalance, handled, skipped>>
      BY <1>5 DEF consumerVars
    <2>4. ConsumerInv'
      BY <1>1, <2>1, <2>2, <2>3, GrowthInv
    <2>5. /\ \A i \in 1..Len(log) : log'[i] = log[i]
          /\ \A i \in DOMAIN log' : i \in 1..Len(log) \/
                 (i - Len(log) \in 1..Len(messages) /\ log'[i] = messages[i - Len(log)])
          /\ DOMAIN log' = 1..(Len(log) + Len(messages)) /\ Len(messages) \in Nat
      BY <1>1, <2>1, <2>2, StoreFacts
    <2>6. \A i \in DOMAIN log : i \in DOMAIN log' /\ log'[i] = log[i]
      BY <1>2, <2>5
    <2>7. \A i \in DOMAIN log' : i \in DOMAIN log \/ log'[i].from = "others"
      BY <1>2, <2>1, <2>5
    <2>8. ProducerInv'
      BY <1>1, <1>5, <1>1a, <2>2, <2>4, <2>6, <2>7, OthersInv
    <2> QED
      BY <2>4, <2>8 DEF MessagingInv
  <1>6. ASSUME UNCHANGED vars
        PROVE  MessagingInv'
    <2>1. UNCHANGED <<setting, log, committed, faults>> /\ UNCHANGED producerVars
      BY <1>6 DEF vars, kafkaVars
    <2>2. UNCHANGED <<mode, next, queue, work, pending, rebalance, handled, skipped>>
      BY <1>6 DEF vars, consumerVars
    <2>3. <<>> \in Seq(Message) /\ log \o <<>> = log
      BY <1>2
    <2>4. PICK messages \in Seq(Message) : log' = log \o messages
      BY <2>1, <2>3
    <2>5. ConsumerInv'
      BY <1>1, <2>1, <2>2, <2>4, GrowthInv
    <2>6. ProducerInv'
      BY <1>1, <1>1a, <2>1, <2>5, OthersInv
    <2> QED
      BY <2>5, <2>6 DEF MessagingInv
  <1> QED
    BY <1>3, <1>4, <1>5, <1>6 DEF Next, ConsumerSteps, ProducerSteps

\* A set of numbers that holds, with each of them, the lower ones.
LEMMA FrontIsInterval ==
    ASSUME NEW N \in Nat, NEW S, S \subseteq 1..N, \A n \in S : 1..n \subseteq S
    PROVE  S = 1..Cardinality(S)
  <1>1. IsFiniteSet(S)
    <2>1. IsFiniteSet(1..N)
      BY FS_Interval
    <2> QED
      BY <2>1, FS_Subset
  <1>2. \A n \in 0..N : IsFiniteSet(1..n) /\ Cardinality(1..n) = n
    BY FS_Interval
  <1>3. PICK k \in Nat : k = Cardinality(S)
    BY <1>1, FS_CardinalityType
  <1>4. \A n \in S : n <= k
    <2> SUFFICES ASSUME NEW n \in S
                 PROVE  n <= k
      OBVIOUS
    <2>1. n \in 0..N
      OBVIOUS
    <2>2. Cardinality(1..n) <= Cardinality(S)
      BY <1>1, FS_Subset
    <2> QED
      BY <1>2, <1>3, <2>1, <2>2
  <1>5. S \subseteq 1..k
    BY <1>4
  <1>6. IsFiniteSet(1..k) /\ Cardinality(1..k) = k
    BY FS_Interval
  <1>7. S = 1..k
    BY <1>3, <1>5, <1>6, FS_Subset
  <1> QED
    BY <1>3, <1>7

\* What is stored of a batch, by its numbers.
LEMMA StoredIn ==
    ASSUME KafkaTypeOK, AllOwn, NEW r \in Request
    PROVE  Stored(r) = {n \in 1..setting.sends[r] : In(r, n)}
  <1>1. setting.sends[r] \in Nat /\ DOMAIN log = 1..Len(log) /\ "others" \notin Request
    BY ProducerFacts
  <1>2. ASSUME NEW n \in 1..setting.sends[r]
        PROVE  Contains(log, Batched(r)[n]) <=> In(r, n)
    <2>1. Batched(r)[n] = [form |-> "subscribed", from |-> r, n |-> n]
      BY DEF Batched
    <2>2. ASSUME NEW i \in DOMAIN log
          PROVE  log[i] = Batched(r)[n] <=> IsOf(log[i], r, n)
      <3>1. log[i] \in Message
        BY ProducerFacts
      <3> QED
        BY <2>1, <3>1 DEF Message, IsOf
    <2> QED
      BY <1>1, <2>2 DEF Contains, In
  <1> QED
    BY <1>2 DEF Stored

LEMMA InvCommitted ==
    ASSUME MessagingInv
    PROVE  CommittedIsHandled
  <1>1. /\ KafkaTypeOK
        /\ OneByOne => \A i \in 1..Len(log) : i <= committed => Done(i)
        /\ ~OneByOne => OrderedInv
    BY ConsumerFacts DEF MessagingInv
  <1>2. Len(log) \in Nat /\ committed \in {Nothing} \union 0..Len(log)
    BY <1>1 DEF KafkaTypeOK
  <1> SUFFICES ASSUME NEW i \in 1..committed, ~Done(i)
               PROVE  ~OneByOne /\ (faults.count = 0 => i \in InFlight)
    <2>1. \A i : Wanted(i) /\ i \notin skipped /\ Times(i) = 0 => ~Done(i)
      BY DEF Done
    <2> QED
      BY <2>1 DEF CommittedIsHandled
  <1>3. i \in 1..Len(log) /\ i <= committed
    BY <1>2 DEF Nothing
  <1>4. ~OneByOne
    BY <1>1, <1>3
  <1>5. ASSUME faults.count = 0
        PROVE  i \in InFlight
    <2>0. ConsumerTypes /\ Consecutive /\ NothingForgotten /\ CommittedDone
      BY <1>1, <1>4 DEF OrderedInv
    <2>1. i < next
      BY <1>2, <1>3, <1>5, <2>0 DEF CommittedDone, ConsumerTypes, HandsType, Nothing
    <2>2. Waits(i)
      BY <1>3, <1>5, <2>0, <2>1 DEF NothingForgotten
    <2>3. PICK b \in InHand : b.at = i \/ (b.at < i /\ i <= b.last)
      BY <2>2 DEF Waits
    <2>4. b \in BatchType /\ b.at <= b.last
      BY <2>0, <2>3 DEF ConsumerTypes, HandsType, InHand, ToSet, Consecutive
    <2>5. i \in b.at..b.last
      BY <2>3, <2>4 DEF BatchType
    <2> QED
      BY <2>5 DEF InFlight
  <1> QED
    BY <1>4, <1>5

LEMMA InvRepeats ==
    ASSUME MessagingInv
    PROVE  RepeatsNeedFaults
  <1>1. KafkaTypeOK /\ ConsumerTypes /\ \A i \in 1..Len(log) : Times(i) <= Paid + 1
    BY ConsumerFacts DEF MessagingInv
  <1>2. /\ Paid \in Nat /\ Paid <= faults.count /\ faults.count \in Nat
        /\ faults.kinds \cap Refetching = {} => Paid = 0
    BY <1>1, PaidFacts
  <1>3. \A i \in DOMAIN handled : i \in 1..Len(log) /\ Times(i) \in Nat
    BY <1>1 DEF ConsumerTypes, KafkaTypeOK, Times
  <1> QED
    BY <1>1, <1>2, <1>3 DEF RepeatsNeedFaults

LEMMA InvStored ==
    ASSUME MessagingInv
    PROVE  ResolvedIsStored
  <1>1. KafkaTypeOK /\ AllOwn /\ Acknowledged /\ StoredFromFront
    BY DEF MessagingInv, ProducerInv, ProducerTypes
  <1> SUFFICES ASSUME NEW r \in Request
               PROVE  /\ Resolved(r) /\ ~Css => Stored(r) = 1..setting.sends[r]
                      /\ "ack" \notin faults.kinds => Stored(r) = 1..Cardinality(Stored(r))
    BY DEF ResolvedIsStored
  <1>2. Stored(r) = {n \in 1..setting.sends[r] : In(r, n)} /\ setting.sends[r] \in Nat
    BY <1>1, StoredIn, ProducerFacts
  <1>3. Resolved(r) /\ ~Css => Stored(r) = 1..setting.sends[r]
    BY <1>1, <1>2 DEF Acknowledged
  <1>4. ASSUME "ack" \notin faults.kinds
        PROVE  Stored(r) = 1..Cardinality(Stored(r))
    <2>1. ASSUME NEW n \in Stored(r), NEW m \in 1..n
          PROVE  m \in Stored(r)
      <3>1. n \in 1..setting.sends[r] /\ In(r, n) /\ m \in 1..setting.sends[r]
        BY <1>2
      <3>2. m = n \/ m \in 1..(n - 1)
        BY <3>1
      <3>3. In(r, m)
        BY <1>1, <1>4, <3>1, <3>2 DEF StoredFromFront
      <3> QED
        BY <1>2, <3>1, <3>3
    <2>2. Stored(r) \subseteq 1..setting.sends[r]
      BY <1>2
    <2> QED
      BY <1>2, <2>1, <2>2, FrontIsInterval
  <1> QED
    BY <1>3, <1>4

--------------------------------------------------------------------------------
(* The theorems *)

\* What the two ends hold, and how it fits the partition between them, is kept by
\* every step of every client.
THEOREM InductiveInvariant == Spec => []MessagingInv
  <1> QED
    BY InitInv, StepInv, PTL DEF Spec

\* Every variable of the partition, of the consumers and of the producers has its type.
THEOREM TypeCorrect == Spec => []TypeOK
  <1>1. MessagingInv => TypeOK
    BY ConsumerFacts DEF MessagingInv, ProducerInv, ProducerTypes, TypeOK
  <1> QED
    BY <1>1, InductiveInvariant, PTL

\* A consumer that commits one message before the next has finished with all that
\* its group has committed; the others, as long as nothing fails, have the rest in hand.
THEOREM CommitsBehind == Spec => []CommittedIsHandled
  <1> QED
    BY InductiveInvariant, InvCommitted, PTL

\* A message is handled after those stored before it: by every client that handles
\* one at a time, and by those with a queue as long as nothing fails.
THEOREM OrderKept == Spec => []HandledInOrder
  <1>1. MessagingInv => HandledInOrder
    BY ConsumerFacts DEF MessagingInv
  <1> QED
    BY <1>1, InductiveInvariant, PTL

\* A message is handled once, and once more for each failure at most; just once as
\* long as none of the failures made a client fetch again from the commit.
THEOREM RepeatsPaid == Spec => []RepeatsNeedFaults
  <1> QED
    BY InductiveInvariant, InvRepeats, PTL

\* A resolved promise of the library's producers has its whole batch in the
\* partition, and what is there of a batch is its beginning unless a delivery failed.
THEOREM PromisesKept == Spec => []ResolvedIsStored
  <1> QED
    BY InductiveInvariant, InvStored, PTL

\* What is sent after an earlier promise was resolved is stored after it, unless a
\* producer of the topic was overwritten.
THEOREM SendsInOrder == Spec => []SentInOrder
  <1>1. MessagingInv => SentInOrder
    BY DEF MessagingInv, ProducerInv, CallsInOrder
  <1> QED
    BY <1>1, InductiveInvariant, PTL

====================================================================================
