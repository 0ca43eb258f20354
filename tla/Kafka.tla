---------------------------------- MODULE Kafka ----------------------------------
(******************************************************************************)
(* One partition of a topic as its clients use it: the messages stored in it, *)
(* the offset a consumer group has committed, and the failures of an instance.*)
(* The clients are modelled in Consumers and Producers.                       *)
(******************************************************************************)
EXTENDS Integers, Sequences, FiniteSets, SequencesExt

CONSTANTS
    Settings,    \* what a behaviour may start from, see Setting
    Request,     \* ids of the send requests
    FaultKinds,  \* kinds of failure this instance may meet
    QueueSize    \* queue.buffering.max.messages: room in a producer's queue

\* The kinds of client: the implementations of IMessageConsumer and
\* IMessagePublisher, and the stream library of the API adapter.
Client == {"rdkafka", "generic", "stream", "kafkajs", "css"}
Fault  == {"crash", "rebalance", "commit", "reject", "senderCrash", "ack", "connect"}

\* What a consumer may find at an offset: a message whose name it subscribed to,
\* one whose name it did not, a text that is not JSON, no value at all.
Form == {"subscribed", "other", "garbled", "null"}

\* The clients of the two ends and their options; what others store in the
\* partition; what each request sends; and the bound of failures.
Setting ==
    [consumer : Client, waitForCommit : BOOLEAN,
     mode : {"recursive", "poll"}, sync : BOOLEAN, batchSize : Nat \ {0},
     producer : Client \ {"stream"}, sends : [Request -> Nat],
     foreign : Seq(Form), faults : Nat]

\* A request sends at most one batch of domain and state events, so the bound of
\* the queue is met with small batches.
ASSUME KafkaAssumption ==
    /\ FaultKinds \subseteq Fault
    /\ QueueSize \in Nat \ {0}
    /\ Settings \subseteq Setting
    /\ "others" \notin Request

VARIABLES
    setting,    \* what this behaviour started from
    log,        \* the messages stored in the partition, oldest first
    committed,  \* how many of them the group has committed; Nothing at first
    faults      \* failures so far: how many, and of which kinds

kafkaVars == <<setting, log, committed, faults>>

Nothing == -1

\* A message of request r is its n-th; others store messages of any form.
Message == [form : Form, from : Request \union {"others"}, n : Nat]

Failure(kind) ==
    /\ kind \in FaultKinds
    /\ faults.count < setting.faults
    /\ faults' = [count |-> faults.count + 1, kinds |-> faults.kinds \union {kind}]

Store(messages) == log' = log \o messages

KafkaTypeOK ==
    /\ setting \in Settings
    /\ log \in Seq(Message)
    /\ committed \in {Nothing} \union 0..Len(log)
    /\ faults.count \in 0..setting.faults
    /\ faults.kinds \subseteq FaultKinds

KafkaInit ==
    /\ setting \in Settings
    /\ log = <<>>
    /\ committed = Nothing
    /\ faults = [count |-> 0, kinds |-> {}]

Foreign(form) == [form |-> form, from |-> "others", n |-> 0]
FromOthers    == Cardinality({i \in DOMAIN log : log[i].from = "others"})

\* Others store the next of their messages.
StoreForeign ==
    /\ FromOthers < Len(setting.foreign)
    /\ Store(<<Foreign(setting.foreign[FromOthers + 1])>>)
    /\ UNCHANGED <<setting, committed, faults>>

================================================================================
