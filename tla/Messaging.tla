-------------------------------- MODULE Messaging --------------------------------
(******************************************************************************)
(* A producer and a consumer of the repository around one partition.  The     *)
(* deployment takes rdkafka on both sides, the API adapter css; the other     *)
(* clients are chosen by the configuration.                                   *)
(******************************************************************************)
EXTENDS Consumers, Producers

vars == <<kafkaVars, consumerVars, producerVars>>

\* appConfig.kafka.producer and .consumer; a name with no case stops the start.
InfraType == {"node-kafka", "node-kafka-stream", "kafkajs", "node-rdkafka"}
ProducerOf(type) == CASE type \in {"node-kafka", "node-kafka-stream"} -> "generic"
                      [] type = "kafkajs"      -> "kafkajs"
                      [] type = "node-rdkafka" -> "rdkafka"
ConsumerOf(type) == CASE type = "node-kafka"        -> "generic"
                      [] type = "node-kafka-stream" -> "stream"
                      [] type = "kafkajs"           -> "kafkajs"
                      [] type = "node-rdkafka"      -> "rdkafka"

TypeOK == KafkaTypeOK /\ ConsumerTypeOK /\ ProducerTypeOK

Init == KafkaInit /\ ConsumerInit /\ ProducerInit

ConsumerSteps == (Start \/ Consume) /\ UNCHANGED producerVars
ProducerSteps == Produce /\ UNCHANGED consumerVars

Next ==
    \/ ConsumerSteps
    \/ ProducerSteps
    \/ StoreForeign /\ UNCHANGED <<consumerVars, producerVars>>
    \/ \E r \in Request : Call(r) /\ UNCHANGED consumerVars
    \/ ConsumerFails /\ UNCHANGED producerVars
    \/ ProducerFails /\ UNCHANGED consumerVars

Spec == Init /\ [][Next]_vars

\* The clients go on by themselves and a process that ended is started again;
\* nobody has to send.  What there is to do ends, so it is enough that some client
\* goes on as long as one can.
FairSpec == Spec /\ WF_vars(ConsumerSteps \/ ProducerSteps)

--------------------------------------------------------------------------------
(* Properties *)

\* Clients that commit one message they have finished with before the next.
OneByOne == \/ Kind \in {"rdkafka", "stream", "kafkajs"}
            \/ Kind = "css" /\ setting.sync /\ setting.batchSize = 1
InFlight == UNION {b.at..b.last : b \in InHand}

\* A restart finds everything it has to do: what a group has committed its handler
\* has finished with.  The generic client, and css with several messages at once,
\* commit messages that wait or run beside the one at hand; their processes lose
\* them when they stop.
CommittedIsHandled ==
    \A i \in 1..committed : Wanted(i) /\ i \notin skipped /\ Times(i) = 0 =>
        /\ ~OneByOne
        /\ faults.count = 0 => i \in InFlight

\* The order of a partition is the order in which its messages are handled: the
\* commands of one aggregate rely on it.  Not so for css without sync, nor for a
\* client that lost messages (see above).
HandledInOrder ==
    OneByOne \/ (faults.count = 0 /\ (Kind = "css" => setting.sync)) =>
        \A j \in DOMAIN handled : \A i \in 1..(j - 1) :
            Wanted(i) /\ i \notin skipped => Times(i) > 0

\* A message is handled again only after a failure, once for each, and then after
\* one that makes the client fetch again: a crash, a commit that failed, or a
\* rebalance, which leaves the stream client's buffer and fetches from the commit,
\* however often the messages in the buffer were fetched before.  A callback that
\* throws and what fails at the producers repeat nothing.
Refetching == {"crash", "commit", "rebalance"}
RepeatsNeedFaults ==
    \A i \in DOMAIN handled :
        /\ Times(i) <= 1 + faults.count
        /\ faults.kinds \cap Refetching = {} => Times(i) <= 1

\* A promise to send resolved means that the brokers have the whole batch, and
\* what they have of a batch is its beginning (a domain event, not the state event
\* after it) unless a delivery failed.  The adapter's producer promises less.
ResolvedIsStored ==
    \A r \in Request :
        /\ Resolved(r) /\ ~Css => Stored(r) = 1..setting.sends[r]
        /\ "ack" \notin faults.kinds => Stored(r) = 1..Cardinality(Stored(r))

\* What is sent after an earlier promise was resolved is stored after it; in the
\* adapter this takes that no two requests made the topic's producer at once.
SentInOrder ==
    overwritten = {} =>
        \A s, r \in Request : <<s, r>> \in sentAfter =>
            \A i, j \in DOMAIN log : log[i].from = s /\ log[j].from = r => i < j

\* Every promise is settled, and what was promised arrives: a message of a resolved
\* request is handled in the end (unless its process or a delivery failed in the
\* adapter), like every message stored behind the consumer's start, as long as a
\* consumer is running and has lost none.
Arrives ==
    <>[](/\ \A r \in Request : send[r].state \notin {"connecting", "sending"}
         /\ \A r \in Request : Resolved(r) /\ faults.kinds \subseteq {"commit", "rebalance"} =>
                                   Stored(r) = 1..setting.sends[r]
         /\ mode = "running" /\ (OneByOne \/ faults.count = 0) =>
                \A i \in DOMAIN log : Wanted(i) /\ i \notin skipped => Times(i) > 0)

================================================================================
