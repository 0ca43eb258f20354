-------------------------------- MODULE Producers --------------------------------
(******************************************************************************)
(* The producers of one process: when the promise of a request to send is      *)
(* settled, and what is in the partition then.  The API adapter's (css) keeps  *)
(* a list with one producer per topic and makes it on the first use; the other *)
(* processes have one producer from the start.                                 *)
(******************************************************************************)
EXTENDS Kafka

VARIABLES
    send,         \* Request -> how far it is, and messages not acknowledged yet
    using,        \* Request -> the producer it was given, or 0
    listed,       \* listOfProducers[topic]: the producer, or 0
    outbox,       \* producer -> messages in its local queue, oldest first
    overwritten,  \* producers that lost their place in the list to another
    sentAfter     \* pairs of requests: the first was resolved before the second

producerVars == <<send, using, listed, outbox, overwritten, sentAfter>>

SendState == {"idle", "connecting", "sending", "resolved", "rejected", "lost"}
Resolved(r) == send[r].state = "resolved"
Made       == DOMAIN outbox
Css        == setting.producer = "css"

\* connectAll, at the start of the adapter, is a request that sends nothing.
Batched(r) == [n \in 1..setting.sends[r] |-> [form |-> "subscribed", from |-> r, n |-> n]]
Stored(r)  == {n \in 1..setting.sends[r] : Contains(log, Batched(r)[n])}
Busy(p)    == outbox[p] # <<>>

Is(state, acks) == [state |-> state, acks |-> acks]
Becomes(r, state, acks) == send' = [send EXCEPT ![r] = Is(state, acks)]
Queue(p, messages) == outbox' = [outbox EXCEPT ![p] = @ \o messages]

\* Who was resolved when r is called.
Comes(r) == sentAfter' = sentAfter \union {<<s, r>> : s \in {x \in Request : Resolved(x)}}

ProducerTypeOK ==
    /\ send \in [Request -> [state : SendState, acks : Nat]]
    /\ using \in [Request -> Made \union {0}]
    /\ listed \in Made \union {0}
    /\ \A p \in Made : outbox[p] \in Seq(Message) /\ Len(outbox[p]) <= QueueSize
    /\ overwritten \subseteq Made
    /\ sentAfter \subseteq Request \X Request

ProducerInit ==
    /\ send = [r \in Request |-> Is("idle", 0)]
    /\ using = [r \in Request |-> 0]
    /\ listed = 0
    /\ outbox = IF Css THEN [p \in {} |-> <<>>] ELSE [p \in {1} |-> <<>>]
    /\ overwritten = {}
    /\ sentAfter = {}

--------------------------------------------------------------------------------
(* The producers of the library: one for all requests *)

\* Mutant: the promise is resolved as soon as all messages are queued.
RdkafkaSendQueued(r) ==
    LET room == QueueSize - Len(outbox[1])
        all  == Batched(r)
    IN  /\ setting.producer = "rdkafka"
        /\ send[r].state = "idle"
        /\ Len(all) > 0
        /\ Comes(r)
        /\ Queue(1, SubSeq(all, 1, IF Len(all) < room THEN Len(all) ELSE room))
        /\ Becomes(r, IF Len(all) > room THEN "rejected" ELSE "resolved", Len(all))
        /\ UNCHANGED <<kafkaVars, using, listed, overwritten>>

\* produce() throws at the message for which the local queue has no room: the
\* promise is rejected, but what was produced before is on its way.
RdkafkaSend(r) ==
    LET room == QueueSize - Len(outbox[1])
        all  == Batched(r)
    IN  /\ setting.producer = "rdkafka"
        /\ send[r].state = "idle"
        /\ Len(all) > 0
        /\ Comes(r)
        /\ Queue(1, SubSeq(all, 1, IF Len(all) < room THEN Len(all) ELSE room))
        /\ Becomes(r, IF Len(all) > room THEN "rejected" ELSE "sending", Len(all))
        /\ UNCHANGED <<kafkaVars, using, listed, overwritten>>

\* Mutant: the report for the last message is not counted.
RdkafkaDeliveredNotLast ==
    /\ setting.producer = "rdkafka"
    /\ Busy(1)
    /\ LET m == Head(outbox[1])
           r == m.from
       IN  /\ Store(<<m>>)
           /\ IF send[r].state # "sending" \/ send[r].acks = 1 THEN UNCHANGED send
              ELSE Becomes(r, "sending", send[r].acks - 1)
    /\ outbox' = [outbox EXCEPT ![1] = Tail(@)]
    /\ UNCHANGED <<setting, committed, faults, using, listed, overwritten, sentAfter>>

\* A delivery report: the promise is resolved with the last one.
RdkafkaDelivered ==
    /\ setting.producer = "rdkafka"
    /\ Busy(1)
    /\ LET m == Head(outbox[1])
           r == m.from
       IN  /\ Store(<<m>>)
           /\ IF send[r].state # "sending" THEN UNCHANGED send
              ELSE Becomes(r, IF send[r].acks = 1 THEN "resolved" ELSE "sending",
                           send[r].acks - 1)
    /\ outbox' = [outbox EXCEPT ![1] = Tail(@)]
    /\ UNCHANGED <<setting, committed, faults, using, listed, overwritten, sentAfter>>

\* The first report of an error rejects the promise, and no later one resolves
\* it.  The message may have been stored.
RdkafkaNotDelivered ==
    /\ setting.producer = "rdkafka"
    /\ Busy(1)
    /\ Failure("ack")
    /\ LET m == Head(outbox[1])
       IN  /\ Store(<<m>>) \/ UNCHANGED log
           /\ IF send[m.from].state # "sending" THEN UNCHANGED send
              ELSE Becomes(m.from, "rejected", send[m.from].acks)
    /\ outbox' = [outbox EXCEPT ![1] = Tail(@)]
    /\ UNCHANGED <<setting, committed, using, listed, overwritten, sentAfter>>

\* kafka-node and kafkajs send the batch in one call and wait for all replicas.
Send(kind, r) ==
    /\ setting.producer = kind
    /\ send[r].state = "idle"
    /\ Len(Batched(r)) > 0
    /\ Comes(r)
    /\ Becomes(r, "sending", Len(Batched(r)))
    /\ UNCHANGED <<kafkaVars, using, listed, outbox, overwritten>>

GenericSend(r) == Send("generic", r)
KafkajsSend(r) == Send("kafkajs", r)

GenericSent(r) ==
    /\ setting.producer \in {"generic", "kafkajs"}
    /\ send[r].state = "sending"
    /\ \/ /\ Store(Batched(r))
          /\ Becomes(r, "resolved", 0)
          /\ UNCHANGED faults
       \/ /\ Failure("ack")
          /\ Store(Batched(r)) \/ UNCHANGED log
          /\ Becomes(r, "rejected", 0)
    /\ UNCHANGED <<setting, committed, using, listed, outbox, overwritten, sentAfter>>

--------------------------------------------------------------------------------
(* The adapter's list of producers: produceMessage and connectAll *)

\* The check: the listed producer, or a new one that has to connect.
GetProducer(r) ==
    /\ send[r].state = "idle"
    /\ IF listed # 0
       THEN /\ using' = [using EXCEPT ![r] = listed]
            /\ Becomes(r, "sending", 0)
       ELSE /\ using' = [using EXCEPT ![r] = 0]
            /\ Becomes(r, "connecting", 0)
    /\ Comes(r)
    /\ UNCHANGED <<kafkaVars, listed, outbox, overwritten>>

ProduceMessage(r) == Css /\ setting.sends[r] > 0 /\ GetProducer(r)
ConnectAll(r)     == Css /\ setting.sends[r] = 0 /\ GetProducer(r)

\* Mutant: the producer is not entered into the list.
ConnectedUnlisted(r) ==
    LET p == Cardinality(Made) + 1
    IN  /\ send[r].state = "connecting"
        /\ outbox' = [x \in Made \union {p} |-> IF x = p THEN <<>> ELSE outbox[x]]
        /\ using' = [using EXCEPT ![r] = p]
        /\ Becomes(r, "sending", 0)
        /\ UNCHANGED <<kafkaVars, listed, overwritten, sentAfter>>

\* connect() is awaited between the check and the entry into the list: of two
\* requests that found none the later one wins, and the other's producer stays
\* connected with what it has queued.
Connected(r) ==
    LET p == Cardinality(Made) + 1
    IN  /\ send[r].state = "connecting"
        /\ outbox' = [x \in Made \union {p} |-> IF x = p THEN <<>> ELSE outbox[x]]
        /\ listed' = p
        /\ overwritten' = overwritten \union ({listed} \ {0})
        /\ using' = [using EXCEPT ![r] = p]
        /\ Becomes(r, "sending", 0)
        /\ UNCHANGED <<kafkaVars, sentAfter>>

\* What a process has queued, and the requests it has at hand, end with it; its
\* successor starts with an empty list.
SenderForgets ==
    /\ send' = [r \in Request |-> IF send[r].state \in {"connecting", "sending"}
                                  THEN Is("lost", 0) ELSE send[r]]
    /\ listed' = 0
    /\ outbox' = [p \in Made |-> <<>>]
    /\ UNCHANGED <<setting, log, committed, using, overwritten, sentAfter>>

\* The producer emits its errors as events that nobody listens to: one that cannot
\* connect does not reject, it ends the process.
ConnectFails ==
    /\ \E r \in Request : send[r].state = "connecting"
    /\ Failure("connect")
    /\ SenderForgets

\* sendMessage: resolved once the message is in the local queue.
SendMessage(r) ==
    LET p == using[r]
        fits == Len(outbox[p]) + setting.sends[r] <= QueueSize
    IN  /\ Css
        /\ send[r].state = "sending"
        /\ IF fits THEN Queue(p, Batched(r)) ELSE UNCHANGED outbox
        /\ Becomes(r, IF fits THEN "resolved" ELSE "rejected", 0)
        /\ UNCHANGED <<kafkaVars, using, listed, overwritten, sentAfter>>

\* The delivery report is only logged.
CssDelivered(p) ==
    /\ Css
    /\ Busy(p)
    /\ \/ Store(<<Head(outbox[p])>>) /\ UNCHANGED faults
       \/ Failure("ack") /\ UNCHANGED log
    /\ outbox' = [outbox EXCEPT ![p] = Tail(@)]
    /\ UNCHANGED <<setting, committed, send, using, listed, overwritten, sentAfter>>

--------------------------------------------------------------------------------
SenderExits == Failure("senderCrash") /\ SenderForgets

Call(r) == \/ RdkafkaSend(r) \/ GenericSend(r) \/ KafkajsSend(r)
           \/ ProduceMessage(r) \/ ConnectAll(r)

\* What the producers do by themselves.
Produce == \/ RdkafkaDelivered
           \/ \E r \in Request : GenericSent(r) \/ Connected(r) \/ SendMessage(r)
           \/ \E p \in Made : CssDelivered(p)

ProducerFails == \/ RdkafkaNotDelivered
                 \/ ConnectFails
                 \/ SenderExits

================================================================================
