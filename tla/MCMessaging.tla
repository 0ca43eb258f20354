------------------------------- MODULE MCMessaging -------------------------------
(******************************************************************************)
(* Values of the constants of Messaging for TLC: every consumer with messages *)
(* of others, every producer with three requests.                             *)
(******************************************************************************)
EXTENDS Messaging

CONSTANTS r1, r2, r3

Quiet == r1 :> 0 @@ r2 :> 0 @@ r3 :> 0

Clients(consumer, producer, sends, foreign, n) ==
    [consumer |-> consumer, waitForCommit |-> TRUE, mode |-> "recursive", sync |-> TRUE,
     batchSize |-> 1, producer |-> producer, sends |-> sends, foreign |-> foreign, faults |-> n]

Mixed == <<"subscribed", "other", "garbled", "null", "subscribed">>
Plain == <<"subscribed", "other", "garbled", "subscribed">>

\* Consumers: the messages of others, two failures.
Consuming ==
    {Clients(ConsumerOf(t), "rdkafka", Quiet, Mixed, 2) : t \in InfraType}
    \union {[Clients("rdkafka", "rdkafka", Quiet, Mixed, 2) EXCEPT !.waitForCommit = FALSE]}
    \union {[Clients("css", "rdkafka", Quiet, Plain, 2) EXCEPT
                 !.mode = m, !.sync = s, !.batchSize = b] :
                 m \in {"recursive", "poll"}, s \in BOOLEAN, b \in {1, 2}}

\* Producers: two batches of two events; the adapter's three requests, one of
\* them the connection of all producers; either with a failure.
Events   == r1 :> 2 @@ r2 :> 2 @@ r3 :> 1
Requests == r1 :> 0 @@ r2 :> 1 @@ r3 :> 1
Producing ==
    {Clients(ConsumerOf(t), ProducerOf(t), Events, <<>>, 1) : t \in InfraType}
    \union {Clients("css", "css", Requests, <<>>, 1)}

MCSettings == Consuming \union Producing
================================================================================
