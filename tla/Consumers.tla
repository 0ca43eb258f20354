-------------------------------- MODULE Consumers --------------------------------
(******************************************************************************)
(* The consumers of the repository, each the only member of its group: which  *)
(* message it hands to the callback, and what it commits when.  They differ in *)
(* what they hold besides the message at work: nothing (rdkafka, kafkajs), the *)
(* buffer of a Readable (stream), a queue of their own (generic, css), several *)
(* callbacks at once (css without sync).                                       *)
(******************************************************************************)
EXTENDS Kafka, FiniteSetsExt

VARIABLES
    mode,       \* "down", "running", "closed" (destroyed), "dead" (loop ended)
    next,       \* index of the next message the client fetches
    queue,      \* batches fetched that wait for their callback; for the stream
                \* client the messages in its buffer
    work,       \* batches whose callback runs: the message at hand and the rest
    pending,    \* a commit that was sent and not waited for; 0: none
    rebalance,  \* of the stream client: "none", "waiting" for the message at work,
                \* "joining" the group again
    handled,    \* index -> times the callback finished with the message
    skipped     \* messages passed over: stored before a client that starts at
                \* the latest offset had committed anything

consumerVars == <<mode, next, queue, work, pending, rebalance, handled, skipped>>
processVars  == <<mode, next, queue, work, pending, rebalance>>

Kind == setting.consumer

Unhandled  == [i \in {} |-> 0]
Times(i)   == IF i \in DOMAIN handled THEN handled[i] ELSE 0
HandledTimes(i) == [k \in DOMAIN handled \union {i} |-> Times(k) + IF k = i THEN 1 ELSE 0]

\* What a client can parse; css hands over what is not JSON as it is (and a
\* missing value ends its process).
Readable(i) == log[i].form \in {"subscribed", "other"} \/ (Kind = "css" /\ log[i].form = "garbled")

\* What the callback gets: only rdkafka looks at the names.
Wanted(i) == Readable(i) /\ (Kind = "rdkafka" => log[i].form = "subscribed")

\* Without a commit the group starts at the latest offset, unless the client
\* asks for the earliest.
FromBeginning == Kind \in {"kafkajs", "css"}
StartAt == IF committed # Nothing THEN committed + 1
           ELSE IF FromBeginning THEN 1 ELSE Len(log) + 1

\* A batch: the message at hand, the last one, and what to do with the former.
Batch(at, last, step) == [at |-> at, last |-> last, step |-> step]
Begin(i) == Batch(i, i, IF Readable(i) THEN "handle" ELSE "commit")
InHand   == work \union ToSet(queue)

\* Fetch from where the group is; what lies behind unhandled will stay so, but for
\* what the client still has in hand.
Rejoin ==
    /\ next' = StartAt
    /\ skipped' = skipped \union
           (IF committed = Nothing
            THEN {i \in 1..(StartAt - 1) : Times(i) = 0} \ {b.at : b \in InHand}
            ELSE {})

Idle == work = {} /\ queue = <<>>

\* The next message is there, and the client polls for it.
Fetched == mode = "running" /\ next <= Len(log)

ConsumerTypeOK ==
    /\ mode \in {"down", "running", "closed", "dead"}
    /\ next \in Nat
    /\ \A b \in InHand : /\ {b.at, b.last} \subseteq DOMAIN log
                         /\ b.step \in {"handle", "commit"}
    /\ pending \in 0..Len(log)
    /\ rebalance \in {"none", "waiting", "joining"}
    /\ DOMAIN handled \subseteq DOMAIN log
    /\ skipped \subseteq DOMAIN log

ConsumerInit ==
    /\ mode = "down"
    /\ next = 1
    /\ queue = <<>>
    /\ work = {}
    /\ pending = 0
    /\ rebalance = "none"
    /\ handled = Unhandled
    /\ skipped = {}

--------------------------------------------------------------------------------
(* Starting, one action for each client: connect, and subscribe when ready *)

Connect(kind) ==
    /\ Kind = kind
    /\ mode = "down"
    /\ mode' = "running"
    /\ Rejoin
    /\ UNCHANGED <<kafkaVars, queue, work, pending, rebalance, handled>>

RdkafkaInit == Connect("rdkafka")
GenericInit == Connect("generic")
StreamInit  == Connect("stream")
KafkajsInit == Connect("kafkajs")
CssConnect  == Connect("css")

--------------------------------------------------------------------------------
(* rdkafka: consume(1, callback), and again when the callback is through *)

\* A message of another name is committed without waiting, one without a value
\* not at all; one that cannot be parsed goes on to its commit.
RdkafkaTake ==
    /\ Kind = "rdkafka"
    /\ Fetched
    /\ work = {}
    /\ next' = next + 1
    /\ work' = IF log[next].form \in {"other", "null"} THEN {} ELSE {Begin(next)}
    /\ pending' = IF log[next].form = "other" THEN next ELSE pending
    /\ UNCHANGED <<kafkaVars, mode, queue, rebalance, handled, skipped>>

\* commitMessage (RDKAFKA_COMMIT_NO_WAIT) or commitMessageSync, which librdkafka
\* serves after the commits it still has to send.
RdkafkaCommit ==
    /\ Kind = "rdkafka"
    /\ mode = "running"
    /\ \E w \in work :
        /\ w.step = "commit"
        /\ work' = {}
        /\ \/ /\ setting.waitForCommit
              /\ committed' = w.at
              /\ pending' = 0
           \/ /\ ~setting.waitForCommit
              /\ pending' = w.at
              /\ UNCHANGED committed
    /\ UNCHANGED <<setting, log, faults, mode, next, queue, rebalance, handled, skipped>>

\* commitMessageSync throws, in a callback nobody awaits: the next consume() is
\* not reached and nothing is handled any more while the process lives.
RdkafkaCommitThrows ==
    /\ Kind = "rdkafka"
    /\ \E w \in work : w.step = "commit"
    /\ \/ mode = "closed" /\ UNCHANGED faults
       \/ mode = "running" /\ setting.waitForCommit /\ Failure("commit")
    /\ work' = {}
    /\ mode' = "dead"
    /\ UNCHANGED <<setting, log, committed, next, queue, pending, rebalance, handled, skipped>>

CommitArrives ==
    /\ pending > 0
    /\ committed' = pending
    /\ pending' = 0
    /\ UNCHANGED <<setting, log, faults, mode, next, queue, work, rebalance, handled, skipped>>

--------------------------------------------------------------------------------
(* generic: every message goes to a queue with one worker *)

GenericOnMessage ==
    /\ Kind = "generic"
    /\ Fetched
    /\ queue' = Append(queue, Begin(next))
    /\ next' = next + 1
    /\ UNCHANGED <<kafkaVars, mode, work, pending, rebalance, handled, skipped>>

GenericWork ==
    /\ Kind = "generic"
    /\ queue # <<>>
    /\ work = {}
    /\ work' = {Head(queue)}
    /\ queue' = Tail(queue)
    /\ UNCHANGED <<kafkaVars, mode, next, pending, rebalance, handled, skipped>>

\* commit() names no message: it commits whatever the group has fetched.
GenericCommit ==
    /\ Kind = "generic"
    /\ mode = "running"
    /\ \E w \in work : w.step = "commit"
    /\ work' = {}
    /\ committed' = next - 1
    /\ UNCHANGED <<setting, log, faults, mode, next, queue, pending, rebalance, handled, skipped>>

--------------------------------------------------------------------------------
(* stream: 'data' is paused while a message is at work, also for a rebalance; *)
(* the Readable fetches ahead all the same                                     *)

\* The buffer of 500 messages (highWaterMark) has room for all of an instance.
StreamPrefetch ==
    /\ Kind = "stream"
    /\ Fetched
    /\ queue' = Append(queue, Begin(next))
    /\ next' = next + 1
    /\ UNCHANGED <<kafkaVars, mode, work, pending, rebalance, handled, skipped>>

\* Mutant: the client is not paused while a message is at work.
StreamNotPaused ==
    /\ Kind = "stream"
    /\ queue # <<>>
    /\ rebalance # "waiting"
    /\ queue' = Tail(queue)
    /\ work' = IF Readable(Head(queue).at) THEN work \union {Head(queue)} ELSE work
    /\ UNCHANGED <<kafkaVars, mode, next, pending, rebalance, handled, skipped>>

\* What cannot be parsed is dropped, without a commit.
StreamOnMessage ==
    /\ Kind = "stream"
    /\ queue # <<>>
    /\ work = {}
    /\ rebalance # "waiting"
    /\ queue' = Tail(queue)
    /\ work' = IF Readable(Head(queue).at) THEN {Head(queue)} ELSE {}
    /\ UNCHANGED <<kafkaVars, mode, next, pending, rebalance, handled, skipped>>

StreamCommit ==
    /\ Kind = "stream"
    /\ mode = "running"
    /\ \E w \in work :
        /\ w.step = "commit"
        /\ committed' = w.at
    /\ work' = {}
    /\ UNCHANGED <<setting, log, faults, mode, next, queue, pending, rebalance, handled, skipped>>

\* The group rebalances: the client lets it at once when no message is at work.
StreamOnRebalance ==
    /\ Kind = "stream"
    /\ mode = "running"
    /\ rebalance = "none"
    /\ Failure("rebalance")
    /\ rebalance' = IF work = {} THEN "joining" ELSE "waiting"
    /\ UNCHANGED <<setting, log, committed, mode, next, queue, work, pending, handled, skipped>>

\* The message at work is committed: the stream is resumed, then the group let go on.
StreamRebalanceWaited ==
    /\ rebalance = "waiting"
    /\ work = {}
    /\ rebalance' = "joining"
    /\ UNCHANGED <<kafkaVars, mode, next, queue, work, pending, handled, skipped>>

\* The library has joined again and fetches from the commit.  The buffer is as it
\* was, and has been flowing since the callback.
StreamRejoin ==
    /\ rebalance = "joining"
    /\ rebalance' = "none"
    /\ Rejoin
    /\ UNCHANGED <<kafkaVars, mode, queue, work, pending, handled>>

--------------------------------------------------------------------------------
(* kafkajs: eachMessage, in the order of the partition *)

KafkajsEachMessage ==
    /\ Kind = "kafkajs"
    /\ Fetched
    /\ work = {}
    /\ work' = {Begin(next)}
    /\ next' = next + 1
    /\ UNCHANGED <<kafkaVars, mode, queue, pending, rebalance, handled, skipped>>

\* Mutant: the offset to commit counts the message twice.
KafkajsCommitNext ==
    /\ Kind = "kafkajs"
    /\ mode \in {"running", "closed"}
    /\ \E w \in work :
        /\ w.step = "commit"
        /\ committed' = w.at + 1
    /\ work' = {}
    /\ UNCHANGED <<setting, log, faults, mode, next, queue, pending, rebalance, handled, skipped>>

\* What is at work when the client disconnects is still committed.
KafkajsCommit ==
    /\ Kind = "kafkajs"
    /\ mode \in {"running", "closed"}
    /\ \E w \in work :
        /\ w.step = "commit"
        /\ committed' = w.at
    /\ work' = {}
    /\ UNCHANGED <<setting, log, faults, mode, next, queue, pending, rebalance, handled, skipped>>

\* The rejection reaches the library, which fetches again from the commit.
KafkajsCommitRejects ==
    /\ Kind = "kafkajs"
    /\ mode = "running"
    /\ \E w \in work : w.step = "commit"
    /\ Failure("commit")
    /\ work' = {}
    /\ Rejoin
    /\ UNCHANGED <<setting, log, committed, mode, queue, pending, rebalance, handled>>

--------------------------------------------------------------------------------
(* css: batches, by one at a time (sync) or as they come *)

FetchBatch(n) ==
    /\ Fetched
    /\ n \in 1..setting.batchSize
    /\ next + n - 1 <= Len(log)
    /\ next' = next + n

Messages(n) == Batch(next, next + n - 1, "handle")

\* With sync, recursive mode asks for the next batch only when this one is done;
\* poll mode asks on a timer.
CssConsumeSync(n) ==
    /\ Kind = "css"
    /\ setting.sync
    /\ setting.mode = "recursive" => Idle
    /\ FetchBatch(n)
    /\ queue' = Append(queue, Messages(n))
    /\ UNCHANGED <<kafkaVars, mode, work, pending, rebalance, handled, skipped>>

\* Without sync the callback is called and not awaited.
CssConsumeAsync(n) ==
    /\ Kind = "css"
    /\ ~setting.sync
    /\ FetchBatch(n)
    /\ work' = work \union {Messages(n)}
    /\ UNCHANGED <<kafkaVars, mode, queue, pending, rebalance, handled, skipped>>

\* Mutant: the queue has as many workers as there are batches.
CssWorkAtOnce ==
    /\ Kind = "css"
    /\ queue # <<>>
    /\ work' = work \union {Head(queue)}
    /\ queue' = Tail(queue)
    /\ UNCHANGED <<kafkaVars, mode, next, pending, rebalance, handled, skipped>>

CssWork ==
    /\ Kind = "css"
    /\ queue # <<>>
    /\ work = {}
    /\ work' = {Head(queue)}
    /\ queue' = Tail(queue)
    /\ UNCHANGED <<kafkaVars, mode, next, pending, rebalance, handled, skipped>>

GoOnWith(w) == IF w.at = w.last THEN {} ELSE {Batch(w.at + 1, w.last, "handle")}

\* The callback commits its message and takes the next of the batch.
CssCommit(w) ==
    /\ Kind = "css"
    /\ mode = "running"
    /\ w.step = "commit"
    /\ committed' = w.at
    /\ work' = (work \ {w}) \union GoOnWith(w)
    /\ UNCHANGED <<setting, log, faults, mode, next, queue, pending, rebalance, handled, skipped>>

\* Mutant: a message whose callback throws is handled again.
CssCallbackRetried(w) ==
    /\ Kind = "css"
    /\ mode = "running"
    /\ w.step = "handle"
    /\ Failure("reject")
    /\ handled' = HandledTimes(w.at)
    /\ UNCHANGED <<setting, log, committed, mode, next, queue, work, pending, rebalance, skipped>>

\* The callback throws: the message is committed all the same, what is left of
\* the batch is not looked at, and the error goes to the "error" listener.
CssCallbackThrows(w) ==
    /\ Kind = "css"
    /\ mode = "running"
    /\ w.step = "handle"
    /\ Failure("reject")
    /\ committed' = w.at
    /\ work' = work \ {w}
    /\ handled' = HandledTimes(w.at)
    /\ UNCHANGED <<setting, log, mode, next, queue, pending, rebalance, skipped>>

--------------------------------------------------------------------------------
(* What the clients have in common *)

\* The callback comes to its end.  Those of the event and command handlers catch
\* and log every error themselves.
Handle(w) ==
    /\ w.step = "handle"
    /\ handled' = HandledTimes(w.at)
    /\ work' = (work \ {w}) \union {[w EXCEPT !.step = "commit"]}
    /\ UNCHANGED <<kafkaVars, mode, next, queue, pending, rebalance, skipped>>

\* The error is logged or emitted and the client goes on, css without the rest of
\* the batch; a client that was destroyed cannot commit either.
CommitFails(w) ==
    /\ Kind \in {"generic", "stream", "css"}
    /\ w.step = "commit"
    /\ work' = work \ {w}
    /\ \/ mode = "closed" /\ UNCHANGED faults
       \/ mode = "running" /\ Failure("commit")
    /\ UNCHANGED <<setting, log, committed, mode, next, queue, pending, rebalance, handled, skipped>>

\* destroy(): what is queued or at work goes on, nothing more is fetched.  The
\* generic client is closed with a forced commit of what the group has fetched.
Destroy ==
    /\ mode = "running"
    /\ Failure("crash")
    /\ mode' = "closed"
    /\ rebalance' = "none"
    /\ committed' = IF Kind = "generic" /\ next > 1 /\ next - 1 \notin skipped
                    THEN next - 1 ELSE committed
    /\ UNCHANGED <<setting, log, next, queue, work, pending, handled, skipped>>

\* The process ends and is started again; a commit under way may be lost.
Exit ==
    /\ mode # "down"
    /\ IF mode = "running" THEN Failure("crash") ELSE UNCHANGED faults
    /\ mode' = "down"
    /\ queue' = <<>>
    /\ work' = {}
    /\ pending' = 0
    /\ rebalance' = "none"
    /\ UNCHANGED <<setting, log, committed, next, handled, skipped>>

--------------------------------------------------------------------------------
Start == RdkafkaInit \/ GenericInit \/ StreamInit \/ KafkajsInit \/ CssConnect

\* What a running consumer does by itself.
Consume ==
    \/ RdkafkaTake \/ RdkafkaCommit \/ CommitArrives
    \/ GenericOnMessage \/ GenericWork \/ GenericCommit
    \/ StreamPrefetch \/ StreamOnMessage \/ StreamCommit
    \/ StreamRebalanceWaited \/ StreamRejoin
    \/ KafkajsEachMessage \/ KafkajsCommit
    \/ \E n \in 1..setting.batchSize : CssConsumeSync(n) \/ CssConsumeAsync(n)
    \/ CssWork
    \/ \E w \in work : Handle(w) \/ CssCommit(w)

ConsumerFails ==
    \/ RdkafkaCommitThrows
    \/ StreamOnRebalance
    \/ KafkajsCommitRejects
    \/ \E w \in work : CssCallbackThrows(w) \/ CommitFails(w)
    \/ Destroy
    \/ Exit

================================================================================
