----------------------------- MODULE SnapshotOperator -----------------------------
(******************************************************************************)
(* The snapshot operator of the participants: it counts the state events of   *)
(* every participant and, at a timer, asks for a snapshot of those that are   *)
(* due.  Its counters are saved in redis after every message and loaded again *)
(* before every execution.                                                    *)
(******************************************************************************)
EXTENDS Aggregates, FiniteSetsExt

VARIABLES
    up,         \* the operator runs
    counters,   \* id -> its ParticipantSnapshotState, for the ids it knows
    saved,      \* the same, as redis has it
    ticks,      \* execute commands of the timer in the topic
    batches,    \* ids whose snapshot commands are being published, oldest first
    heard,      \* state events and snapshots it has committed
    since,      \* id -> state events it was told of since its last snapshot, repeats included
    hours       \* hours that have passed

operatorVars == <<up, counters, saved, ticks, batches, heard, since, hours>>

\* lastSnapshotTs is 0 at first, and too old after an hour.
ParticipantSnapshotState(left, last) == [left |-> left, last |-> last]
Unseen  == ParticipantSnapshotState(MaxEvents, "never")
Unknown == [id \in {} |-> Unseen]

\* Entries of m before those of n.
Over(m, n) == [id \in DOMAIN m \union DOMAIN n |-> IF id \in DOMAIN m THEN m[id] ELSE n[id]]
Only(id, s) == [i \in {id} |-> s]

OperatorTypeOK ==
    /\ up \in BOOLEAN
    /\ \A c \in {counters, saved} :
          /\ DOMAIN c \subseteq Id \union {Key(id) : id \in Id}
          /\ \A id \in DOMAIN c : /\ c[id].left \in Int /\ c[id].left <= MaxEvents
                                  /\ c[id].last \in {"never", "recent", "old"}
    /\ ticks \in 0..MaxPending
    /\ \A k \in DOMAIN batches : batches[k] # {}
    /\ heard.events \in 0..Len(events) /\ heard.snapshots \in 0..Len(snapshots)
    /\ since \in [Id -> Nat]
    /\ hours \in 0..setting.hours

OperatorInit ==
    /\ up = FALSE
    /\ counters = Unknown
    /\ saved = Unknown
    /\ ticks = 0
    /\ batches = <<>>
    /\ heard = [events |-> 0, snapshots |-> 0]
    /\ since = [id \in Id |-> 0]
    /\ hours = 0

\* What the operator loads replaces what it has, id by id.
LoadState == Over(saved, counters)

StartOperator ==
    /\ Opened("SnapshotOperator", "ids") /\ ~up
    /\ process.phase # "stopping"
    /\ up' = TRUE
    /\ counters' = Over(LoadState, [key \in GetAllIds |-> Unseen])
    /\ UNCHANGED <<repoVars, handlerVars, saved, ticks, batches, heard, since, hours>>

--------------------------------------------------------------------------------
(* The messages, one at a time *)

\* Redis takes the counters as they are now, or fails; an error is swallowed.
UpdateState == \/ saved' = counters' /\ UNCHANGED faults
               \/ Fails("state") /\ UNCHANGED saved

OperatorForgets == up' = FALSE /\ counters' = Unknown /\ batches' = <<>>

\* next are the counters from now on, and more what is being published; then the
\* message is committed.  Or the process ends after it saved its counters and
\* before the commit, or the consumer is gone by then.
Committed(next, more, commit) ==
    \/ /\ counters' = next /\ batches' = more
       /\ commit
       /\ UpdateState
       /\ UNCHANGED <<process, up>>
    \/ /\ counters' = next /\ batches' = more
       /\ CommitRefused("SnapshotOperator")
       /\ saved' = next
       /\ UNCHANGED <<up, ticks, heard>>
    \/ /\ Fails("operatorCrash")
       /\ OperatorForgets
       /\ saved' = next
       /\ UNCHANGED <<process, ticks, heard>>

\* The operator takes a message.
Takes == up /\ Opened("SnapshotOperator", "consumer")

Reset(id) == Over(Only(id, ParticipantSnapshotState(MaxEvents, "recent")), counters)
Count(id) == Over(Only(id, [counters[id] EXCEPT !.left = @ - 1]), counters)
Added(id) == Over(Only(id, Unseen), counters)

\* Mutant: the count is kept in memory until the next save.
HearStateEventUnsaved ==
    LET evt == events[heard.events + 1]
    IN  /\ Takes /\ heard.events < Len(events)
        /\ counters' = IF evt.id \in DOMAIN counters THEN Count(evt.id) ELSE Added(evt.id)
        /\ heard' = [heard EXCEPT !.events = @ + 1]
        /\ since' = [since EXCEPT ![evt.id] =
                        IF evt.id \in DOMAIN counters THEN @ + 1 ELSE @]
        /\ UNCHANGED <<repoVars, handlerVars, up, saved, ticks, batches, hours>>

\* A participant the operator does not know is only added: its event is not counted.
HearStateEvent ==
    LET evt  == events[heard.events + 1]
        next == IF evt.id \in DOMAIN counters THEN Count(evt.id) ELSE Added(evt.id)
    IN  /\ Takes /\ heard.events < Len(events)
        /\ Committed(next, batches,
                     heard' = [heard EXCEPT !.events = @ + 1] /\ UNCHANGED ticks)
        /\ since' = [since EXCEPT ![evt.id] =
                        IF evt.id \in DOMAIN counters THEN @ + 1 ELSE @]
        /\ UNCHANGED <<setting, memory, redis, known, owner, root, handlerVars, hours>>

HearSnapshot ==
    LET evt  == snapshots[heard.snapshots + 1]
        next == IF evt.id \in DOMAIN counters THEN Reset(evt.id) ELSE Added(evt.id)
    IN  /\ Takes /\ heard.snapshots < Len(snapshots)
        /\ Committed(next, batches,
                     heard' = [heard EXCEPT !.snapshots = @ + 1] /\ UNCHANGED ticks)
        /\ since' = [since EXCEPT ![evt.id] =
                        IF evt.id \in DOMAIN counters THEN 0 ELSE @]
        /\ UNCHANGED <<setting, memory, redis, known, owner, root, handlerVars, hours>>

\* What executions have under way: kept below MaxPending.
Pending == ticks + Len(batches) + Len(commands) + Len(snapshots) - heard.snapshots

\* The timer asks for an execution.
OnTimer ==
    /\ up /\ Opened("SnapshotOperator", "timer")
    /\ process.phase # "stopping"
    /\ Pending < MaxPending
    /\ ticks' = ticks + 1
    /\ UNCHANGED <<repoVars, handlerVars, up, counters, saved, batches, heard, since, hours>>

\* Mutant: a participant is due when its counter is at zero, not behind it.
DueAtZero(state) == state.left = 0 \/ state.last # "recent"

Due(state) == state.left <= 0 \/ state.last # "recent"

\* Load, then publish the commands of the participants that are due, without
\* waiting for them.  A load that fails ends the execution.
Execute ==
    LET next == LoadState
        due  == {id \in DOMAIN next : Due(next[id])}
    IN  /\ Takes /\ ticks > 0
        /\ \/ Committed(next, IF due = {} THEN batches ELSE Append(batches, due),
                        ticks' = ticks - 1 /\ UNCHANGED heard)
           \/ /\ Fails("state")
              /\ ticks' = ticks - 1
              /\ UNCHANGED <<process, up, counters, saved, batches, heard>>
        /\ UNCHANGED <<setting, memory, redis, known, owner, root, handlerVars, since, hours>>

\* The commands are out, and the counters, whatever they are by now, are saved
\* once more.
PublishCommands ==
    /\ batches # <<>> /\ Opened("SnapshotOperator", "publisher")
    /\ commands' = commands \o SetToSeq({SnapshotParticipantStateCmd(id) : id \in Head(batches)})
    /\ batches' = Tail(batches)
    /\ saved' = IF Opened("SnapshotOperator", "repo") THEN counters ELSE saved
    /\ UNCHANGED <<repoVars, asked, step, answer, events, snapshots,
                   up, counters, ticks, heard, since, hours>>

\* Some were refused: that is logged.
PublishCommandsFails ==
    /\ batches # <<>>
    /\ Fails("publish")
    /\ \E sent \in SUBSET Head(batches) :
          commands' = commands \o SetToSeq({SnapshotParticipantStateCmd(id) : id \in sent})
    /\ batches' = Tail(batches)
    /\ UNCHANGED <<setting, process, memory, redis, known, owner, root, asked, step, answer, events,
                   snapshots, up, counters, saved, ticks, heard, since, hours>>

Operate == StartOperator \/ OnTimer \/ Execute \/ HearStateEvent \/ HearSnapshot
           \/ PublishCommands

CrashOperator ==
    /\ up
    /\ Fails("operatorCrash")
    /\ OperatorForgets
    /\ UNCHANGED <<setting, process, memory, redis, known, owner, root, handlerVars,
                   saved, ticks, heard, since, hours>>

\* An hour passes; snapshots taken before are too old.
Hour ==
    /\ Runs("SnapshotOperator")
    /\ hours < setting.hours
    /\ hours' = hours + 1
    /\ LET Aged(c) == [id \in DOMAIN c |->
                          IF c[id].last = "recent" THEN [c[id] EXCEPT !.last = "old"] ELSE c[id]]
       IN  counters' = Aged(counters) /\ saved' = Aged(saved)
    /\ UNCHANGED <<repoVars, handlerVars, up, ticks, batches, heard, since>>

================================================================================
