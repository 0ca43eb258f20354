--------------------------- MODULE ParticipantLedger ---------------------------
(******************************************************************************)
(* The participants command handler seen as a ledger: what the published      *)
(* events say each participant owes, against the copies of its position.      *)
(* These properties are about a run in which one process takes all commands   *)
(* of a participant, and in which reads and commits may fail; a crash, a      *)
(* partition that moves, or a failed publication or store breaks them.        *)
(******************************************************************************)
EXTENDS ParticipantCommands, Functions

\* Only finitely many transfers add up to a position.
ASSUME TransfersAssumption == IsFiniteSet(Transfer)

Reservations(t) == domainLog[<<Cmd("Reserve", t), "PayerFundsReserved">>]
Commitments(t)  == domainLog[<<Cmd("Commit", t), "PayeeFundsCommitted">>]

\* The position the domain events add up to.
Debits(x)  == [t \in Transfer |-> IF Payer[t] = x THEN Amount[t] * Reservations(t) ELSE 0]
Credits(x) == [t \in Transfer |-> IF Payee[t] = x THEN Amount[t] * Commitments(t) ELSE 0]

Net(x) == InitialPosition[x] + SumFunction(Debits(x)) - SumFunction(Credits(x))

Opened(x)   == stateLog[x] # <<>>
Current(x)  == stateLog[x][Len(stateLog[x])]
Standing(x) == IF Opened(x) THEN Current(x) ELSE Absent

\* A process moves x's position between its ruling and the end of its store.
Moving(x) == \E p \in Proc : pc[p] \in {"publish", "store"} /\ Root(cur[p]) = x

\* Between commands the domain events, the state events, redis and the memory
\* of the process that takes the participant's commands tell one position:
\* no update is lost between the aggregate, the publisher and the repository.
LedgerAgrees ==
    \A x \in Participant :
        Opened(x) /\ ~Moving(x) =>
            /\ Current(x) = Net(x)
            /\ redis[x] = Net(x)
            /\ memory[owner[FundsPartition[x]]][x] \in {Absent, Net(x)}

\* The sum of what was granted to the payer stays under the cap although
\* several processes rule concurrently on different participants.
NetUnderCap ==
    \A x \in Participant : Opened(x) => Capped(x, Net(x))

\* The documented order, "Update PayerFSP state with Position Change (in-memory
\* & persisted)" before "Publish PayerFundsReservedEvt": between commands redis
\* holds what the stream last announced.
PersistedWithPublication ==
    \A x \in Participant : Opened(x) /\ ~Moving(x) => redis[x] = Current(x)

\* The documented lookup of the counterparty, "Load PayeeFSP (no-in-memory)": a
\* process keeps in memory only participants whose commands it takes.
CounterpartyNotCached ==
    \A p \in Proc, x \in Participant : memory[p][x] # Absent =>
        p \in {owner[FundsPartition[x]], owner[KeyPartition[x]]}

Answers(c) == SumFunction([n \in EventName |-> domainLog[<<c, n>>]])

\* Each copy of a command gets at most one answer.
AnsweredOnce == \A c \in Command : Answers(c) <= Copies(c)

\* The handler implements the abstract ledger: every publication is one
\* indivisible opening, reservation or settlement.
Ledger == INSTANCE NetDebitCap WITH
    net      <- [x \in Participant |-> Standing(x)],
    reserved <- [t \in Transfer |-> Reservations(t)],
    settled  <- [t \in Transfer |-> Commitments(t)]

ImplementsLedger == Ledger!Spec

================================================================================
