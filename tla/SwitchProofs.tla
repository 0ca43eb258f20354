------------------------------ MODULE SwitchProofs ------------------------------
(******************************************************************************)
(* Proofs about Switch, for every value of its constants: type correctness,   *)
(* that every message, every status and every callback has the cause it must  *)
(* have, that only a failure moves the same funds twice, and that without one *)
(* the positions and the statuses agree whenever the switch comes to rest.    *)
(******************************************************************************)
EXTENDS Switch, Sums, FiniteSetTheorems, TLAPS

--------------------------------------------------------------------------------
(* The inductive invariants *)

\* What a handler has in hand is a message of a queue it reads, and the first
\* behind its offset that it subscribed to.
HandOK(g) ==
    hand[g] # NoHand =>
        /\ hand[g].queue \in Reads(g)
        /\ hand[g].at \in (offset[g][hand[g].queue] + 1)..Len(log[hand[g].queue])
        /\ Due(g, hand[g].queue, hand[g].at)

LogOK ==
    \A q \in Queue :
        /\ \A i \in DOMAIN log[q] : log[q][i].queue = q
        /\ \A g \in Group : offset[g][q] <= Len(log[q])

TypeInv == /\ TypeOK
           /\ hand = [g \in Group |-> hand[g]]
           /\ LogOK
           /\ \A g \in Group : HandOK(g)

\* What a message that was published says of those published before it.
Caused(m) ==
    LET t == m.t
    IN  /\ m.name = "TransferFulfilRequestedEvt" => m = TransferFulfilRequestedEvt(t, m.how)
        /\ m.name = "FulfilTransferCmd" =>
              m = FulfilTransferCmd(t, m.how) /\ Published(TransferFulfilRequestedEvt(t, m.how))
        /\ m.name = "TransferPrepareAcceptedEvt" => m = TransferPrepareAcceptedEvt(t)
        /\ m.name = "ReservePayerFundsCmd" =>
              /\ m = ReservePayerFundsCmd(t)
              /\ Published(TransferPrepareAcceptedEvt(t))
              /\ Payer[t] \in setting.registered
        /\ m.name = "PayerFundsReservedEvt" =>
              m = PayerFundsReservedEvt(t) /\ Published(ReservePayerFundsCmd(t))
        /\ m.name = "AckPayerFundsReservedCmd" =>
              m = AckPayerFundsReservedCmd(t) /\ Published(PayerFundsReservedEvt(t))
        /\ m.name = "TransferPreparedEvt" =>
              m = TransferPreparedEvt(t) /\ Published(AckPayerFundsReservedCmd(t))
        /\ m.name = "TransferFulfilAcceptedEvt" =>
              /\ m = TransferFulfilAcceptedEvt(t)
              /\ Published(TransferPreparedEvt(t))
              /\ Published(FulfilTransferCmd(t, "commit"))
        /\ m.name = "CommitPayeeFundsCmd" =>
              /\ m = CommitPayeeFundsCmd(t)
              /\ Published(TransferFulfilAcceptedEvt(t))
              /\ Payee[t] \in setting.registered
        /\ m.name = "PayeeFundsCommittedEvt" =>
              m = PayeeFundsCommittedEvt(t) /\ Published(CommitPayeeFundsCmd(t))
        /\ m.name = "AckPayeeFundsCommittedCmd" =>
              m = AckPayeeFundsCommittedCmd(t) /\ Published(PayeeFundsCommittedEvt(t))
        /\ m.name = "TransferFulfilledEvt" =>
              m = TransferFulfilledEvt(t) /\ Published(AckPayeeFundsCommittedCmd(t))

MessagesCaused == \A q \in Queue : \A i \in DOMAIN log[q] : Caused(log[q][i])

\* A transfer is RESERVED in redis, or about to be, only once it is prepared.
ReservedCaused ==
    /\ \A t \in Transfer : status[t] = "RESERVED" => Published(TransferPreparedEvt(t))
    /\ hand["transferCmd"] # NoHand =>
          /\ hand["transferCmd"].step = "send" =>
                /\ hand["transferCmd"].write = "RECEIVED_PREPARE"
                /\ InHand("transferCmd").name = "PrepareTransferCmd"
          /\ hand["transferCmd"].step = "store" /\ hand["transferCmd"].write = "RESERVED" =>
                Published(TransferPreparedEvt(InHand("transferCmd").t))

\* The notification handler still has the payee to tell after the payer.
CallbacksCaused ==
    /\ \A t \in Transfer :
          /\ told[t]["payeeAsked"] > 0 => Published(TransferPreparedEvt(t))
          /\ told[t]["payerTold"] > 0 => Published(TransferFulfilledEvt(t))
          /\ told[t]["payeeTold"] > 0 => told[t]["payerTold"] > 0
    /\ hand["notification"] # NoHand /\ hand["notification"].step = "send" =>
          told[InHand("notification").t]["payerTold"] > 0

CauseInv == TypeInv /\ MessagesCaused /\ ReservedCaused /\ CallbacksCaused

\* How often m stands in s behind offset n; and what group g still has to do.
Waiting(s, n, m) == Cardinality({i \in DOMAIN s : i > n /\ s[i] = m})

Reached(g, q) ==
    IF hand[g] # NoHand /\ hand[g].queue = q THEN hand[g].at ELSE offset[g][q]

Pending(g, m) == Waiting(log[m.queue], Reached(g, m.queue), m)

\* The transfers command handler has t in hand, and this to store of it.
Storing(t, steps, write) ==
    /\ hand["transferCmd"] # NoHand
    /\ hand["transferCmd"].step \in steps
    /\ hand["transferCmd"].write = write
    /\ InHand("transferCmd").t = t

\* A status is only ever followed by the next one.
StatusInOrder ==
    \A t \in Transfer :
        /\ t \notin seen => status[t] = "none"
        /\ ~Storing(t, {"store"}, "none")
        /\ Storing(t, {"send", "store"}, "RECEIVED_PREPARE") => t \in seen /\ status[t] = "none"
        /\ Storing(t, {"store"}, "RESERVED") => status[t] = "RECEIVED_PREPARE"
        /\ Storing(t, {"store"}, "RECEIVED_FULFIL") => status[t] = "RESERVED"
        /\ Storing(t, {"store"}, "COMMITTED") => status[t] = "RECEIVED_FULFIL"

\* Whether a transfer may still be accepted, and its fulfilment.
MayPrepare(t) ==
    IF t \notin seen \/ Storing(t, {"send"}, "RECEIVED_PREPARE") THEN 1 ELSE 0

MayFulfil(t) ==
    IF /\ status[t] \in {"none", "RECEIVED_PREPARE", "RESERVED"}
       /\ ~Storing(t, {"store"}, "RECEIVED_FULFIL")
    THEN 1 ELSE 0

\* How often the funds of t were reserved or are about to be, and were paid or
\* are about to be.
HoldsSum(t) ==
    Copies(PayerFundsReservedEvt(t)) + Pending("participantCmd", ReservePayerFundsCmd(t))
    + Pending("participantEvt", TransferPrepareAcceptedEvt(t))

PaymentsSum(t) ==
    Copies(PayeeFundsCommittedEvt(t)) + Pending("participantCmd", CommitPayeeFundsCmd(t))
    + Pending("participantEvt", TransferFulfilAcceptedEvt(t))

Bounded ==
    \A t \in Transfer : /\ HoldsSum(t) + MayPrepare(t) <= 1 + 2 * faults.count
                        /\ PaymentsSum(t) + MayFulfil(t) <= 1 + 2 * faults.count

MoveInv == CauseInv /\ StatusInOrder /\ Bounded

--------------------------------------------------------------------------------
(* Facts about handlers, messages and logs *)

LEMMA ConstantTypes ==
    /\ IsFiniteSet(Transfer)
    /\ Payer \in [Transfer -> Participant]
    /\ Payee \in [Transfer -> Participant]
    /\ Amount \in [Transfer -> Int]
    /\ \A x \in Settings : /\ x.registered \subseteq Participant
                           /\ x.requests \in [Transfer -> Nat]
                           /\ x.faults \in Nat
  BY SwitchAssumption DEF SwitchAssumption, Setting

LEMMA HandlerFacts ==
    /\ Group = {"transferEvt", "transferCmd", "participantEvt", "participantCmd",
                "simulatorEvt", "notification"}
    /\ Handler["transferEvt"] = TransferEvtHandler
    /\ Handler["transferCmd"] = TransferCmdHandler
    /\ Handler["participantEvt"] = ParticipantEvtHandler
    /\ Handler["participantCmd"] = ParticipantCmdHandler
    /\ Handler["simulatorEvt"] = SimulatorEvtHandler
    /\ Handler["notification"] = NotificationHandler
  BY DEF Group, Handler

\* Every message a process publishes is a message, of a queue there is.
LEMMA MessageTypes ==
    ASSUME NEW t \in Transfer
    PROVE  /\ TransferPrepareRequestedEvt(t) \in Message
           /\ \A how \in Answers \union {"none"} : TransferFulfilRequestedEvt(t, how) \in Message
           /\ PrepareTransferCmd(t) \in Message
           /\ AckPayerFundsReservedCmd(t) \in Message
           /\ \A how \in Answers \union {"none"} : FulfilTransferCmd(t, how) \in Message
           /\ AckPayeeFundsCommittedCmd(t) \in Message
           /\ TransferPrepareAcceptedEvt(t) \in Message
           /\ TransferPreparedEvt(t) \in Message
           /\ TransferFulfilAcceptedEvt(t) \in Message
           /\ TransferFulfilledEvt(t) \in Message
           /\ DuplicateTransferDetectedEvt(t) \in Message
           /\ TransferNotFoundEvt(t) \in Message
           /\ InvalidTransferEvt(t) \in Message
           /\ ReservePayerFundsCmd(t) \in Message
           /\ CommitPayeeFundsCmd(t) \in Message
           /\ PayerFundsReservedEvt(t) \in Message
           /\ PayeeFundsCommittedEvt(t) \in Message
           /\ NetCapLimitExceededEvt(t) \in Message
           /\ \A x \in Participant : InvalidParticipantEvt(x, t) \in Message
  <1>1. ASSUME NEW topic \in {"MLIngressEvents", "TransferCommands", "TransferDomainEvents",
                              "ParticipantDomainEvents"},
               NEW name \in MessageName
        PROVE  Msg(topic, t, name, t) \in Message
    BY DEF Msg, Message, Queue
  <1>2. ASSUME NEW topic \in {"ParticipantCommands", "ParticipantDomainEvents"},
               NEW name \in MessageName, NEW x \in Participant
        PROVE  Msg(topic, x, name, t) \in Message
    BY DEF Msg, Message, Queue
  <1>3. ASSUME NEW m \in Message, NEW how \in Answers \union {"none"}
        PROVE  [m EXCEPT !.how = how] \in Message
    BY DEF Message
  <1>4. /\ TransferPrepareRequestedEvt(t) \in Message
        /\ \A how \in Answers \union {"none"} : TransferFulfilRequestedEvt(t, how) \in Message
        /\ PrepareTransferCmd(t) \in Message
        /\ AckPayerFundsReservedCmd(t) \in Message
        /\ \A how \in Answers \union {"none"} : FulfilTransferCmd(t, how) \in Message
        /\ AckPayeeFundsCommittedCmd(t) \in Message
    BY <1>1, <1>3 DEF TransferPrepareRequestedEvt, TransferFulfilRequestedEvt,
       PrepareTransferCmd, AckPayerFundsReservedCmd, FulfilTransferCmd,
       AckPayeeFundsCommittedCmd, MessageName
  <1>5. /\ TransferPrepareAcceptedEvt(t) \in Message
        /\ TransferPreparedEvt(t) \in Message
        /\ TransferFulfilAcceptedEvt(t) \in Message
        /\ TransferFulfilledEvt(t) \in Message
        /\ DuplicateTransferDetectedEvt(t) \in Message
        /\ TransferNotFoundEvt(t) \in Message
        /\ InvalidTransferEvt(t) \in Message
        /\ PayerFundsReservedEvt(t) \in Message
        /\ PayeeFundsCommittedEvt(t) \in Message
    BY <1>1 DEF TransferPrepareAcceptedEvt, TransferPreparedEvt, TransferFulfilAcceptedEvt,
       TransferFulfilledEvt, DuplicateTransferDetectedEvt, TransferNotFoundEvt,
       InvalidTransferEvt, PayerFundsReservedEvt, PayeeFundsCommittedEvt, MessageName
  <1>6. /\ ReservePayerFundsCmd(t) \in Message
        /\ CommitPayeeFundsCmd(t) \in Message
        /\ NetCapLimitExceededEvt(t) \in Message
        /\ \A x \in Participant : InvalidParticipantEvt(x, t) \in Message
    BY <1>2, ConstantTypes DEF ReservePayerFundsCmd, CommitPayeeFundsCmd,
       NetCapLimitExceededEvt, InvalidParticipantEvt, MessageName
  <1> QED
    BY <1>4, <1>5, <1>6

\* What is appended goes behind the end of one queue; nothing else changes.
LEMMA PublishAppends ==
    ASSUME TypeInv, NEW m \in Message, Publish(m)
    PROVE  /\ log' \in [Queue -> Seq(Message)]
           /\ m.queue \in Queue
           /\ log'[m.queue] = Append(log[m.queue], m)
           /\ \A q \in Queue \ {m.queue} : log'[q] = log[q]
           /\ \A q \in Queue : /\ Len(log[q]) <= Len(log'[q])
                               /\ \A i \in DOMAIN log[q] : log'[q][i] = log[q][i]
           /\ \A q \in Queue : \A i \in DOMAIN log'[q] :
                 i \in DOMAIN log[q] \/ (q = m.queue /\ log'[q][i] = m)
  <1>1. m.queue \in Queue /\ log \in [Queue -> Seq(Message)]
    BY DEF Message, TypeInv, TypeOK
  <1>2. log'[m.queue] = Append(log[m.queue], m) /\ \A q \in Queue \ {m.queue} : log'[q] = log[q]
    BY <1>1 DEF Publish
  <1>3. log' \in [Queue -> Seq(Message)]
    BY <1>1 DEF Publish
  <1>4. ASSUME NEW s \in Seq(Message)
        PROVE  /\ Len(s) <= Len(Append(s, m))
               /\ \A i \in DOMAIN s : Append(s, m)[i] = s[i]
               /\ \A i \in DOMAIN Append(s, m) : i \in DOMAIN s \/ Append(s, m)[i] = m
    OBVIOUS
  <1>5. ASSUME NEW q \in Queue
        PROVE  /\ Len(log[q]) <= Len(log'[q])
               /\ \A i \in DOMAIN log[q] : log'[q][i] = log[q][i]
               /\ \A i \in DOMAIN log'[q] :
                     i \in DOMAIN log[q] \/ (q = m.queue /\ log'[q][i] = m)
    <2>1. CASE q = m.queue
      <3>1. log[q] \in Seq(Message) /\ log'[q] = Append(log[q], m)
        BY <1>1, <1>2, <2>1
      <3> QED
        BY <1>4, <2>1, <3>1
    <2>2. CASE q # m.queue
      <3>1. log[q] \in Seq(Message) /\ log'[q] = log[q]
        BY <1>1, <1>2, <2>2
      <3> QED
        BY <3>1
    <2> QED
      BY <2>1, <2>2
  <1> QED
    BY <1>1, <1>2, <1>3, <1>5

\* A message that is taken is one of its queue, with a name the group subscribed to.
LEMMA TakeFacts ==
    ASSUME TypeInv, NEW g \in Group, NEW q \in Reads(g), NEW i \in DOMAIN log[q], Take(g, q, i)
    PROVE  /\ q \in Queue
           /\ log[q][i] \in Message
           /\ log[q][i].queue = q
           /\ log[q][i].t \in Transfer
           /\ log[q][i].name \in Handler[g].names
           /\ hand[g] = NoHand
           /\ i \in (offset[g][q] + 1)..Len(log[q])
           /\ Due(g, q, i)
  <1>1. q \in Queue
    BY DEF Reads
  <1>2. log[q][i] \in Message /\ log[q][i].queue = q
    BY <1>1 DEF TypeInv, TypeOK, LogOK
  <1>3. hand[g] = NoHand /\ i \in (offset[g][q] + 1)..Len(log[q]) /\ Due(g, q, i)
    BY DEF Take
  <1> QED
    BY <1>1, <1>2, <1>3 DEF Due, Message

\* What is in hand is a message too.
LEMMA HandFacts ==
    ASSUME TypeInv, NEW g \in Group, hand[g] # NoHand
    PROVE  /\ hand[g] \in Hand(g)
           /\ hand[g].queue \in Queue
           /\ hand[g].at \in DOMAIN log[hand[g].queue]
           /\ InHand(g) \in Message
           /\ InHand(g).t \in Transfer
           /\ InHand(g).queue = hand[g].queue
           /\ InHand(g).name \in Handler[g].names
  <1>1. HandOK(g)
    BY DEF TypeInv
  <1>2. hand[g] \in Hand(g) /\ log \in [Queue -> Seq(Message)] /\ offset[g] \in [Queue -> Nat]
    BY DEF TypeInv, TypeOK
  <1>3. hand[g].queue \in Queue /\ hand[g].at \in DOMAIN log[hand[g].queue]
    BY <1>1, <1>2 DEF HandOK, Hand
  <1>4. InHand(g) \in Message
    BY <1>2, <1>3 DEF InHand
  <1> QED
    BY <1>1, <1>2, <1>3, <1>4 DEF InHand, HandOK, Due, Message, TypeInv, LogOK

--------------------------------------------------------------------------------
(* Type correctness *)

\* The part of the type invariant about the brokers and the groups, the rest of
\* it, and what every step does to the logs: they only grow.
Core ==
    /\ setting \in Settings
    /\ log \in [Queue -> Seq(Message)]
    /\ offset \in [Group -> [Queue -> Nat]]
    /\ \A g \in Group : hand[g] \in Hand(g) \union {NoHand}
    /\ hand = [g \in Group |-> hand[g]]
    /\ LogOK
    /\ \A g \in Group : HandOK(g)

CmdOK == /\ seen \in SUBSET Transfer
         /\ status \in [Transfer -> Status]
         /\ refused \in SUBSET Transfer
         /\ position \in [Participant -> Int]

FspOK == /\ requests \in [Transfer -> Nat]
         /\ answers \in [Transfer -> Nat]
         /\ told \in [Transfer -> [Callback -> Nat]]
         /\ unread \in SUBSET ({"get", "error"} \X Transfer)

FaultsOK == faults \in [count : Nat, kinds : SUBSET Fault]

Grows ==
    /\ log' \in [Queue -> Seq(Message)]
    /\ \A q \in Queue :
          /\ Len(log[q]) <= Len(log'[q])
          /\ \A i \in DOMAIN log[q] : log'[q][i] = log[q][i]
          /\ \A i \in DOMAIN log'[q] : log'[q][i].queue = q

WriteOf(g) == IF g = "participantCmd" THEN Int ELSE Status

LEMMA PublishGrows ==
    ASSUME TypeInv, NEW m \in Message, Publish(m)
    PROVE  Grows
  BY PublishAppends DEF Grows, TypeInv, LogOK

LEMMA UnchangedGrows ==
    ASSUME TypeInv, UNCHANGED log
    PROVE  Grows
  BY DEF Grows, TypeInv, TypeOK, LogOK

\* A message that stays in hand is still what the group has to handle next.
LEMMA HandKept ==
    ASSUME TypeInv, Grows, NEW g \in Group, offset'[g] = offset[g],
           hand'[g] # NoHand, NEW q \in Reads(g), NEW i \in (offset[g][q] + 1)..Len(log[q]),
           Due(g, q, i), hand'[g].queue = q, hand'[g].at = i, setting' = setting
    PROVE  HandOK(g)'
  <1>1. q \in Queue /\ Reads(g)' = Reads(g)
    BY DEF Reads
  <1>2. /\ offset[g][q] \in Nat
        /\ log[q] \in Seq(Message)
        /\ log'[q] \in Seq(Message)
    BY <1>1 DEF TypeInv, TypeOK, Grows
  <1>3. Len(log[q]) <= Len(log'[q]) /\ \A j \in 1..Len(log[q]) : log'[q][j] = log[q][j]
    BY <1>1, <1>2 DEF Grows
  <1>4. \A j \in (offset[g][q] + 1)..i : log'[q][j] = log[q][j]
    BY <1>2, <1>3
  <1>5. Due(g, q, i)'
    <2>1. log'[q][i].name \in Handler[g].names
      BY <1>2, <1>4 DEF Due
    <2>2. ASSUME NEW j \in (offset[g][q] + 1)..(i - 1)
          PROVE  log'[q][j].name \notin Handler[g].names
      BY <1>2, <1>4 DEF Due
    <2> QED
      BY <2>1, <2>2 DEF Due
  <1>6. i \in (offset'[g][q] + 1)..Len(log'[q])
    BY <1>2, <1>3
  <1> QED
    BY <1>1, <1>5, <1>6 DEF HandOK

LEMMA GrownLog ==
    ASSUME TypeInv, Grows, UNCHANGED offset
    PROVE  LogOK'
  BY DEF TypeInv, TypeOK, LogOK, Grows

LEMMA KeepCore ==
    ASSUME TypeInv, Grows, UNCHANGED <<setting, offset, hand>>
    PROVE  Core'
  <1>1. ASSUME NEW g \in Group PROVE HandOK(g)'
    <2>1. CASE hand[g] = NoHand
      BY <2>1 DEF HandOK
    <2>2. CASE hand[g] # NoHand
      BY <2>2, HandKept DEF HandOK, TypeInv
    <2> QED
      BY <2>1, <2>2
  <1> QED
    BY <1>1, GrownLog DEF Core, Grows, TypeInv, TypeOK

LEMMA TakeCore ==
    ASSUME TypeInv, Grows, UNCHANGED <<setting, offset>>, NEW g \in Group, NEW q \in Reads(g),
           NEW i \in DOMAIN log[q], Take(g, q, i),
           NEW step \in Step, NEW write \in WriteOf(g), GoOn(g, q, i, step, write)
    PROVE  /\ Core'
           /\ hand' = [hand EXCEPT ![g] = hand'[g]]
           /\ hand'[g] = [queue |-> q, at |-> i, step |-> step, write |-> write]
           /\ hand'[g] # NoHand
  <1>1. /\ i \in (offset[g][q] + 1)..Len(log[q]) /\ Due(g, q, i) /\ q \in Queue
        /\ offset[g][q] \in Nat /\ i \in Nat
    BY TakeFacts DEF TypeInv, TypeOK
  <1>2. hand' = [hand EXCEPT ![g] = hand'[g]]
        /\ hand'[g] = [queue |-> q, at |-> i, step |-> step, write |-> write]
    BY DEF TypeInv, GoOn
  <1>3. hand'[g] \in Hand(g)
    BY <1>1, <1>2 DEF Hand, WriteOf
  <1>4. hand'[g] # NoHand
    BY <1>3, HandAssumption
  <1>5. ASSUME NEW h \in Group PROVE HandOK(h)' /\ hand'[h] \in Hand(h) \union {NoHand}
    <2>1. CASE h = g
      <3>1. HandOK(g)'
        BY <1>1, <1>2, <1>4, HandKept
      <3> QED
        BY <1>3, <2>1, <3>1
    <2>2. CASE h # g
      <3>1. hand'[h] = hand[h] /\ hand[h] \in Hand(h) \union {NoHand} /\ HandOK(h)
        BY <1>2, <2>2 DEF TypeInv, TypeOK
      <3>2. HandOK(h)'
        BY <3>1, HandKept DEF HandOK
      <3> QED
        BY <3>1, <3>2
    <2> QED
      BY <2>1, <2>2
  <1>6. hand' = [h \in Group |-> hand'[h]]
    BY <1>2 DEF TypeInv
  <1> QED
    BY <1>2, <1>4, <1>5, <1>6, GrownLog DEF Core, Grows, TypeInv, TypeOK

LEMMA ProceedHand ==
    ASSUME TypeInv, NEW g \in Group, hand[g] # NoHand, NEW step \in Step, Proceed(g, step)
    PROVE  /\ hand' = [hand EXCEPT ![g] = hand'[g]]
           /\ \A h \in Group \ {g} : hand'[h] = hand[h]
           /\ hand'[g] = [hand[g] EXCEPT !.step = step]
           /\ hand'[g] \in Hand(g)
           /\ hand'[g] # NoHand
           /\ hand'[g].queue = hand[g].queue
           /\ hand'[g].at = hand[g].at
           /\ hand'[g].step = step
           /\ hand'[g].write = hand[g].write
  <1>1. hand[g] \in Hand(g)
    BY DEF TypeInv, TypeOK
  <1>2. /\ hand' = [hand EXCEPT ![g] = hand'[g]]
        /\ hand'[g] = [hand[g] EXCEPT !.step = step]
        /\ \A h \in Group \ {g} : hand'[h] = hand[h]
    BY DEF TypeInv, Proceed
  <1>3. /\ hand'[g] \in Hand(g) /\ hand'[g].queue = hand[g].queue /\ hand'[g].at = hand[g].at
        /\ hand'[g].step = step /\ hand'[g].write = hand[g].write
    BY <1>1, <1>2 DEF Hand
  <1> QED
    BY <1>2, <1>3, HandAssumption

LEMMA ProceedCore ==
    ASSUME TypeInv, Grows, UNCHANGED <<setting, offset>>, NEW g \in Group, hand[g] # NoHand,
           NEW step \in Step, Proceed(g, step)
    PROVE  /\ Core'
           /\ hand' = [hand EXCEPT ![g] = hand'[g]]
           /\ hand'[g] = [hand[g] EXCEPT !.step = step]
           /\ hand'[g] # NoHand
  <1>1. HandOK(g)
    BY DEF TypeInv
  <1>2. hand' = [hand EXCEPT ![g] = hand'[g]] /\ hand'[g] = [hand[g] EXCEPT !.step = step]
    BY ProceedHand
  <1>3. hand'[g] \in Hand(g) /\ hand'[g].queue = hand[g].queue /\ hand'[g].at = hand[g].at
    BY ProceedHand
  <1>4. hand'[g] # NoHand
    BY ProceedHand
  <1>5. ASSUME NEW h \in Group PROVE HandOK(h)' /\ hand'[h] \in Hand(h) \union {NoHand}
    <2>1. CASE h = g
      <3>1. HandOK(g)'
        BY <1>1, <1>3, <1>4, HandKept DEF HandOK
      <3> QED
        BY <1>3, <2>1, <3>1
    <2>2. CASE h # g
      <3>1. hand'[h] = hand[h] /\ hand[h] \in Hand(h) \union {NoHand} /\ HandOK(h)
        BY <1>2, <2>2 DEF TypeInv, TypeOK
      <3>2. HandOK(h)'
        BY <3>1, HandKept DEF HandOK
      <3> QED
        BY <3>1, <3>2
    <2> QED
      BY <2>1, <2>2
  <1>6. hand' = [h \in Group |-> hand'[h]]
    BY <1>2 DEF TypeInv
  <1> QED
    BY <1>2, <1>4, <1>5, <1>6, GrownLog DEF Core, Grows, TypeInv, TypeOK

LEMMA CommitCore ==
    ASSUME TypeInv, NEW g \in Group, Commit(g)
    PROVE  /\ Core'
           /\ hand' = [hand EXCEPT ![g] = NoHand]
           /\ \A h \in Group \ {g} : offset'[h] = offset[h]
           /\ offset'[g] = [offset[g] EXCEPT ![hand[g].queue] = hand[g].at]
  <1>1. /\ hand[g].queue \in Queue /\ hand[g].at \in DOMAIN log[hand[g].queue]
        /\ hand[g].at \in Nat
    BY HandFacts DEF Commit, Hand
  <1>2. /\ hand' = [hand EXCEPT ![g] = NoHand]
        /\ \A h \in Group \ {g} : offset'[h] = offset[h]
        /\ offset'[g] = [offset[g] EXCEPT ![hand[g].queue] = hand[g].at]
        /\ UNCHANGED <<setting, log>>
    BY DEF Commit, TypeInv, TypeOK
  <1>3. offset' \in [Group -> [Queue -> Nat]]
    BY <1>1 DEF Commit, TypeInv, TypeOK
  <1>4. LogOK'
    <2>1. ASSUME NEW h \in Group, NEW q \in Queue PROVE offset'[h][q] <= Len(log[q])
      <3>1. log[q] \in Seq(Message) /\ offset[h][q] <= Len(log[q]) /\ offset[g] \in [Queue -> Nat]
        BY DEF TypeInv, TypeOK, LogOK
      <3>2. offset'[h][q] = offset[h][q] \/ (q = hand[g].queue /\ offset'[h][q] = hand[g].at)
        BY <1>2, <3>1
      <3> QED
        BY <1>1, <3>1, <3>2
    <2> QED
      BY <1>2, <2>1 DEF LogOK, TypeInv
  <1>5. ASSUME NEW h \in Group PROVE HandOK(h)' /\ hand'[h] \in Hand(h) \union {NoHand}
    <2>1. CASE h = g
      BY <1>2, <2>1 DEF HandOK, TypeInv
    <2>2. CASE h # g
      <3>1. hand'[h] = hand[h] /\ hand[h] \in Hand(h) \union {NoHand} /\ HandOK(h)
        BY <1>2, <2>2 DEF TypeInv, TypeOK
      <3>2. HandOK(h)'
        BY <1>2, <2>2, <3>1, HandKept, UnchangedGrows DEF HandOK
      <3> QED
        BY <3>1, <3>2
    <2> QED
      BY <2>1, <2>2
  <1> QED
    BY <1>2, <1>3, <1>4, <1>5 DEF Core, TypeInv, TypeOK

LEMMA DropCore ==
    ASSUME TypeInv, NEW process \in Process, Drop(process)
    PROVE  Core'
  <1>1. /\ \A h \in Group : hand'[h] = NoHand \/ hand'[h] = hand[h]
        /\ hand' = [h \in Group |-> hand'[h]]
        /\ UNCHANGED <<setting, log, offset>>
    BY DEF Drop
  <1>2. ASSUME NEW h \in Group PROVE HandOK(h)' /\ hand'[h] \in Hand(h) \union {NoHand}
    <2>1. hand[h] \in Hand(h) \union {NoHand} /\ HandOK(h)
      BY DEF TypeInv, TypeOK
    <2>2. HandOK(h)'
      BY <1>1, <2>1, HandKept, UnchangedGrows DEF HandOK
    <2> QED
      BY <1>1, <2>1, <2>2
  <1> QED
    BY <1>1, <1>2, GrownLog, UnchangedGrows DEF Core, Grows, TypeInv, TypeOK

\* A failure is counted.
LEMMA FailureType ==
    ASSUME FaultsOK, NEW kind, Failure(kind)
    PROVE  FaultsOK' /\ faults'.count = faults.count + 1
  BY SwitchAssumption DEF Failure, FaultsOK, SwitchAssumption

LEMMA TellType ==
    ASSUME TypeInv, NEW t \in Transfer, NEW c \in Callback, Tell(t, c)
    PROVE  /\ told' \in [Transfer -> [Callback -> Nat]]
           /\ told'[t][c] > 0
           /\ \A u \in Transfer : \A d \in Callback : told'[u][d] = told[u][d] \/ (u = t /\ d = c)
           /\ \A u \in Transfer : \A d \in Callback : told'[u][d] >= told[u][d]
  BY DEF TypeInv, TypeOK, Tell

LEMMA TypeParts ==
    /\ TypeInv <=> Core /\ CmdOK /\ FspOK /\ FaultsOK
    /\ TypeInv' <=> Core' /\ CmdOK' /\ FspOK' /\ FaultsOK'
  BY DEF TypeInv, TypeOK, Core, CmdOK, FspOK, FaultsOK

LEMMA InitTypeInv == Init => TypeInv
  <1> SUFFICES ASSUME Init PROVE TypeInv
    OBVIOUS
  <1>1. Core
    BY DEF Init, Core, LogOK, HandOK
  <1>2. CmdOK /\ FspOK /\ FaultsOK
    BY DEF Init, CmdOK, FspOK, FaultsOK, Status
  <1> QED
    BY <1>1, <1>2, TypeParts

\* What an event handler publishes for the message it takes is a message.
LEMMA TransferCmdForType ==
    ASSUME NEW m \in Message, m.name \in TransferEvtHandler.names
    PROVE  TransferCmdFor(m) \in Message
  <1>1. m.t \in Transfer /\ m.how \in Answers \union {"none"}
    BY DEF Message
  <1> QED
    BY <1>1, MessageTypes DEF TransferCmdFor, TransferEvtHandler

LEMMA ParticipantCmdForType ==
    ASSUME NEW m \in Message
    PROVE  ParticipantCmdFor(m) \in Message
  <1>1. m.t \in Transfer
    BY DEF Message
  <1> QED
    BY <1>1, MessageTypes DEF ParticipantCmdFor

LEMMA TypeStep == TypeInv /\ [Next]_vars => TypeInv'
  <1> SUFFICES ASSUME TypeInv, [Next]_vars PROVE TypeInv'
    OBVIOUS
  <1>0. Core /\ CmdOK /\ FspOK /\ FaultsOK
    BY TypeParts
  <1>1. ASSUME NEW t \in Transfer, Fsp(t) PROVE TypeInv'
    <2>1. UNCHANGED <<setting, offset, hand, cmdVars>>
      BY <1>1 DEF Fsp, CreateTransfer, CreateTransferLost, Requested, FulfilTransfer,
         FulfilTransferError, Answered, GetTransferById
    <2>2. Grows
      <3>1. CASE UNCHANGED log
        BY <3>1, UnchangedGrows
      <3>2. CASE CreateTransfer(t)
        BY <3>2, PublishGrows, MessageTypes DEF CreateTransfer
      <3>3. CASE \E how \in Answers : FulfilTransfer(t, how)
        BY <3>3, PublishGrows, MessageTypes DEF FulfilTransfer
      <3> QED
        BY <1>1, <3>1, <3>2, <3>3
           DEF Fsp, CreateTransferLost, FulfilTransferError, GetTransferById
    <2>3. FspOK' /\ FaultsOK'
      <3>1. CASE CreateTransfer(t) \/ CreateTransferLost(t)
        BY <1>0, <3>1, FailureType DEF CreateTransfer, CreateTransferLost, Requested, FspOK, FaultsOK
      <3>2. CASE \E how \in Answers : FulfilTransfer(t, how)
        BY <1>0, <3>2 DEF FulfilTransfer, Answered, FspOK, FaultsOK
      <3>3. CASE FulfilTransferError(t)
        BY <1>0, <3>3 DEF FulfilTransferError, Answered, FspOK, FaultsOK
      <3>4. CASE GetTransferById(t)
        BY <1>0, <3>4 DEF GetTransferById, FspOK, FaultsOK
      <3> QED
        BY <1>1, <3>1, <3>2, <3>3, <3>4 DEF Fsp
    <2>4. CmdOK'
      BY <1>0, <2>1 DEF CmdOK, cmdVars
    <2> QED
      BY <2>1, <2>2, <2>3, <2>4, KeepCore, TypeParts
  <1>2. ASSUME NEW q \in Reads("transferEvt"), NEW i \in DOMAIN log[q], HandleTransferEvt(q, i)
        PROVE  TypeInv'
    <2>1. Grows
      BY <1>2, TakeFacts, HandlerFacts, TransferCmdForType, PublishGrows DEF HandleTransferEvt
    <2>2. Core'
      BY <1>2, <2>1, TakeCore, HandlerFacts
         DEF HandleTransferEvt, RelayStep, Step, WriteOf, Status
    <2> QED
      BY <1>0, <1>2, <2>2, TypeParts
         DEF HandleTransferEvt, RelayStep, CmdOK, FspOK, FaultsOK, cmdVars, fspVars
  <1>3. ASSUME NEW q \in Reads("participantEvt"), NEW i \in DOMAIN log[q],
               HandleParticipantEvt(q, i)
        PROVE  TypeInv'
    <2>1. Grows
      BY <1>3, TakeFacts, HandlerFacts, ParticipantCmdForType, PublishGrows, UnchangedGrows
         DEF HandleParticipantEvt
    <2>2. Core'
      BY <1>3, <2>1, TakeCore, HandlerFacts
         DEF HandleParticipantEvt, RelayStep, Step, WriteOf, Status
    <2> QED
      BY <1>0, <1>3, <2>2, TypeParts
         DEF HandleParticipantEvt, RelayStep, CmdOK, FspOK, FaultsOK, cmdVars, fspVars
  <1>4. ASSUME NEW g \in Group, NEW q \in Reads(g), NEW i \in DOMAIN log[q], RelayFails(g, q, i)
        PROVE  TypeInv'
    <2>1. Core'
      BY <1>4, UnchangedGrows, TakeCore DEF RelayFails, RelayStep, Step, WriteOf, Status
    <2> QED
      BY <1>0, <1>4, <2>1, TypeParts, FailureType
         DEF RelayFails, RelayStep, CmdOK, FspOK, cmdVars, fspVars
  <1>5. ASSUME NEW q \in Reads("simulatorEvt"), NEW i \in DOMAIN log[q], HandleSimulatorEvt(q, i)
        PROVE  TypeInv'
    <2>0. log[q][i].t \in Transfer
      BY <1>5, TakeFacts, HandlerFacts DEF HandleSimulatorEvt
    <2>1. Grows
      BY <1>5, <2>0, MessageTypes, PublishGrows, UnchangedGrows DEF HandleSimulatorEvt, Answers
    <2>2. Core'
      BY <1>5, <2>1, TakeCore, HandlerFacts DEF HandleSimulatorEvt, Step, WriteOf, Status
    <2>3. FspOK'
      BY <1>0, <1>5, <2>0, TellType DEF HandleSimulatorEvt, FspOK, Callback
    <2> QED
      BY <1>0, <1>5, <2>2, <2>3, TypeParts DEF HandleSimulatorEvt, CmdOK, FaultsOK, cmdVars
  <1>6. ASSUME NEW q \in Reads("notification"), NEW i \in DOMAIN log[q], NotifyFirst(q, i)
        PROVE  TypeInv'
    <2>0. log[q][i].t \in Transfer
      BY <1>6, TakeFacts, HandlerFacts DEF NotifyFirst
    <2>1. Grows
      BY <1>6, UnchangedGrows DEF NotifyFirst, NotifyStep
    <2>2. Core'
      BY <1>6, <2>1, TakeCore, HandlerFacts DEF NotifyFirst, NotifyStep, Step, WriteOf, Status
    <2>3. FspOK'
      BY <1>0, <1>6, <2>0, TellType DEF NotifyFirst, NotifyStep, FspOK, Callback
    <2> QED
      BY <1>0, <1>6, <2>2, <2>3, TypeParts DEF NotifyFirst, NotifyStep, CmdOK, FaultsOK, cmdVars
  <1>7. CASE NotifyPayee
    <2>1. Grows
      BY <1>7, UnchangedGrows DEF NotifyPayee, NotifyStep
    <2>2. Core'
      BY <1>7, <2>1, ProceedCore, HandlerFacts DEF NotifyPayee, NotifyStep, Step
    <2>3. FspOK'
      BY <1>0, <1>7, HandFacts, HandlerFacts, TellType DEF NotifyPayee, NotifyStep, FspOK, Callback
    <2> QED
      BY <1>0, <1>7, <2>2, <2>3, TypeParts DEF NotifyPayee, NotifyStep, CmdOK, FaultsOK, cmdVars
  <1>8. CASE NotifyFails
    <2>1. Grows
      BY <1>8, UnchangedGrows DEF NotifyFails, NotifyStep
    <2>2. Core'
      BY <1>8, <2>1, TakeCore, ProceedCore, HandlerFacts
         DEF NotifyFails, NotifyStep, Step, WriteOf, Status
    <2> QED
      BY <1>0, <1>8, <2>2, TypeParts, FailureType
         DEF NotifyFails, NotifyStep, CmdOK, FspOK, cmdVars
  <1>9. ASSUME NEW q \in Reads("transferCmd"), NEW i \in DOMAIN log[q], RunTransferCmd(q, i)
        PROVE  TypeInv'
    <2>0. log[q][i].t \in Transfer
      BY <1>9, TakeFacts, HandlerFacts DEF RunTransferCmd, PrepareTransfer, RefuseTransferCmd,
         AckPayerFundsReserved, Fulfil, AckPayeeFundsCommitted, TakeAdvance
    <2>1. ASSUME NEW evt \in Message, NEW write \in Status, TakeAdvance(q, i),
                 Rule(q, i, evt, write), refused' \in SUBSET Transfer
          PROVE  TypeInv'
      <3>1. Grows
        BY <2>1, PublishGrows DEF Rule
      <3>2. Core'
        BY <2>1, <3>1, TakeCore, HandlerFacts DEF TakeAdvance, Rule, Step, WriteOf
      <3> QED
        BY <1>0, <2>1, <3>2, TypeParts DEF Rule, CmdOK, FspOK, FaultsOK, fspVars
    <2>2. CASE PrepareTransfer(q, i)
      <3>1. Grows
        BY <2>0, <2>2, MessageTypes, PublishGrows, UnchangedGrows DEF PrepareTransfer
      <3>2. Core'
        BY <2>2, <3>1, TakeCore, HandlerFacts DEF PrepareTransfer, Step, WriteOf, Status
      <3> QED
        BY <1>0, <2>0, <2>2, <3>2, TypeParts DEF PrepareTransfer, CmdOK, FspOK, FaultsOK, fspVars
    <2>3. CASE RefuseTransferCmd(q, i)
      BY <1>0, <2>0, <2>1, <2>3, MessageTypes DEF RefuseTransferCmd, CmdOK, Status
    <2>4. CASE AckPayerFundsReserved(q, i)
      BY <1>0, <2>0, <2>1, <2>4, MessageTypes DEF AckPayerFundsReserved, CmdOK, Status
    <2>5. CASE Fulfil(q, i)
      BY <1>0, <2>0, <2>1, <2>5, MessageTypes DEF Fulfil, CmdOK, Status
    <2>6. CASE AckPayeeFundsCommitted(q, i)
      BY <1>0, <2>0, <2>1, <2>6, MessageTypes DEF AckPayeeFundsCommitted, CmdOK, Status
    <2> QED
      BY <1>9, <2>2, <2>3, <2>4, <2>5, <2>6 DEF RunTransferCmd
  <1>10. CASE AcceptTransfer \/ StoreTransfer
    <2>0. /\ InHand("transferCmd").t \in Transfer
          /\ hand["transferCmd"].write \in Status
      BY <1>10, HandFacts, HandlerFacts DEF AcceptTransfer, StoreTransfer, Hand
    <2>1. Grows
      BY <1>10, <2>0, MessageTypes, PublishGrows, UnchangedGrows DEF AcceptTransfer, StoreTransfer
    <2>2. Core'
      BY <1>10, <2>1, ProceedCore, HandlerFacts DEF AcceptTransfer, StoreTransfer, Step
    <2>3. CmdOK'
      BY <1>0, <1>10, <2>0 DEF AcceptTransfer, StoreTransfer, CmdOK, cmdVars
    <2> QED
      BY <1>0, <1>10, <2>2, <2>3, TypeParts
         DEF AcceptTransfer, StoreTransfer, FspOK, FaultsOK, fspVars
  <1>11. ASSUME NEW q \in Reads("participantCmd"), NEW i \in DOMAIN log[q],
                RunParticipantCmd(q, i)
         PROVE  TypeInv'
    <2>0. log[q][i].t \in Transfer
      BY <1>11, TakeFacts, HandlerFacts DEF RunParticipantCmd, ReservePayerFunds, CommitPayeeFunds
    <2>1. ASSUME NEW evt \in Message, NEW step \in Step, NEW pos \in Int,
                 Take("participantCmd", q, i), Move(q, i, evt, step, pos)
          PROVE  TypeInv'
      <3>1. Grows
        BY <2>1, PublishGrows DEF Move
      <3>2. Core'
        BY <2>1, <3>1, TakeCore, HandlerFacts DEF Move, WriteOf
      <3> QED
        BY <1>0, <2>1, <3>2, TypeParts DEF Move, CmdOK, FspOK, FaultsOK, cmdVars, fspVars
    <2>2. position[Payer[log[q][i].t]] + Amount[log[q][i].t] \in Int
          /\ position[Payee[log[q][i].t]] - Amount[log[q][i].t] \in Int
      BY <1>0, <2>0, ConstantTypes DEF CmdOK
    <2>3. CASE ReservePayerFunds(q, i)
      BY <2>0, <2>1, <2>2, <2>3, MessageTypes, ConstantTypes DEF ReservePayerFunds, Step
    <2>4. CASE CommitPayeeFunds(q, i)
      BY <2>0, <2>1, <2>2, <2>4, MessageTypes DEF CommitPayeeFunds, Step
    <2> QED
      BY <1>11, <2>3, <2>4 DEF RunParticipantCmd
  <1>12. CASE StoreParticipant
    <2>1. hand["participantCmd"].write \in Int
      BY <1>12, HandFacts, HandlerFacts DEF StoreParticipant, Hand
    <2>2. Core'
      BY <1>12, UnchangedGrows, ProceedCore, HandlerFacts DEF StoreParticipant, Step
    <2>3. CmdOK'
      BY <1>0, <1>12, <2>1 DEF StoreParticipant, CmdOK
    <2> QED
      BY <1>0, <1>12, <2>2, <2>3, TypeParts DEF StoreParticipant, FspOK, FaultsOK, fspVars
  <1>13. ASSUME NEW g \in Group, Commit(g) PROVE TypeInv'
    BY <1>0, <1>13, CommitCore, TypeParts DEF Commit, CmdOK, FspOK, FaultsOK, cmdVars, fspVars
  <1>14. ASSUME NEW process \in Process, Drop(process) PROVE TypeInv'
    <2>1. FaultsOK'
      BY <1>0, <1>14, FailureType DEF Drop
    <2>2. CmdOK' /\ FspOK'
      BY <1>0, <1>14 DEF Drop, CmdOK, FspOK, fspVars
    <2> QED
      BY <1>14, <2>1, <2>2, DropCore, TypeParts
  <1>15. CASE UNCHANGED vars
    <2>1. Core'
      BY <1>15, UnchangedGrows, KeepCore DEF vars
    <2> QED
      BY <1>0, <1>15, <2>1, TypeParts DEF vars, CmdOK, FspOK, FaultsOK
  <1>16. CASE Handle
    BY <1>2, <1>3, <1>5, <1>6, <1>7, <1>9, <1>10, <1>11, <1>12, <1>16
       DEF Handle, TransferEvt, ParticipantEvt, SimulatorEvt, Notification, TransferCmd,
           ParticipantCmd
  <1>17. CASE Fail
    BY <1>4, <1>8, <1>14, <1>17
       DEF Fail, StopTransfers, StopParticipants, StopSimulator, StopAdapter, Process
  <1> QED
    BY <1>1, <1>13, <1>15, <1>16, <1>17 DEF Next

\* Every variable keeps its type, and a group never holds a message that is not
\* in the log behind its committed offset.
THEOREM TypeCorrect == Spec => []TypeOK
  <1>1. TypeInv => TypeOK
    BY DEF TypeInv
  <1> QED
    BY InitTypeInv, TypeStep, <1>1, PTL DEF Spec

--------------------------------------------------------------------------------
(* Every message has its cause *)

\* What was published stays published, and with it every cause.
LEMMA PublishedKept ==
    ASSUME TypeInv, Grows, NEW m \in Message, Published(m)
    PROVE  Published(m)'
  <1>1. m.queue \in Queue
    BY DEF Message
  <1>2. PICK i \in DOMAIN log[m.queue] : log[m.queue][i] = m
    BY DEF Published
  <1>3. i \in DOMAIN log'[m.queue] /\ log'[m.queue][i] = m
    BY <1>1, <1>2 DEF Grows, TypeInv, TypeOK
  <1> QED
    BY <1>3 DEF Published

LEMMA CausedKept ==
    ASSUME TypeInv, Grows, UNCHANGED setting, NEW m \in Message, Caused(m)
    PROVE  Caused(m)'
  <1>1. m.t \in Transfer /\ m.how \in Answers \union {"none"}
    BY DEF Message
  <1>2. /\ Published(PayerFundsReservedEvt(m.t)) => Published(PayerFundsReservedEvt(m.t))'
        /\ Published(ReservePayerFundsCmd(m.t)) => Published(ReservePayerFundsCmd(m.t))'
        /\ Published(AckPayerFundsReservedCmd(m.t)) => Published(AckPayerFundsReservedCmd(m.t))'
        /\ Published(TransferPrepareAcceptedEvt(m.t)) =>
              Published(TransferPrepareAcceptedEvt(m.t))'
        /\ Published(TransferPreparedEvt(m.t)) => Published(TransferPreparedEvt(m.t))'
        /\ Published(TransferFulfilAcceptedEvt(m.t)) => Published(TransferFulfilAcceptedEvt(m.t))'
        /\ Published(CommitPayeeFundsCmd(m.t)) => Published(CommitPayeeFundsCmd(m.t))'
        /\ Published(PayeeFundsCommittedEvt(m.t)) => Published(PayeeFundsCommittedEvt(m.t))'
        /\ Published(AckPayeeFundsCommittedCmd(m.t)) => Published(AckPayeeFundsCommittedCmd(m.t))'
        /\ Published(FulfilTransferCmd(m.t, "commit")) => Published(FulfilTransferCmd(m.t, "commit"))'
    BY <1>1, MessageTypes, PublishedKept DEF Answers
  <1>3. Published(TransferFulfilRequestedEvt(m.t, m.how)) =>
           Published(TransferFulfilRequestedEvt(m.t, m.how))'
    BY <1>1, MessageTypes, PublishedKept
  <1> QED
    BY <1>2, <1>3 DEF Caused

\* A message that lies in a log was published, and was published with its cause.
LEMMA PublishedHere ==
    ASSUME TypeInv, NEW q \in Queue, NEW i \in DOMAIN log[q]
    PROVE  Published(log[q][i])
  BY DEF TypeInv, LogOK, Published

LEMMA CauseOf ==
    ASSUME MessagesCaused, NEW m \in Message, Published(m)
    PROVE  Caused(m)
  BY DEF MessagesCaused, Published, Message

LEMMA PublishedNow ==
    ASSUME TypeInv, NEW m \in Message, Publish(m)
    PROVE  Published(m)'
  <1>1. log[m.queue] \in Seq(Message) /\ log'[m.queue] = Append(log[m.queue], m)
    BY PublishAppends DEF TypeInv, TypeOK
  <1>2. /\ Len(log[m.queue]) + 1 \in DOMAIN log'[m.queue]
        /\ log'[m.queue][Len(log[m.queue]) + 1] = m
    BY <1>1
  <1> QED
    BY <1>2 DEF Published

\* It is enough that what is published has its cause.
LEMMA LogStep ==
    ASSUME TypeInv, MessagesCaused, UNCHANGED setting,
           \/ UNCHANGED log
           \/ \E m \in Message : Publish(m) /\ Caused(m)
    PROVE  MessagesCaused' /\ Grows
  <1>1. Grows
    BY PublishGrows, UnchangedGrows
  <1>2. ASSUME NEW q \in Queue, NEW i \in DOMAIN log[q] PROVE Caused(log[q][i])'
    <2>1. log[q][i] \in Message /\ Caused(log[q][i]) /\ log'[q][i] = log[q][i]
      BY <1>1 DEF TypeInv, TypeOK, MessagesCaused, Grows
    <2>2. ASSUME NEW m, m = log[q][i] PROVE Caused(m)'
      BY <1>1, <2>1, <2>2, CausedKept
    <2> QED
      BY <2>1, <2>2
  <1>3. CASE UNCHANGED log
    BY <1>1, <1>2, <1>3 DEF MessagesCaused
  <1>4. ASSUME NEW m \in Message, Publish(m), Caused(m) PROVE MessagesCaused'
    <2>1. Caused(m)'
      BY <1>1, <1>4, CausedKept
    <2>2. \A q \in Queue : \A i \in DOMAIN log'[q] :
             i \in DOMAIN log[q] \/ (q = m.queue /\ log'[q][i] = m)
      BY <1>4, PublishAppends
    <2>3. ASSUME NEW q \in Queue, NEW i \in DOMAIN log'[q] PROVE Caused(log[q][i])'
      <3>1. CASE i \in DOMAIN log[q]
        BY <1>2, <3>1
      <3>2. CASE log'[q][i] = m
        BY <2>1, <3>2
      <3> QED
        BY <2>2, <3>1, <3>2
    <2> QED
      BY <2>3 DEF MessagesCaused
  <1> QED
    BY <1>1, <1>3, <1>4

\* A message that stays in hand stays the same message, whatever is appended.
LEMMA SameInHand ==
    ASSUME TypeInv, Grows, NEW g \in Group, hand[g] # NoHand,
           hand'[g].queue = hand[g].queue, hand'[g].at = hand[g].at
    PROVE  InHand(g)' = InHand(g)
  BY HandFacts DEF InHand, Grows

LEMMA TakenInHand ==
    ASSUME TypeInv, Grows, NEW g \in Group, NEW q \in Reads(g), NEW i \in DOMAIN log[q],
           hand'[g].queue = q, hand'[g].at = i
    PROVE  InHand(g)' = log[q][i]
  BY DEF InHand, Grows, Reads

\* A step that leaves redis and the hand of the transfers command handler alone.
LEMMA ReservedKept ==
    ASSUME TypeInv, Grows, ReservedCaused, UNCHANGED status,
           hand'["transferCmd"] \in {hand["transferCmd"], NoHand}
    PROVE  ReservedCaused'
  <1>1. \A t \in Transfer : Published(TransferPreparedEvt(t)) => Published(TransferPreparedEvt(t))'
    BY MessageTypes, PublishedKept
  <1>2. CASE hand'["transferCmd"] = NoHand
    BY <1>1, <1>2 DEF ReservedCaused
  <1>3. CASE hand["transferCmd"] # NoHand /\ hand'["transferCmd"] = hand["transferCmd"]
    <2>1. InHand("transferCmd")' = InHand("transferCmd") /\ InHand("transferCmd").t \in Transfer
      BY <1>3, HandlerFacts, HandFacts, SameInHand
    <2> QED
      BY <1>1, <1>3, <2>1 DEF ReservedCaused
  <1> QED
    BY <1>2, <1>3

\* A step that tells nobody and leaves the hand of the notification handler alone.
LEMMA CallbacksKept ==
    ASSUME TypeInv, Grows, CallbacksCaused, UNCHANGED told,
           \/ hand'["notification"] \in {hand["notification"], NoHand}
           \/ hand'["notification"].step # "send"
    PROVE  CallbacksCaused'
  <1>1. \A t \in Transfer :
           /\ Published(TransferPreparedEvt(t)) => Published(TransferPreparedEvt(t))'
           /\ Published(TransferFulfilledEvt(t)) => Published(TransferFulfilledEvt(t))'
    BY MessageTypes, PublishedKept
  <1>2. CASE hand'["notification"] = NoHand \/ hand'["notification"].step # "send"
    BY <1>1, <1>2 DEF CallbacksCaused
  <1>3. CASE hand["notification"] # NoHand /\ hand'["notification"] = hand["notification"]
    <2>1. InHand("notification")' = InHand("notification")
      BY <1>3, HandlerFacts, SameInHand
    <2> QED
      BY <1>1, <1>3, <2>1 DEF CallbacksCaused
  <1> QED
    BY <1>2, <1>3

LEMMA InitCauseInv == Init => CauseInv
  <1> SUFFICES ASSUME Init PROVE CauseInv
    OBVIOUS
  <1>1. TypeInv
    BY InitTypeInv
  <1>2. MessagesCaused /\ ReservedCaused /\ CallbacksCaused
    BY HandlerFacts DEF Init, MessagesCaused, ReservedCaused, CallbacksCaused, Callback
  <1> QED
    BY <1>1, <1>2 DEF CauseInv

LEMMA CauseStep == CauseInv /\ [Next]_vars => CauseInv'
  <1> SUFFICES ASSUME CauseInv, [Next]_vars PROVE CauseInv'
    OBVIOUS
  <1> DEFINE Inv == MessagesCaused /\ ReservedCaused /\ CallbacksCaused
             Says(m) == m \in Message /\ Publish(m) /\ Caused(m)
  <1>0. TypeInv /\ TypeInv' /\ MessagesCaused /\ ReservedCaused /\ CallbacksCaused
    BY TypeStep DEF CauseInv
  <1>a. ASSUME UNCHANGED setting, UNCHANGED log \/ \E m : Says(m)
        PROVE  Grows /\ MessagesCaused'
    BY <1>0, <1>a, LogStep
  <1>b. ASSUME NEW g \in Group, NEW q \in Reads(g), NEW i \in DOMAIN log[q], Take(g, q, i)
        PROVE  /\ log[q][i] \in Message /\ log[q][i].t \in Transfer
               /\ log[q][i].name \in Handler[g].names
               /\ Published(log[q][i]) /\ Caused(log[q][i])
    BY <1>0, <1>b, TakeFacts, PublishedHere, CauseOf
  <1>1. ASSUME NEW t \in Transfer, Fsp(t) PROVE Inv'
    <2>1. UNCHANGED <<setting, hand, status, told>>
      BY <1>1 DEF Fsp, CreateTransfer, CreateTransferLost, Requested, FulfilTransfer,
         FulfilTransferError, Answered, GetTransferById, cmdVars
    <2>2. UNCHANGED log \/ \E m : Says(m)
      <3>1. CASE CreateTransfer(t)
        BY <3>1, MessageTypes DEF CreateTransfer, TransferPrepareRequestedEvt, Msg, Caused
      <3>2. ASSUME NEW how \in Answers, FulfilTransfer(t, how)
            PROVE  Says(TransferFulfilRequestedEvt(t, how))
        BY <3>2, MessageTypes DEF FulfilTransfer, TransferFulfilRequestedEvt, Msg, Caused
      <3> QED
        BY <1>1, <3>1, <3>2 DEF Fsp, CreateTransferLost, FulfilTransferError, GetTransferById
    <2>3. Grows /\ MessagesCaused'
      BY <1>a, <2>1, <2>2
    <2> QED
      BY <1>0, <2>1, <2>3, ReservedKept, CallbacksKept
  <1>2. ASSUME NEW q \in Reads("transferEvt"), NEW i \in DOMAIN log[q], HandleTransferEvt(q, i)
        PROVE  Inv'
    <2> DEFINE m == log[q][i]
    <2>1. /\ m \in Message /\ m.t \in Transfer /\ Published(m) /\ Caused(m)
          /\ m.name \in TransferEvtHandler.names
      BY <1>2, <1>b, HandlerFacts DEF HandleTransferEvt
    <2>2. Caused(TransferCmdFor(m))
      <3> HIDE DEF m
      <3>1. CASE m.name = "TransferPrepareRequestedEvt"
        BY <3>1 DEF TransferCmdFor, PrepareTransferCmd, Msg, Caused
      <3>2. CASE m.name = "TransferFulfilRequestedEvt"
        BY <2>1, <3>2 DEF TransferCmdFor, FulfilTransferCmd, Msg, Caused
      <3>3. CASE m.name = "PayerFundsReservedEvt"
        BY <2>1, <3>3 DEF TransferCmdFor, AckPayerFundsReservedCmd, Msg, Caused
      <3>4. CASE m.name = "PayeeFundsCommittedEvt"
        BY <2>1, <3>4 DEF TransferCmdFor, AckPayeeFundsCommittedCmd, Msg, Caused
      <3> QED
        BY <2>1, <3>1, <3>2, <3>3, <3>4 DEF TransferEvtHandler
    <2>3. Says(TransferCmdFor(m))
      BY <1>2, <2>1, <2>2, TransferCmdForType DEF HandleTransferEvt
    <2>4. /\ UNCHANGED <<setting, status, told>>
          /\ hand'["transferCmd"] = hand["transferCmd"]
          /\ hand'["notification"] = hand["notification"]
      BY <1>0, <1>2, HandlerFacts
         DEF HandleTransferEvt, RelayStep, GoOn, cmdVars, fspVars, TypeInv
    <2>5. Grows /\ MessagesCaused'
      BY <1>a, <2>3, <2>4
    <2> QED
      BY <1>0, <2>4, <2>5, ReservedKept, CallbacksKept
  <1>3. ASSUME NEW q \in Reads("participantEvt"), NEW i \in DOMAIN log[q],
               HandleParticipantEvt(q, i)
        PROVE  Inv'
    <2> DEFINE m == log[q][i]
    <2>1. /\ m \in Message /\ m.t \in Transfer /\ Published(m) /\ Caused(m)
          /\ m.name \in ParticipantEvtHandler.names
      BY <1>3, <1>b, HandlerFacts DEF HandleParticipantEvt
    <2>2. ASSUME ParticipantCmdFor(m).queue[2] \in setting.registered
          PROVE  Caused(ParticipantCmdFor(m))
      <3> HIDE DEF m
      <3>1. CASE m.name = "TransferPrepareAcceptedEvt"
        BY <2>1, <2>2, <3>1 DEF ParticipantCmdFor, ReservePayerFundsCmd, Msg, Caused
      <3>2. CASE m.name = "TransferFulfilAcceptedEvt"
        BY <2>1, <2>2, <3>2 DEF ParticipantCmdFor, CommitPayeeFundsCmd, Msg, Caused
      <3> QED
        BY <2>1, <3>1, <3>2 DEF ParticipantEvtHandler
    <2>3. UNCHANGED log \/ Says(ParticipantCmdFor(m))
      BY <1>3, <2>1, <2>2, ParticipantCmdForType DEF HandleParticipantEvt
    <2>4. /\ UNCHANGED <<setting, status, told>>
          /\ hand'["transferCmd"] = hand["transferCmd"]
          /\ hand'["notification"] = hand["notification"]
      BY <1>0, <1>3, HandlerFacts
         DEF HandleParticipantEvt, RelayStep, GoOn, cmdVars, fspVars, TypeInv
    <2>5. Grows /\ MessagesCaused'
      BY <1>a, <2>3, <2>4
    <2> QED
      BY <1>0, <2>4, <2>5, ReservedKept, CallbacksKept
  <1>4. ASSUME NEW g \in Group, NEW q \in Reads(g), NEW i \in DOMAIN log[q], RelayFails(g, q, i)
        PROVE  Inv'
    <2>1. /\ UNCHANGED <<setting, log, status, told>>
          /\ hand'["transferCmd"] = hand["transferCmd"]
          /\ hand'["notification"] = hand["notification"]
      BY <1>0, <1>4, HandlerFacts
         DEF RelayFails, RelayStep, GoOn, cmdVars, fspVars, TypeInv
    <2>2. Grows /\ MessagesCaused'
      BY <1>a, <2>1
    <2> QED
      BY <1>0, <2>1, <2>2, ReservedKept, CallbacksKept
  \* What the simulator and the notification handler have told is in the log.
  <1>c. ASSUME Grows, NEW t \in Transfer, NEW c \in {"payeeAsked", "payerTold"}, Tell(t, c),
               c = "payeeAsked" => Published(TransferPreparedEvt(t)),
               c = "payerTold" => Published(TransferFulfilledEvt(t))
        PROVE  /\ told'[t][c] > 0
               /\ \A u \in Transfer :
                     /\ told'[u]["payeeAsked"] > 0 => Published(TransferPreparedEvt(u))'
                     /\ told'[u]["payerTold"] > 0 => Published(TransferFulfilledEvt(u))'
                     /\ told'[u]["payeeTold"] > 0 => told'[u]["payerTold"] > 0
                     /\ told[u]["payerTold"] > 0 => told'[u]["payerTold"] > 0
    <2>0. c \in Callback /\ told \in [Transfer -> [Callback -> Nat]]
      BY <1>0, <1>c DEF Callback, TypeInv, TypeOK
    <2>1. /\ told'[t][c] > 0
          /\ told' \in [Transfer -> [Callback -> Nat]]
          /\ \A u \in Transfer : \A d \in Callback :
                told'[u][d] = told[u][d] \/ (u = t /\ d = c)
          /\ \A u \in Transfer : \A d \in Callback : told'[u][d] >= told[u][d]
      BY <1>0, <1>c, <2>0, TellType
    <2>2. \A u \in Transfer :
             /\ Published(TransferPreparedEvt(u)) => Published(TransferPreparedEvt(u))'
             /\ Published(TransferFulfilledEvt(u)) => Published(TransferFulfilledEvt(u))'
      BY <1>0, <1>c, MessageTypes, PublishedKept
    <2> QED
      BY <1>0, <1>c, <2>0, <2>1, <2>2 DEF CallbacksCaused, Callback
  <1>5. ASSUME NEW q \in Reads("simulatorEvt"), NEW i \in DOMAIN log[q], HandleSimulatorEvt(q, i)
        PROVE  Inv'
    <2> DEFINE t == log[q][i].t
    <2>1. /\ log[q][i] \in Message /\ t \in Transfer
          /\ log[q][i].name = "TransferPreparedEvt" => Published(TransferPreparedEvt(t))
          /\ log[q][i].name = "TransferFulfilledEvt" => Published(TransferFulfilledEvt(t))
      BY <1>5, <1>b, HandlerFacts DEF HandleSimulatorEvt, Caused
    <2>2. \A how \in Answers : Caused(TransferFulfilRequestedEvt(t, how))
      BY DEF TransferFulfilRequestedEvt, Msg, Caused
    <2>3. UNCHANGED log \/ \E m : Says(m)
      BY <1>5, <2>1, <2>2, MessageTypes DEF HandleSimulatorEvt, Answers
    <2>4. /\ UNCHANGED <<setting, status>>
          /\ hand'["transferCmd"] = hand["transferCmd"]
          /\ hand'["notification"] = hand["notification"]
      BY <1>0, <1>5, HandlerFacts DEF HandleSimulatorEvt, GoOn, cmdVars, TypeInv
    <2>5. Grows /\ MessagesCaused'
      BY <1>a, <2>3, <2>4
    <2>6. \E c \in {"payeeAsked", "payerTold"} :
             /\ Tell(t, c)
             /\ c = "payeeAsked" => Published(TransferPreparedEvt(t))
             /\ c = "payerTold" => Published(TransferFulfilledEvt(t))
      BY <1>5, <2>1 DEF HandleSimulatorEvt
    <2>7. hand["notification"] # NoHand => /\ InHand("notification")' = InHand("notification")
                                           /\ InHand("notification").t \in Transfer
      BY <1>0, <2>4, <2>5, HandlerFacts, HandFacts, SameInHand
    <2>8. CallbacksCaused'
      <3> HIDE DEF t
      <3> QED
        BY <1>0, <1>c, <2>1, <2>4, <2>5, <2>6, <2>7 DEF CallbacksCaused
    <2> QED
      BY <1>0, <2>4, <2>5, <2>8, ReservedKept
  <1>6. ASSUME NEW q \in Reads("notification"), NEW i \in DOMAIN log[q], NotifyFirst(q, i)
        PROVE  Inv'
    <2> DEFINE t == log[q][i].t
    <2>1. /\ log[q][i] \in Message /\ t \in Transfer
          /\ log[q][i].name = "TransferPreparedEvt" => Published(TransferPreparedEvt(t))
          /\ log[q][i].name = "TransferFulfilledEvt" => Published(TransferFulfilledEvt(t))
      BY <1>6, <1>b, HandlerFacts DEF NotifyFirst, Caused
    <2>2. PICK c \in {"payeeAsked", "payerTold"}, step \in {"send", "commit"} :
             /\ Tell(t, c)
             /\ c = "payeeAsked" => Published(TransferPreparedEvt(t)) /\ step = "commit"
             /\ c = "payerTold" => Published(TransferFulfilledEvt(t))
             /\ GoOn("notification", q, i, step, "none")
      BY <1>6, <2>1 DEF NotifyFirst
    <2>3. /\ UNCHANGED <<setting, log, status>>
          /\ hand'["transferCmd"] = hand["transferCmd"]
          /\ hand'["notification"] =
                [queue |-> q, at |-> i, step |-> step, write |-> "none"]
      BY <1>0, <1>6, <2>2, HandlerFacts DEF NotifyFirst, NotifyStep, GoOn, cmdVars, TypeInv
    <2>4. Grows /\ MessagesCaused'
      BY <1>a, <2>3
    <2>5. InHand("notification")' = log[q][i]
      BY <1>0, <2>3, <2>4, HandlerFacts, TakenInHand
    <2>6. CallbacksCaused'
      <3>1. step = "send" => c = "payerTold"
        BY <2>2
      <3>2. InHand("notification")'.t = t
        BY <2>5
      <3> HIDE DEF t
      <3> QED
        BY <1>0, <1>c, <2>1, <2>2, <2>3, <2>4, <3>1, <3>2 DEF CallbacksCaused
    <2> QED
      BY <1>0, <2>3, <2>4, <2>6, ReservedKept
  <1>7. ASSUME NotifyPayee PROVE Inv'
    <2> DEFINE t == InHand("notification").t
    <2>1. /\ UNCHANGED <<setting, log, status>>
          /\ hand'["transferCmd"] = hand["transferCmd"]
          /\ hand'["notification"].step = "commit"
      BY <1>0, <1>7, HandlerFacts, ProceedHand DEF NotifyPayee, NotifyStep, Step, cmdVars
    <2>2. Grows /\ MessagesCaused'
      BY <1>a, <2>1
    <2>3. t \in Transfer /\ Tell(t, "payeeTold") /\ told[t]["payerTold"] > 0
      BY <1>0, <1>7, HandlerFacts, HandFacts DEF NotifyPayee, CallbacksCaused
    <2>4. \A u \in Transfer : \A d \in Callback :
             told'[u][d] = told[u][d] \/ (u = t /\ d = "payeeTold")
      <3>1. "payeeTold" \in Callback
        BY DEF Callback
      <3> HIDE DEF t
      <3> QED
        BY <1>0, <2>3, <3>1, TellType
    <2>5. CallbacksCaused'
      <3>1. \A u \in Transfer :
               /\ Published(TransferPreparedEvt(u)) => Published(TransferPreparedEvt(u))'
               /\ Published(TransferFulfilledEvt(u)) => Published(TransferFulfilledEvt(u))'
        BY <1>0, <2>2, MessageTypes, PublishedKept
      <3> HIDE DEF t
      <3> QED
        BY <1>0, <2>1, <2>3, <2>4, <3>1 DEF CallbacksCaused, Callback
    <2> QED
      BY <1>0, <2>1, <2>2, <2>5, ReservedKept
  <1>8. ASSUME NotifyFails PROVE Inv'
    <2>1. /\ UNCHANGED <<setting, log, status, told>>
          /\ hand'["transferCmd"] = hand["transferCmd"]
          /\ hand'["notification"].step = "commit"
      <3>1. CASE \E q \in Reads("notification") : \E i \in DOMAIN log[q] :
                    Take("notification", q, i) /\ GoOn("notification", q, i, "commit", "none")
        BY <1>0, <1>8, <3>1, HandlerFacts DEF NotifyFails, NotifyStep, GoOn, cmdVars, TypeInv
      <3>2. CASE hand["notification"] # NoHand /\ Proceed("notification", "commit")
        BY <1>0, <1>8, <3>2, HandlerFacts, ProceedHand DEF NotifyFails, NotifyStep, Step, cmdVars
      <3> QED
        BY <1>8, <3>1, <3>2 DEF NotifyFails
    <2>2. Grows /\ MessagesCaused'
      BY <1>a, <2>1
    <2> QED
      BY <1>0, <2>1, <2>2, ReservedKept, CallbacksKept
  <1>9. ASSUME NEW q \in Reads("transferCmd"), NEW i \in DOMAIN log[q], RunTransferCmd(q, i)
        PROVE  Inv'
    <2> DEFINE m == log[q][i]
               t == m.t
    <2>1. Take("transferCmd", q, i)
      BY <1>9 DEF RunTransferCmd, PrepareTransfer, RefuseTransferCmd,
         AckPayerFundsReserved, Fulfil, AckPayeeFundsCommitted, TakeAdvance
    <2>2. /\ m \in Message /\ t \in Transfer /\ Published(m) /\ Caused(m)
          /\ m.name \in TransferCmdHandler.names
      BY <2>1, <1>b, HandlerFacts
    <2>3. UNCHANGED <<setting, status, told>>
      BY <1>9 DEF RunTransferCmd, PrepareTransfer, RefuseTransferCmd,
         AckPayerFundsReserved, Fulfil, AckPayeeFundsCommitted, TakeAdvance, Rule, fspVars
    <2>4. \A u \in Transfer :
             status[u] = "RESERVED" => Published(TransferPreparedEvt(u))
      BY <1>0 DEF ReservedCaused
    \* The part that depends on which command it is.
    <2>5. \E step \in Step, write \in Status :
             /\ GoOn("transferCmd", q, i, step, write)
             /\ UNCHANGED log \/ \E n : Says(n)
             /\ step = "send" => write = "RECEIVED_PREPARE" /\ m.name = "PrepareTransferCmd"
             /\ step = "store" /\ write = "RESERVED" => Says(TransferPreparedEvt(t))
      <3>1. CASE PrepareTransfer(q, i)
        <4>1. Caused(DuplicateTransferDetectedEvt(t))
          BY DEF DuplicateTransferDetectedEvt, Msg, Caused
        <4> QED
          BY <2>2, <3>1, <4>1, MessageTypes DEF PrepareTransfer, Step, Status
      <3>2. CASE RefuseTransferCmd(q, i)
        <4>1. Caused(TransferNotFoundEvt(t)) /\ Caused(InvalidTransferEvt(t))
          BY DEF TransferNotFoundEvt, InvalidTransferEvt, Msg, Caused
        <4>2. GoOn("transferCmd", q, i, "commit", "none")
          BY <3>2 DEF RefuseTransferCmd, Rule
        <4>3. \E n : Says(n)
          BY <2>2, <3>2, <4>1, MessageTypes DEF RefuseTransferCmd, Rule
        <4> QED
          BY <4>2, <4>3 DEF Step, Status
      <3>3. CASE AckPayerFundsReserved(q, i)
        <4>1. m.name = "AckPayerFundsReservedCmd"
          BY <3>3 DEF AckPayerFundsReserved
        <4>2. Published(AckPayerFundsReservedCmd(t))
          BY <2>2, <4>1 DEF Caused
        <4>3. Caused(TransferPreparedEvt(t))
          BY <4>2 DEF TransferPreparedEvt, Msg, Caused
        <4> QED
          BY <2>2, <3>3, <4>3, MessageTypes DEF AckPayerFundsReserved, Rule, Step, Status
      <3>4. CASE Fulfil(q, i)
        <4>1. m.name = "FulfilTransferCmd" /\ status[t] = "RESERVED"
          BY <3>4 DEF Fulfil, Loaded
        <4>2. Published(FulfilTransferCmd(t, m.how)) /\ Published(TransferPreparedEvt(t))
          BY <2>2, <2>4, <4>1 DEF Caused
        <4>3. m.how = "commit" => Caused(TransferFulfilAcceptedEvt(t))
          BY <4>2 DEF TransferFulfilAcceptedEvt, Msg, Caused
        <4>4. Caused(InvalidTransferEvt(t))
          BY DEF InvalidTransferEvt, Msg, Caused
        <4>5. CASE Rule(q, i, TransferFulfilAcceptedEvt(t), "RECEIVED_FULFIL") /\ m.how = "commit"
          BY <2>2, <4>3, <4>5, MessageTypes DEF Rule, Step, Status
        <4>6. CASE Rule(q, i, InvalidTransferEvt(t), "none")
          BY <2>2, <4>4, <4>6, MessageTypes DEF Rule, Step, Status
        <4> QED
          BY <3>4, <4>5, <4>6 DEF Fulfil
      <3>5. CASE AckPayeeFundsCommitted(q, i)
        <4>1. m.name = "AckPayeeFundsCommittedCmd"
          BY <3>5 DEF AckPayeeFundsCommitted
        <4>2. Published(AckPayeeFundsCommittedCmd(t))
          BY <2>2, <4>1 DEF Caused
        <4>3. Caused(TransferFulfilledEvt(t))
          BY <4>2 DEF TransferFulfilledEvt, Msg, Caused
        <4> QED
          BY <2>2, <3>5, <4>3, MessageTypes DEF AckPayeeFundsCommitted, Rule, Step, Status
      <3> QED
        BY <1>9, <3>1, <3>2, <3>3, <3>4, <3>5 DEF RunTransferCmd
    <2>6. PICK step \in Step, write \in Status :
             /\ GoOn("transferCmd", q, i, step, write)
             /\ UNCHANGED log \/ \E n : Says(n)
             /\ step = "send" => write = "RECEIVED_PREPARE" /\ m.name = "PrepareTransferCmd"
             /\ step = "store" /\ write = "RESERVED" => Says(TransferPreparedEvt(t))
      BY <2>5
    <2>7. /\ hand'["transferCmd"] = [queue |-> q, at |-> i, step |-> step, write |-> write]
          /\ hand'["notification"] = hand["notification"]
      BY <1>0, <2>6, HandlerFacts DEF GoOn, TypeInv
    <2>8. Grows /\ MessagesCaused'
      BY <1>a, <2>3, <2>6
    <2>9. InHand("transferCmd")' = m
      BY <1>0, <2>7, <2>8, HandlerFacts, TakenInHand
    <2>10. \A u \in Transfer : u = t /\ step = "store" /\ write = "RESERVED" =>
              Published(TransferPreparedEvt(u))'
      BY <1>0, <2>6, PublishedNow
    <2>11. ReservedCaused'
      <3>1. \A u \in Transfer :
               Published(TransferPreparedEvt(u)) => Published(TransferPreparedEvt(u))'
        BY <1>0, <2>8, MessageTypes, PublishedKept
      <3>2. \E u \in Transfer : u = t /\ InHand("transferCmd")'.t = u
        BY <2>2, <2>9
      <3> QED
        BY <2>3, <2>4, <2>6, <2>7, <2>9, <2>10, <3>1, <3>2 DEF ReservedCaused
    <2> QED
      BY <1>0, <2>3, <2>7, <2>8, <2>11, CallbacksKept
  <1>10. ASSUME AcceptTransfer PROVE Inv'
    <2>1. /\ UNCHANGED <<setting, status, told>>
          /\ hand["transferCmd"].write = "RECEIVED_PREPARE"
          /\ hand'["transferCmd"] = [hand["transferCmd"] EXCEPT !.step = "store"]
          /\ hand'["notification"] = hand["notification"]
          /\ hand["transferCmd"] \in Hand("transferCmd")
          /\ InHand("transferCmd").t \in Transfer
      BY <1>0, <1>10, HandlerFacts, HandFacts, ProceedHand
         DEF AcceptTransfer, Step, cmdVars, fspVars, ReservedCaused
    <2>2. Says(TransferPrepareAcceptedEvt(InHand("transferCmd").t))
      BY <1>10, <2>1, MessageTypes DEF AcceptTransfer, TransferPrepareAcceptedEvt, Msg, Caused
    <2>3. Grows /\ MessagesCaused'
      BY <1>a, <2>1, <2>2
    <2>4. ReservedCaused'
      <3>1. \A u \in Transfer :
               Published(TransferPreparedEvt(u)) => Published(TransferPreparedEvt(u))'
        BY <1>0, <2>3, MessageTypes, PublishedKept
      <3>2. hand'["transferCmd"].step = "store" /\ hand'["transferCmd"].write = "RECEIVED_PREPARE"
        BY <2>1 DEF Hand
      <3> QED
        BY <1>0, <2>1, <3>1, <3>2 DEF ReservedCaused
    <2> QED
      BY <1>0, <2>1, <2>3, <2>4, CallbacksKept
  <1>11. ASSUME StoreTransfer PROVE Inv'
    <2> DEFINE t == InHand("transferCmd").t
    <2>1. /\ UNCHANGED <<setting, log, told>>
          /\ hand'["transferCmd"].step = "commit"
          /\ hand'["notification"] = hand["notification"]
          /\ t \in Transfer
          /\ status' = [status EXCEPT ![t] = hand["transferCmd"].write]
      BY <1>0, <1>11, HandlerFacts, HandFacts, ProceedHand DEF StoreTransfer, Step, fspVars
    <2>2. Grows /\ MessagesCaused'
      BY <1>a, <2>1
    <2>3. ReservedCaused'
      <3>1. \A u \in Transfer :
               Published(TransferPreparedEvt(u)) => Published(TransferPreparedEvt(u))'
        BY <1>0, <2>2, MessageTypes, PublishedKept
      <3>2. \A u \in Transfer : status'[u] = "RESERVED" =>
               status[u] = "RESERVED" \/ (u = t /\ hand["transferCmd"].write = "RESERVED")
        BY <1>0, <2>1 DEF TypeInv, TypeOK
      <3> QED
        BY <1>0, <1>11, <2>1, <3>1, <3>2 DEF StoreTransfer, ReservedCaused
    <2> QED
      BY <1>0, <2>1, <2>2, <2>3, CallbacksKept
  <1>12. ASSUME NEW q \in Reads("participantCmd"), NEW i \in DOMAIN log[q],
                RunParticipantCmd(q, i)
         PROVE  Inv'
    <2> DEFINE m == log[q][i]
               t == m.t
    <2>1. /\ m \in Message /\ t \in Transfer /\ Published(m) /\ Caused(m)
      BY <1>12, <1>b, HandlerFacts DEF RunParticipantCmd, ReservePayerFunds, CommitPayeeFunds
    <2>2. \E n : Says(n)
      <3>1. CASE ReservePayerFunds(q, i)
        <4>1. Published(ReservePayerFundsCmd(t))
          BY <2>1, <3>1 DEF ReservePayerFunds, Caused
        <4>2. /\ Caused(PayerFundsReservedEvt(t))
              /\ Caused(NetCapLimitExceededEvt(t))
              /\ Caused(InvalidParticipantEvt(Payee[t], t))
          BY <4>1 DEF PayerFundsReservedEvt, NetCapLimitExceededEvt, InvalidParticipantEvt,
             Msg, Caused
        <4> QED
          BY <2>1, <3>1, <4>2, MessageTypes, ConstantTypes DEF ReservePayerFunds, Move
      <3>2. CASE CommitPayeeFunds(q, i)
        <4>1. Published(CommitPayeeFundsCmd(t))
          BY <2>1, <3>2 DEF CommitPayeeFunds, Caused
        <4>2. Caused(PayeeFundsCommittedEvt(t))
          BY <4>1 DEF PayeeFundsCommittedEvt, Msg, Caused
        <4> QED
          BY <2>1, <3>2, <4>2, MessageTypes DEF CommitPayeeFunds, Move
      <3> QED
        BY <1>12, <3>1, <3>2 DEF RunParticipantCmd
    <2>3. /\ UNCHANGED <<setting, status, told>>
          /\ hand'["transferCmd"] = hand["transferCmd"]
          /\ hand'["notification"] = hand["notification"]
      BY <1>0, <1>12, HandlerFacts
         DEF RunParticipantCmd, ReservePayerFunds, CommitPayeeFunds, Move, GoOn, cmdVars,
             fspVars, TypeInv
    <2>4. Grows /\ MessagesCaused'
      BY <1>a, <2>2, <2>3
    <2> QED
      BY <1>0, <2>3, <2>4, ReservedKept, CallbacksKept
  <1>13. ASSUME \/ StoreParticipant
                \/ \E g \in Group : Commit(g)
                \/ \E process \in Process : Drop(process)
                \/ UNCHANGED vars
         PROVE  Inv'
    <2>1. /\ UNCHANGED <<setting, log, status, told>>
          /\ hand'["transferCmd"] \in {hand["transferCmd"], NoHand}
          /\ hand'["notification"] \in {hand["notification"], NoHand}
      <3>1. CASE StoreParticipant
        BY <1>0, <3>1, HandlerFacts DEF StoreParticipant, Proceed, fspVars, TypeInv
      <3>2. ASSUME NEW g \in Group, Commit(g)
            PROVE /\ UNCHANGED <<setting, log, status, told>>
                  /\ hand'["transferCmd"] \in {hand["transferCmd"], NoHand}
                  /\ hand'["notification"] \in {hand["notification"], NoHand}
        BY <1>0, <3>2, HandlerFacts DEF Commit, cmdVars, fspVars, TypeInv
      <3>3. ASSUME NEW process \in Process, Drop(process)
            PROVE /\ UNCHANGED <<setting, log, status, told>>
                  /\ hand'["transferCmd"] \in {hand["transferCmd"], NoHand}
                  /\ hand'["notification"] \in {hand["notification"], NoHand}
        BY <1>0, <3>3, HandlerFacts DEF Drop, fspVars
      <3> QED
        BY <1>13, <3>1, <3>2, <3>3 DEF vars
    <2>2. Grows /\ MessagesCaused'
      BY <1>a, <2>1
    <2> QED
      BY <1>0, <2>1, <2>2, ReservedKept, CallbacksKept
  <1> HIDE DEF Inv
  <1>14. ASSUME Handle PROVE Inv'
    BY <1>2, <1>3, <1>5, <1>6, <1>7, <1>9, <1>10, <1>11, <1>12, <1>13, <1>14
       DEF Handle, TransferEvt, ParticipantEvt, SimulatorEvt, Notification, TransferCmd,
           ParticipantCmd
  <1>15. ASSUME Fail PROVE Inv'
    BY <1>4, <1>8, <1>13, <1>15
       DEF Fail, StopTransfers, StopParticipants, StopSimulator, StopAdapter, Process
  <1>16. Inv'
    BY <1>1, <1>13, <1>14, <1>15 DEF Next
  <1> QED
    BY <1>0, <1>16 DEF CauseInv, Inv

\* The chain of causes, from what the FSPs are told back to their requests.
LEMMA Chain ==
    ASSUME CauseInv, NEW t \in Transfer
    PROVE  /\ Published(TransferFulfilledEvt(t)) => Published(AckPayeeFundsCommittedCmd(t))
           /\ Published(AckPayeeFundsCommittedCmd(t)) => Published(PayeeFundsCommittedEvt(t))
           /\ Published(PayeeFundsCommittedEvt(t)) => Published(CommitPayeeFundsCmd(t))
           /\ Published(CommitPayeeFundsCmd(t)) =>
                 Published(TransferFulfilAcceptedEvt(t)) /\ Payee[t] \in setting.registered
           /\ Published(TransferFulfilAcceptedEvt(t)) =>
                 Published(TransferPreparedEvt(t)) /\ Published(FulfilTransferCmd(t, "commit"))
           /\ Published(FulfilTransferCmd(t, "commit")) =>
                 Published(TransferFulfilRequestedEvt(t, "commit"))
           /\ Published(TransferPreparedEvt(t)) => Published(AckPayerFundsReservedCmd(t))
           /\ Published(AckPayerFundsReservedCmd(t)) => Published(PayerFundsReservedEvt(t))
           /\ Published(PayerFundsReservedEvt(t)) => Published(ReservePayerFundsCmd(t))
           /\ Published(ReservePayerFundsCmd(t)) =>
                 Published(TransferPrepareAcceptedEvt(t)) /\ Payer[t] \in setting.registered
  <1> USE CauseOf, MessageTypes DEF CauseInv
  <1>1. Published(TransferFulfilledEvt(t)) => Caused(TransferFulfilledEvt(t))
    OBVIOUS
  <1>2. Published(AckPayeeFundsCommittedCmd(t)) => Caused(AckPayeeFundsCommittedCmd(t))
    OBVIOUS
  <1>3. Published(PayeeFundsCommittedEvt(t)) => Caused(PayeeFundsCommittedEvt(t))
    OBVIOUS
  <1>4. Published(CommitPayeeFundsCmd(t)) => Caused(CommitPayeeFundsCmd(t))
    OBVIOUS
  <1>5. Published(TransferFulfilAcceptedEvt(t)) => Caused(TransferFulfilAcceptedEvt(t))
    OBVIOUS
  <1>6. Published(FulfilTransferCmd(t, "commit")) => Caused(FulfilTransferCmd(t, "commit"))
    BY DEF Answers
  <1>7. Published(TransferPreparedEvt(t)) => Caused(TransferPreparedEvt(t))
    OBVIOUS
  <1>8. Published(AckPayerFundsReservedCmd(t)) => Caused(AckPayerFundsReservedCmd(t))
    OBVIOUS
  <1>9. Published(PayerFundsReservedEvt(t)) => Caused(PayerFundsReservedEvt(t))
    OBVIOUS
  <1>10. Published(ReservePayerFundsCmd(t)) => Caused(ReservePayerFundsCmd(t))
    OBVIOUS
  <1>11. /\ Published(TransferFulfilledEvt(t)) => Published(AckPayeeFundsCommittedCmd(t))
         /\ Published(AckPayeeFundsCommittedCmd(t)) => Published(PayeeFundsCommittedEvt(t))
         /\ Published(PayeeFundsCommittedEvt(t)) => Published(CommitPayeeFundsCmd(t))
    BY <1>1, <1>2, <1>3
       DEF Caused, Msg, TransferFulfilledEvt, AckPayeeFundsCommittedCmd, PayeeFundsCommittedEvt
  <1>12. /\ Published(CommitPayeeFundsCmd(t)) =>
               Published(TransferFulfilAcceptedEvt(t)) /\ Payee[t] \in setting.registered
         /\ Published(TransferFulfilAcceptedEvt(t)) =>
               Published(TransferPreparedEvt(t)) /\ Published(FulfilTransferCmd(t, "commit"))
         /\ Published(FulfilTransferCmd(t, "commit")) =>
               Published(TransferFulfilRequestedEvt(t, "commit"))
    BY <1>4, <1>5, <1>6
       DEF Caused, Msg, CommitPayeeFundsCmd, TransferFulfilAcceptedEvt, FulfilTransferCmd
  <1>13. /\ Published(TransferPreparedEvt(t)) => Published(AckPayerFundsReservedCmd(t))
         /\ Published(AckPayerFundsReservedCmd(t)) => Published(PayerFundsReservedEvt(t))
         /\ Published(PayerFundsReservedEvt(t)) => Published(ReservePayerFundsCmd(t))
         /\ Published(ReservePayerFundsCmd(t)) =>
               Published(TransferPrepareAcceptedEvt(t)) /\ Payer[t] \in setting.registered
    BY <1>7, <1>8, <1>9, <1>10
       DEF Caused, Msg, TransferPreparedEvt, AckPayerFundsReservedCmd, PayerFundsReservedEvt,
           ReservePayerFundsCmd
  <1> QED
    BY <1>11, <1>12, <1>13

\* The FSPs are told only what happened: the handlers of the adapter and of the
\* simulator call back on events whose causes reach back to both participants.
THEOREM ToldTruly == Spec => []ToldOnlyWhatHappened
  <1>1. CauseInv => ToldOnlyWhatHappened
    BY Chain DEF CauseInv, CallbacksCaused, ToldOnlyWhatHappened
  <1> QED
    BY InitCauseInv, CauseStep, <1>1, PTL DEF Spec

\* The payee is paid only what the payer's hold covers and the payee answered for,
\* whatever process stops and whatever is handled again.
THEOREM PaidRightly == Spec => []PaidOnlyIfHeldAndFulfilled
  <1>1. CauseInv => PaidOnlyIfHeldAndFulfilled
    BY Chain DEF PaidOnlyIfHeldAndFulfilled
  <1> QED
    BY InitCauseInv, CauseStep, <1>1, PTL DEF Spec

\* The two command handlers only get commands that the models of each of them
\* assume: acknowledged what was accepted, moved funds of registered participants.
THEOREM UpstreamHolds == Spec => []UpstreamKept
  <1>1. CauseInv => UpstreamKept
    BY Chain DEF UpstreamKept
  <1> QED
    BY InitCauseInv, CauseStep, <1>1, PTL DEF Spec

--------------------------------------------------------------------------------
(* Counting messages *)

LEMMA WaitingType ==
    ASSUME NEW s \in Seq(Message), NEW n, NEW m
    PROVE  /\ IsFiniteSet({i \in DOMAIN s : i > n /\ s[i] = m})
           /\ Waiting(s, n, m) \in Nat
  <1>1. IsFiniteSet(1..Len(s))
    BY FS_Interval
  <1>2. {i \in DOMAIN s : i > n /\ s[i] = m} \subseteq 1..Len(s)
    OBVIOUS
  <1> QED
    BY <1>1, <1>2, FS_Subset, FS_CardinalityType DEF Waiting

LEMMA WaitingNat ==
    ASSUME NEW s \in Seq(Message), NEW n, NEW m
    PROVE  Waiting(s, n, m) \in Nat
  BY WaitingType

\* One message more.
LEMMA WaitingAppend ==
    ASSUME NEW s \in Seq(Message), NEW n \in 0..Len(s), NEW m, NEW e \in Message
    PROVE  Waiting(Append(s, e), n, m) = Waiting(s, n, m) + (IF e = m THEN 1 ELSE 0)
  <1> DEFINE A == {i \in DOMAIN s : i > n /\ s[i] = m}
             B == {i \in DOMAIN Append(s, e) : i > n /\ Append(s, e)[i] = m}
  <1>1. IsFiniteSet(A) /\ Waiting(s, n, m) = Cardinality(A) /\ Waiting(s, n, m) \in Nat
    BY WaitingType DEF Waiting
  <1>4. Waiting(Append(s, e), n, m) = Cardinality(B)
    BY DEF Waiting
  <1>2. CASE e = m
    <2>1. B = A \union {Len(s) + 1} /\ Len(s) + 1 \notin A
      BY <1>2
    <2>2. Cardinality(B) = Cardinality(A) + 1
      BY <1>1, <2>1, FS_AddElement
    <2> HIDE DEF A, B
    <2> QED
      BY <1>1, <1>2, <1>4, <2>2
  <1>3. CASE e # m
    <2>1. B = A
      BY <1>3
    <2> HIDE DEF A, B
    <2> QED
      BY <1>1, <1>3, <1>4, <2>1
  <1> QED
    BY <1>2, <1>3

\* The messages between n and i have other names: only the i-th is passed.
LEMMA WaitingPass ==
    ASSUME NEW s \in Seq(Message), NEW n \in Nat, NEW m, NEW i \in (n + 1)..Len(s),
           \A j \in (n + 1)..(i - 1) : s[j] # m
    PROVE  Waiting(s, n, m) = Waiting(s, i, m) + (IF s[i] = m THEN 1 ELSE 0)
  <1> DEFINE A == {j \in DOMAIN s : j > n /\ s[j] = m}
             B == {j \in DOMAIN s : j > i /\ s[j] = m}
  <1>1. IsFiniteSet(B) /\ Waiting(s, i, m) = Cardinality(B) /\ Waiting(s, i, m) \in Nat
    BY WaitingType DEF Waiting
  <1>4. Waiting(s, n, m) = Cardinality(A)
    BY DEF Waiting
  <1>2. CASE s[i] = m
    <2>1. A = B \union {i} /\ i \notin B
      BY <1>2
    <2>2. Cardinality(A) = Cardinality(B) + 1
      BY <1>1, <2>1, FS_AddElement
    <2> HIDE DEF A, B
    <2> QED
      BY <1>1, <1>2, <1>4, <2>2
  <1>3. CASE s[i] # m
    <2>1. A = B
      BY <1>3
    <2> HIDE DEF A, B
    <2> QED
      BY <1>1, <1>3, <1>4, <2>1
  <1> QED
    BY <1>2, <1>3

--------------------------------------------------------------------------------
(* Only a failure moves funds twice *)

LEMMA ReachedType ==
    ASSUME TypeInv, NEW g \in Group, NEW q \in Queue
    PROVE  Reached(g, q) \in 0..Len(log[q])
  <1>1. offset[g][q] \in Nat /\ offset[g][q] <= Len(log[q]) /\ Len(log[q]) \in Nat
    BY DEF TypeInv, TypeOK, LogOK
  <1>2. CASE hand[g] # NoHand /\ hand[g].queue = q
    BY <1>1, <1>2, HandFacts DEF Reached
  <1> QED
    BY <1>1, <1>2 DEF Reached

\* How often m is appended in this step: d times.
Appends(m, d) ==
    \A n \in 0..Len(log[m.queue]) :
        Waiting(log'[m.queue], n, m) = Waiting(log[m.queue], n, m) + d

LEMMA PublishedOnce ==
    ASSUME TypeInv, NEW m \in Message, NEW e \in Message, Publish(e)
    PROVE  Appends(m, IF e = m THEN 1 ELSE 0)
  <1>1. m.queue \in Queue /\ log[m.queue] \in Seq(Message)
    BY DEF Message, TypeInv, TypeOK
  <1>2. CASE e.queue = m.queue
    <2>1. log'[m.queue] = Append(log[m.queue], e)
      BY <1>2, PublishAppends
    <2> QED
      BY <1>1, <2>1, WaitingAppend DEF Appends
  <1>3. CASE e.queue # m.queue
    <2>1. log'[m.queue] = log[m.queue] /\ e # m
      BY <1>1, <1>3, PublishAppends
    <2> QED
      BY <1>1, <2>1, WaitingNat DEF Appends
  <1> QED
    BY <1>2, <1>3

LEMMA NonePublished ==
    ASSUME TypeInv, NEW m \in Message, UNCHANGED log
    PROVE  Appends(m, 0)
  <1>1. m.queue \in Queue /\ log[m.queue] \in Seq(Message)
    BY DEF Message, TypeInv, TypeOK
  <1> QED
    BY <1>1, WaitingNat DEF Appends

\* What the counts are after a step: the copies; what a group has to do that goes
\* no further, that takes a message, and that loses the message in its hand.
LEMMA CopiesAfter ==
    ASSUME TypeInv, Grows, NEW m \in Message, NEW d, Appends(m, d)
    PROVE  Copies(m)' = Copies(m) + d /\ Copies(m) \in Nat
  <1>1. m.queue \in Queue /\ log[m.queue] \in Seq(Message)
    BY DEF Message, TypeInv, TypeOK
  <1>2. \A s \in Seq(Message) : Waiting(s, 0, m) = Cardinality({i \in DOMAIN s : s[i] = m})
    <2>1. ASSUME NEW s \in Seq(Message)
          PROVE  {i \in DOMAIN s : i > 0 /\ s[i] = m} = {i \in DOMAIN s : s[i] = m}
      OBVIOUS
    <2> QED
      BY <2>1 DEF Waiting
  <1>3. Copies(m) = Waiting(log[m.queue], 0, m)
    BY <1>1, <1>2 DEF Copies
  <1>4. Copies(m)' = Waiting(log'[m.queue], 0, m)
    <2>1. log'[m.queue] \in Seq(Message)
      BY <1>1 DEF Grows
    <2> QED
      BY <1>2, <2>1 DEF Copies
  <1>5. 0 \in 0..Len(log[m.queue])
    BY <1>1
  <1> QED
    BY <1>1, <1>3, <1>4, <1>5, WaitingNat DEF Appends

LEMMA PendingType ==
    ASSUME TypeInv, NEW m \in Message, NEW g \in Group
    PROVE  Pending(g, m) \in Nat
  <1>1. m.queue \in Queue /\ log[m.queue] \in Seq(Message)
    BY DEF Message, TypeInv, TypeOK
  <1>2. Reached(g, m.queue) \in Nat
    BY <1>1, ReachedType
  <1> QED
    BY <1>1, <1>2, WaitingNat DEF Pending

LEMMA PendingStays ==
    ASSUME TypeInv, NEW m \in Message, NEW g \in Group, NEW d, Appends(m, d),
           hand'[g] = hand[g] \/ (hand[g] # NoHand /\ hand'[g] # NoHand
                                  /\ hand'[g].queue = hand[g].queue /\ hand'[g].at = hand[g].at),
           offset'[g] = offset[g]
    PROVE  Pending(g, m)' = Pending(g, m) + d
  <1>1. m.queue \in Queue
    BY DEF Message
  <1>2. Reached(g, m.queue)' = Reached(g, m.queue)
    BY DEF Reached
  <1> QED
    BY <1>1, <1>2, ReachedType DEF Appends, Pending

LEMMA PendingTaken ==
    ASSUME TypeInv, NEW m \in Message, NEW g \in Group, m.name \in Handler[g].names,
           NEW q \in Reads(g), NEW i \in DOMAIN log[q], Take(g, q, i), NEW d, Appends(m, d),
           d \in Int, hand'[g] # NoHand, hand'[g].queue = q, hand'[g].at = i,
           offset'[g] = offset[g]
    PROVE  Pending(g, m)' = Pending(g, m) + d - (IF log[q][i] = m THEN 1 ELSE 0)
  <1>1. /\ q \in Queue /\ m.queue \in Queue /\ log[q] \in Seq(Message)
        /\ log[q][i].queue = q
        /\ hand[g] = NoHand
        /\ i \in (offset[g][q] + 1)..Len(log[q])
        /\ offset[g][q] \in Nat
        /\ Due(g, q, i)
    <2>1. q \in Queue /\ m.queue \in Queue
      BY DEF Reads, Message
    <2> QED
      BY <2>1, TakeFacts DEF TypeInv, TypeOK
  <1>2. CASE m.queue = q
    <2>1. Reached(g, q) = offset[g][q] /\ Reached(g, q)' = i
      BY <1>1 DEF Reached
    <2>2. \A j \in (offset[g][q] + 1)..(i - 1) : log[q][j] # m
      BY <1>1 DEF Due
    <2>3. Waiting(log[q], offset[g][q], m)
             = Waiting(log[q], i, m) + (IF log[q][i] = m THEN 1 ELSE 0)
      <3>1. PICK s \in Seq(Message), n \in Nat : s = log[q] /\ n = offset[g][q]
        BY <1>1
      <3>2. i \in (n + 1)..Len(s) /\ \A j \in (n + 1)..(i - 1) : s[j] # m
        BY <1>1, <2>2, <3>1
      <3>3. Waiting(s, n, m) = Waiting(s, i, m) + (IF s[i] = m THEN 1 ELSE 0)
        BY <3>2, WaitingPass
      <3> QED
        BY <3>1, <3>3
    <2>4. Waiting(log'[q], i, m) = Waiting(log[q], i, m) + d /\ Waiting(log[q], i, m) \in Nat
      BY <1>1, <1>2, WaitingNat DEF Appends
    <2> QED
      BY <1>2, <2>1, <2>3, <2>4 DEF Pending
  <1>3. CASE m.queue # q
    <2>1. Reached(g, m.queue)' = Reached(g, m.queue) /\ log[q][i] # m
      BY <1>1, <1>3 DEF Reached
    <2>2. Pending(g, m)' = Pending(g, m) + d /\ Pending(g, m) \in Nat
      BY <1>1, <2>1, ReachedType, PendingType DEF Appends, Pending
    <2> QED
      BY <2>1, <2>2
  <1> QED
    BY <1>2, <1>3

LEMMA PendingDropped ==
    ASSUME TypeInv, NEW m \in Message, NEW g \in Group, m.name \in Handler[g].names,
           UNCHANGED log, hand'[g] = NoHand, offset'[g] = offset[g]
    PROVE  Pending(g, m)' <= Pending(g, m) + 1 /\ Pending(g, m)' \in Nat
  <1> DEFINE q == m.queue
  <1>1. q \in Queue /\ log[q] \in Seq(Message) /\ offset[g][q] \in Nat
    BY DEF Message, TypeInv, TypeOK
  <1>2. Reached(g, q)' = offset[g][q]
    BY DEF Reached
  <1>3. Pending(g, m)' = Waiting(log[q], offset[g][q], m)
    BY <1>2 DEF Pending
  <1>4. CASE hand[g] # NoHand /\ hand[g].queue = q
    <2> DEFINE i == hand[g].at
    <2>1. i \in (offset[g][q] + 1)..Len(log[q]) /\ Due(g, q, i) /\ Reached(g, q) = i /\ i \in Nat
      BY <1>1, <1>4 DEF TypeInv, HandOK, Reached
    <2>2. \A j \in (offset[g][q] + 1)..(i - 1) : log[q][j] # m
      BY <1>1, <2>1 DEF Due
    <2>3. Waiting(log[q], offset[g][q], m)
             = Waiting(log[q], i, m) + (IF log[q][i] = m THEN 1 ELSE 0)
      <3>1. PICK s \in Seq(Message), n \in Nat : s = log[q] /\ n = offset[g][q]
        BY <1>1
      <3>2. PICK k : k = i
        OBVIOUS
      <3>3. k \in (n + 1)..Len(s) /\ \A j \in (n + 1)..(k - 1) : s[j] # m
        BY <2>1, <2>2, <3>1, <3>2
      <3>4. Waiting(s, n, m) = Waiting(s, k, m) + (IF s[k] = m THEN 1 ELSE 0)
        BY <3>3, WaitingPass
      <3> QED
        BY <3>1, <3>2, <3>4
    <2>4. Waiting(log[q], i, m) \in Nat
      BY <1>1, WaitingNat
    <2> QED
      BY <1>3, <2>1, <2>3, <2>4 DEF Pending
  <1>5. CASE ~(hand[g] # NoHand /\ hand[g].queue = q)
    <2>1. Reached(g, q) = offset[g][q]
      BY <1>5 DEF Reached
    <2> QED
      BY <1>1, <1>3, <2>1, WaitingNat DEF Pending
  <1> QED
    BY <1>4, <1>5

LEMMA PendingCommitted ==
    ASSUME TypeInv, NEW m \in Message, NEW g \in Group, NEW h \in Group, Commit(h)
    PROVE  Pending(g, m)' = Pending(g, m)
  <1>1. m.queue \in Queue /\ offset[g] \in [Queue -> Nat]
    BY DEF Message, TypeInv, TypeOK
  <1>2. Reached(g, m.queue)' = Reached(g, m.queue)
    <2>1. CASE g = h
      <3>1. hand'[g] = NoHand /\ hand[g] # NoHand
            /\ offset'[g] = [offset[g] EXCEPT ![hand[g].queue] = hand[g].at]
        BY <2>1, CommitCore DEF Commit, TypeInv
      <3> QED
        BY <1>1, <3>1 DEF Reached
    <2>2. CASE g # h
      BY <2>2, CommitCore DEF TypeInv, Reached
    <2> QED
      BY <2>1, <2>2
  <1> QED
    BY <1>2 DEF Pending, Commit

\* What a step appends, for all messages at once: one message or none.
Logged(D) == D \in [Message -> {0, 1}] /\ \A m \in Message : Appends(m, D[m])
One(e)    == [m \in Message |-> IF e = m THEN 1 ELSE 0]
None      == [m \in Message |-> 0]

LEMMA StepLogged ==
    ASSUME TypeInv
    PROVE  /\ \A e \in Message : Publish(e) => Logged(One(e))
           /\ UNCHANGED log => Logged(None)
  BY PublishedOnce, NonePublished DEF Logged, One, None

\* The messages that are counted, and who handles those that are pending.
LEMMA CountedNames ==
    ASSUME NEW t \in Transfer
    PROVE  /\ ReservePayerFundsCmd(t).name \in Handler["participantCmd"].names
           /\ CommitPayeeFundsCmd(t).name \in Handler["participantCmd"].names
           /\ TransferPrepareAcceptedEvt(t).name \in Handler["participantEvt"].names
           /\ TransferFulfilAcceptedEvt(t).name \in Handler["participantEvt"].names
  BY HandlerFacts DEF ReservePayerFundsCmd, CommitPayeeFundsCmd, TransferPrepareAcceptedEvt,
     TransferFulfilAcceptedEvt, Msg, ParticipantCmdHandler, ParticipantEvtHandler

SameHand(g) ==
    /\ offset'[g] = offset[g]
    /\ \/ hand'[g] = hand[g]
       \/ /\ hand[g] # NoHand /\ hand'[g] # NoHand
          /\ hand'[g].queue = hand[g].queue /\ hand'[g].at = hand[g].at

HoldsAdded(D, t) ==
    D[PayerFundsReservedEvt(t)] + D[ReservePayerFundsCmd(t)] + D[TransferPrepareAcceptedEvt(t)]

PaymentsAdded(D, t) ==
    D[PayeeFundsCommittedEvt(t)] + D[CommitPayeeFundsCmd(t)] + D[TransferFulfilAcceptedEvt(t)]

\* A step of others: what they publish is added.
LEMMA SumsStay ==
    ASSUME TypeInv, Grows, NEW D, Logged(D), NEW t \in Transfer,
           SameHand("participantCmd"), SameHand("participantEvt")
    PROVE  /\ HoldsSum(t)' = HoldsSum(t) + HoldsAdded(D, t)
           /\ PaymentsSum(t)' = PaymentsSum(t) + PaymentsAdded(D, t)
  <1>0. {"participantCmd", "participantEvt"} \subseteq Group
    BY HandlerFacts
  <1>1. ASSUME NEW m \in Message, NEW g \in {"participantCmd", "participantEvt"}
        PROVE  /\ Copies(m)' = Copies(m) + D[m] /\ Copies(m) \in Nat
               /\ Pending(g, m)' = Pending(g, m) + D[m] /\ Pending(g, m) \in Nat
               /\ D[m] \in {0, 1}
    BY <1>0, CopiesAfter, PendingStays, PendingType DEF Logged, SameHand
  <1>2. HoldsSum(t)' = HoldsSum(t) + HoldsAdded(D, t)
    BY <1>1, MessageTypes DEF HoldsSum, HoldsAdded
  <1>3. PaymentsSum(t)' = PaymentsSum(t) + PaymentsAdded(D, t)
    BY <1>1, MessageTypes DEF PaymentsSum, PaymentsAdded
  <1> QED
    BY <1>2, <1>3

\* A step of the participants' handlers: what they take is no longer pending.
LEMMA SumsTaken ==
    ASSUME TypeInv, Grows, NEW D, Logged(D), NEW t \in Transfer,
           NEW g \in {"participantCmd", "participantEvt"},
           NEW h \in {"participantCmd", "participantEvt"} \ {g}, SameHand(h),
           NEW q \in Reads(g), NEW i \in DOMAIN log[q], Take(g, q, i),
           hand'[g] # NoHand, hand'[g].queue = q, hand'[g].at = i, offset'[g] = offset[g]
    PROVE  /\ HoldsSum(t)' = HoldsSum(t) + HoldsAdded(D, t)
                 - (IF log[q][i] = (IF g = "participantCmd" THEN ReservePayerFundsCmd(t)
                                    ELSE TransferPrepareAcceptedEvt(t)) THEN 1 ELSE 0)
           /\ PaymentsSum(t)' = PaymentsSum(t) + PaymentsAdded(D, t)
                 - (IF log[q][i] = (IF g = "participantCmd" THEN CommitPayeeFundsCmd(t)
                                    ELSE TransferFulfilAcceptedEvt(t)) THEN 1 ELSE 0)
  <1>0. {"participantCmd", "participantEvt"} \subseteq Group
    BY HandlerFacts
  <1>1. ASSUME NEW m \in Message
        PROVE  /\ Copies(m)' = Copies(m) + D[m] /\ Copies(m) \in Nat
               /\ Pending(h, m)' = Pending(h, m) + D[m]
               /\ Pending(h, m) \in Nat /\ Pending(g, m) \in Nat
               /\ D[m] \in {0, 1}
    BY <1>0, CopiesAfter, PendingStays, PendingType DEF Logged, SameHand
  <1>2. ASSUME NEW m \in Message, m.name \in Handler[g].names
        PROVE  Pending(g, m)' = Pending(g, m) + D[m] - (IF log[q][i] = m THEN 1 ELSE 0)
    <2>1. D[m] \in Int /\ Appends(m, D[m])
      BY DEF Logged
    <2> QED
      BY <1>0, <1>2, <2>1, PendingTaken
  <1>3. CASE g = "participantCmd"
    <2>1. h = "participantEvt"
      BY <1>3
    <2>2. HoldsSum(t)' = HoldsSum(t) + HoldsAdded(D, t)
             - (IF log[q][i] = ReservePayerFundsCmd(t) THEN 1 ELSE 0)
      BY <1>1, <1>2, <1>3, <2>1, MessageTypes, CountedNames DEF HoldsSum, HoldsAdded
    <2>3. PaymentsSum(t)' = PaymentsSum(t) + PaymentsAdded(D, t)
             - (IF log[q][i] = CommitPayeeFundsCmd(t) THEN 1 ELSE 0)
      BY <1>1, <1>2, <1>3, <2>1, MessageTypes, CountedNames DEF PaymentsSum, PaymentsAdded
    <2> QED
      BY <1>3, <2>2, <2>3
  <1>4. CASE g = "participantEvt"
    <2>1. h = "participantCmd"
      BY <1>4
    <2>2. HoldsSum(t)' = HoldsSum(t) + HoldsAdded(D, t)
             - (IF log[q][i] = TransferPrepareAcceptedEvt(t) THEN 1 ELSE 0)
      BY <1>1, <1>2, <1>4, <2>1, MessageTypes, CountedNames DEF HoldsSum, HoldsAdded
    <2>3. PaymentsSum(t)' = PaymentsSum(t) + PaymentsAdded(D, t)
             - (IF log[q][i] = TransferFulfilAcceptedEvt(t) THEN 1 ELSE 0)
      BY <1>1, <1>2, <1>4, <2>1, MessageTypes, CountedNames DEF PaymentsSum, PaymentsAdded
    <2> QED
      BY <1>4, <2>2, <2>3
  <1> QED
    BY <1>3, <1>4

\* When the participants' process stops, each of its handlers repeats one message
\* at most; the offsets that are committed change nothing.
LEMMA SumsDropped ==
    ASSUME TypeInv, NEW t \in Transfer, UNCHANGED <<log, offset>>,
           hand'["participantCmd"] = NoHand, hand'["participantEvt"] = NoHand
    PROVE  /\ HoldsSum(t)' <= HoldsSum(t) + 2 /\ HoldsSum(t)' \in Int
           /\ PaymentsSum(t)' <= PaymentsSum(t) + 2 /\ PaymentsSum(t)' \in Int
  <1>0. {"participantCmd", "participantEvt"} \subseteq Group
    BY HandlerFacts
  <1>1. ASSUME NEW m \in Message
        PROVE  Copies(m)' = Copies(m) /\ Copies(m) \in Nat
    <2>1. Appends(m, 0) /\ Grows
      BY NonePublished, UnchangedGrows
    <2> QED
      BY <2>1, CopiesAfter
  <1>2. ASSUME NEW m \in Message, NEW g \in {"participantCmd", "participantEvt"},
               m.name \in Handler[g].names
        PROVE  Pending(g, m)' <= Pending(g, m) + 1 /\ Pending(g, m)' \in Nat
               /\ Pending(g, m) \in Nat
    BY <1>0, <1>2, PendingDropped, PendingType
  <1>3. HoldsSum(t)' <= HoldsSum(t) + 2 /\ HoldsSum(t)' \in Int
    BY <1>1, <1>2, MessageTypes, CountedNames DEF HoldsSum
  <1>4. PaymentsSum(t)' <= PaymentsSum(t) + 2 /\ PaymentsSum(t)' \in Int
    BY <1>1, <1>2, MessageTypes, CountedNames DEF PaymentsSum
  <1> QED
    BY <1>3, <1>4

LEMMA SumsCommitted ==
    ASSUME TypeInv, NEW t \in Transfer, NEW g \in Group, Commit(g)
    PROVE  HoldsSum(t)' = HoldsSum(t) /\ PaymentsSum(t)' = PaymentsSum(t)
  <1>0. {"participantCmd", "participantEvt"} \subseteq Group /\ UNCHANGED log
    BY HandlerFacts DEF Commit
  <1>1. ASSUME NEW m \in Message, NEW h \in {"participantCmd", "participantEvt"}
        PROVE  Copies(m)' = Copies(m) /\ Pending(h, m)' = Pending(h, m)
    BY <1>0, PendingCommitted DEF Copies
  <1>2. HoldsSum(t)' = HoldsSum(t)
    BY <1>1, MessageTypes DEF HoldsSum
  <1>3. PaymentsSum(t)' = PaymentsSum(t)
    BY <1>1, MessageTypes DEF PaymentsSum
  <1> QED
    BY <1>2, <1>3

LEMMA CopiesNat ==
    ASSUME TypeInv, NEW m \in Message
    PROVE  Copies(m) \in Nat
  <1>1. m.queue \in Queue /\ log[m.queue] \in Seq(Message)
    BY DEF Message, TypeInv, TypeOK
  <1>2. IsFiniteSet(1..Len(log[m.queue]))
    BY <1>1, FS_Interval
  <1>3. {i \in DOMAIN log[m.queue] : log[m.queue][i] = m} \subseteq 1..Len(log[m.queue])
    BY <1>1
  <1> QED
    BY <1>2, <1>3, FS_Subset, FS_CardinalityType DEF Copies

LEMMA SumsType ==
    ASSUME TypeInv, NEW t \in Transfer
    PROVE  /\ HoldsSum(t) \in Nat /\ PaymentsSum(t) \in Nat
           /\ Copies(PayerFundsReservedEvt(t)) <= HoldsSum(t)
           /\ Copies(PayeeFundsCommittedEvt(t)) <= PaymentsSum(t)
  <1>0. {"participantCmd", "participantEvt"} \subseteq Group
    BY HandlerFacts
  <1>1. ASSUME NEW m \in Message PROVE Copies(m) \in Nat
    BY CopiesNat
  <1>2. ASSUME NEW m \in Message, NEW g \in {"participantCmd", "participantEvt"}
        PROVE  Pending(g, m) \in Nat
    BY <1>0, PendingType
  <1> QED
    BY <1>1, <1>2, MessageTypes DEF HoldsSum, PaymentsSum

Counted == {"PayerFundsReservedEvt", "ReservePayerFundsCmd", "TransferPrepareAcceptedEvt",
            "PayeeFundsCommittedEvt", "CommitPayeeFundsCmd", "TransferFulfilAcceptedEvt"}

LEMMA AddedNames ==
    ASSUME NEW t \in Transfer
    PROVE  /\ HoldsAdded(None, t) = 0 /\ PaymentsAdded(None, t) = 0
           /\ \A e \in Message : e.name \notin Counted =>
                 HoldsAdded(One(e), t) = 0 /\ PaymentsAdded(One(e), t) = 0
  <1>1. HoldsAdded(None, t) = 0 /\ PaymentsAdded(None, t) = 0
    BY MessageTypes DEF HoldsAdded, PaymentsAdded, None
  <1>2. /\ {PayerFundsReservedEvt(t), ReservePayerFundsCmd(t), TransferPrepareAcceptedEvt(t),
            PayeeFundsCommittedEvt(t), CommitPayeeFundsCmd(t), TransferFulfilAcceptedEvt(t)}
              \subseteq Message
        /\ PayerFundsReservedEvt(t).name \in Counted
        /\ ReservePayerFundsCmd(t).name \in Counted
        /\ TransferPrepareAcceptedEvt(t).name \in Counted
        /\ PayeeFundsCommittedEvt(t).name \in Counted
        /\ CommitPayeeFundsCmd(t).name \in Counted
        /\ TransferFulfilAcceptedEvt(t).name \in Counted
    BY MessageTypes DEF PayerFundsReservedEvt, ReservePayerFundsCmd, TransferPrepareAcceptedEvt,
       PayeeFundsCommittedEvt, CommitPayeeFundsCmd, TransferFulfilAcceptedEvt, Msg, Counted
  <1>3. ASSUME NEW e \in Message, e.name \notin Counted
        PROVE  HoldsAdded(One(e), t) = 0 /\ PaymentsAdded(One(e), t) = 0
    BY <1>2, <1>3 DEF HoldsAdded, PaymentsAdded, One
  <1> QED
    BY <1>1, <1>3

\* The transfers command handler goes on with what it had in hand.
TaskSame ==
    \A t \in Transfer : \A write \in Status :
        /\ Storing(t, {"send"}, write)' <=> Storing(t, {"send"}, write)
        /\ Storing(t, {"store"}, write)' <=> Storing(t, {"store"}, write)
        /\ Storing(t, {"send", "store"}, write)' <=> Storing(t, {"send", "store"}, write)

LEMMA TaskKept ==
    ASSUME TypeInv, Grows,
           \/ hand'["transferCmd"] = hand["transferCmd"]
           \/ /\ hand["transferCmd"] = NoHand \/ hand["transferCmd"].step = "commit"
              /\ hand'["transferCmd"] = NoHand
    PROVE  TaskSame
  <1>1. CASE hand["transferCmd"] # NoHand /\ hand'["transferCmd"] = hand["transferCmd"]
    <2>1. InHand("transferCmd")' = InHand("transferCmd")
      BY <1>1, HandlerFacts, SameInHand
    <2> QED
      BY <1>1, <2>1 DEF TaskSame, Storing
  <1>2. CASE /\ hand["transferCmd"] = NoHand \/ hand["transferCmd"].step = "commit"
             /\ hand'["transferCmd"] = NoHand
    BY <1>2 DEF TaskSame, Storing
  <1> QED
    BY <1>1, <1>2

LEMMA OrderKept ==
    ASSUME StatusInOrder, TaskSame, UNCHANGED <<seen, status>>
    PROVE  /\ StatusInOrder'
           /\ \A t \in Transfer : MayPrepare(t)' = MayPrepare(t) /\ MayFulfil(t)' = MayFulfil(t)
  <1>1. {"none", "RECEIVED_PREPARE", "RESERVED", "RECEIVED_FULFIL", "COMMITTED"} = Status
    BY DEF Status
  <1>2. StatusInOrder'
    BY <1>1 DEF StatusInOrder, TaskSame
  <1>3. \A t \in Transfer : MayPrepare(t)' = MayPrepare(t) /\ MayFulfil(t)' = MayFulfil(t)
    BY <1>1 DEF TaskSame, MayPrepare, MayFulfil
  <1> QED
    BY <1>2, <1>3

LEMMA InitMoveInv == Init => MoveInv
  <1> SUFFICES ASSUME Init PROVE MoveInv
    OBVIOUS
  <1>1. CauseInv /\ TypeInv
    BY InitCauseInv DEF CauseInv
  <1>2. StatusInOrder
    BY HandlerFacts DEF Init, StatusInOrder, Storing
  <1>3. ASSUME NEW t \in Transfer
        PROVE  HoldsSum(t) = 0 /\ PaymentsSum(t) = 0 /\ MayPrepare(t) = 1 /\ MayFulfil(t) = 1
    <2>1. ASSUME NEW m \in Message
          PROVE  Copies(m) = 0 /\ \A g \in Group : Pending(g, m) = 0
      <3>1. m.queue \in Queue /\ log[m.queue] = <<>>
        BY DEF Message, Init
      <3>2. /\ \A n : {i \in DOMAIN log[m.queue] : i > n /\ log[m.queue][i] = m} = {}
            /\ {i \in DOMAIN log[m.queue] : log[m.queue][i] = m} = {}
        BY <3>1
      <3> QED
        BY <3>2, FS_EmptySet DEF Copies, Pending, Waiting
    <2>2. HoldsSum(t) = 0 /\ PaymentsSum(t) = 0
      BY <2>1, MessageTypes, HandlerFacts DEF HoldsSum, PaymentsSum
    <2> QED
      BY <2>2, HandlerFacts DEF Init, MayPrepare, MayFulfil, Storing
  <1> QED
    BY <1>1, <1>2, <1>3 DEF MoveInv, Bounded, Init

LEMMA MoveStep == MoveInv /\ [Next]_vars => MoveInv'
  <1> SUFFICES ASSUME MoveInv, [Next]_vars PROVE MoveInv'
    OBVIOUS
  <1> DEFINE Inv == StatusInOrder /\ Bounded
  <1>0. /\ CauseInv /\ TypeInv /\ MessagesCaused /\ ReservedCaused /\ StatusInOrder /\ Bounded
        /\ CauseInv' /\ TypeInv'
    BY CauseStep DEF MoveInv, CauseInv
  <1>g. {"transferCmd", "participantCmd", "participantEvt"} \subseteq Group
    BY HandlerFacts
  <1>n. faults.count \in Nat /\ faults'.count \in Nat
    BY <1>0 DEF TypeInv, TypeOK
  <1>m. ASSUME NEW t \in Transfer
        PROVE  /\ MayPrepare(t) \in {0, 1} /\ MayPrepare(t)' \in {0, 1}
               /\ MayFulfil(t) \in {0, 1} /\ MayFulfil(t)' \in {0, 1}
               /\ HoldsSum(t) \in Nat /\ PaymentsSum(t) \in Nat
    BY <1>0, SumsType DEF MayPrepare, MayFulfil
  \* What is published that is not counted changes nothing but the failures.
  <1>a. ASSUME Grows, SameHand("participantCmd"), SameHand("participantEvt"),
               UNCHANGED <<seen, status>>, TaskSame, faults'.count >= faults.count,
               UNCHANGED log \/ \E e \in Message : Publish(e) /\ e.name \notin Counted
        PROVE  Inv'
    <2>1. /\ StatusInOrder'
          /\ \A t \in Transfer : MayPrepare(t)' = MayPrepare(t) /\ MayFulfil(t)' = MayFulfil(t)
      BY <1>0, <1>a, OrderKept
    <2>2. ASSUME NEW t \in Transfer
          PROVE  HoldsSum(t)' = HoldsSum(t) /\ PaymentsSum(t)' = PaymentsSum(t)
      <3>1. PICK D : Logged(D) /\ HoldsAdded(D, t) = 0 /\ PaymentsAdded(D, t) = 0
        BY <1>0, <1>a, StepLogged, AddedNames
      <3> QED
        BY <1>0, <1>a, <1>m, <3>1, SumsStay
    <2>3. Bounded'
      BY <1>0, <1>a, <1>m, <1>n, <2>1, <2>2 DEF Bounded
    <2> QED
      BY <2>1, <2>3
  <1>1. ASSUME NEW t \in Transfer, Fsp(t) PROVE Inv'
    <2>1. UNCHANGED <<offset, hand, seen, status>>
      BY <1>1 DEF Fsp, CreateTransfer, CreateTransferLost, Requested, FulfilTransfer,
         FulfilTransferError, Answered, GetTransferById, cmdVars
    <2>2. UNCHANGED log \/ \E e \in Message : Publish(e) /\ e.name \notin Counted
      <3>1. TransferPrepareRequestedEvt(t).name \notin Counted
        BY DEF TransferPrepareRequestedEvt, Msg, Counted
      <3>2. \A how \in Answers : TransferFulfilRequestedEvt(t, how).name \notin Counted
        BY DEF TransferFulfilRequestedEvt, Msg, Counted
      <3> QED
        BY <1>1, <3>1, <3>2, MessageTypes DEF Fsp, CreateTransfer, CreateTransferLost,
           FulfilTransfer, FulfilTransferError, GetTransferById
    <2>3. Grows
      BY <1>0, <2>2, PublishGrows, UnchangedGrows
    <2>4. faults'.count >= faults.count
      BY <1>1, <1>n, <1>0, FailureType DEF Fsp, CreateTransfer, CreateTransferLost, FulfilTransfer,
         FulfilTransferError, Answered, GetTransferById, TypeInv, TypeOK, FaultsOK
    <2> QED
      BY <1>0, <1>a, <2>1, <2>2, <2>3, <2>4, TaskKept DEF SameHand
  <1>2. ASSUME NEW q \in Reads("transferEvt"), NEW i \in DOMAIN log[q], HandleTransferEvt(q, i)
        PROVE  Inv'
    <2>1. /\ log[q][i] \in Message /\ log[q][i].name \in TransferEvtHandler.names
      BY <1>0, <1>2, TakeFacts, HandlerFacts DEF HandleTransferEvt
    <2>2. TransferCmdFor(log[q][i]) \in Message /\ TransferCmdFor(log[q][i]).name \notin Counted
      BY <2>1, TransferCmdForType
         DEF TransferCmdFor, TransferEvtHandler, PrepareTransferCmd, FulfilTransferCmd,
             AckPayerFundsReservedCmd, AckPayeeFundsCommittedCmd, Msg, Counted
    <2>3. /\ UNCHANGED <<offset, seen, status, faults>>
          /\ Publish(TransferCmdFor(log[q][i]))
          /\ \A g \in Group \ {"transferEvt"} : hand'[g] = hand[g]
      BY <1>0, <1>2 DEF HandleTransferEvt, RelayStep, GoOn, cmdVars, TypeInv
    <2>4. Grows
      BY <1>0, <2>2, <2>3, PublishGrows
    <2> QED
      BY <1>0, <1>a, <1>g, <1>n, <2>2, <2>3, <2>4, TaskKept DEF SameHand
  <1>3. ASSUME NEW q \in Reads("simulatorEvt"), NEW i \in DOMAIN log[q], HandleSimulatorEvt(q, i)
        PROVE  Inv'
    <2>1. log[q][i].t \in Transfer
      BY <1>0, <1>3, TakeFacts, HandlerFacts DEF HandleSimulatorEvt
    <2>2. \A t \in Transfer : \A how \in Answers :
             /\ TransferFulfilRequestedEvt(t, how) \in Message
             /\ TransferFulfilRequestedEvt(t, how).name \notin Counted
      BY MessageTypes DEF TransferFulfilRequestedEvt, Msg, Counted
    <2>3. /\ UNCHANGED <<offset, seen, status, faults>>
          /\ UNCHANGED log \/ \E e \in Message : Publish(e) /\ e.name \notin Counted
          /\ \A g \in Group \ {"simulatorEvt"} : hand'[g] = hand[g]
      BY <1>0, <1>3, <2>1, <2>2 DEF HandleSimulatorEvt, GoOn, cmdVars, TypeInv, Answers
    <2>4. Grows
      BY <1>0, <2>3, PublishGrows, UnchangedGrows
    <2> QED
      BY <1>0, <1>a, <1>g, <1>n, <2>3, <2>4, TaskKept DEF SameHand
  <1>4. ASSUME \/ \E q \in Reads("notification") : \E i \in DOMAIN log[q] : NotifyFirst(q, i)
               \/ NotifyPayee
               \/ NotifyFails
        PROVE  Inv'
    <2>1. /\ UNCHANGED <<log, offset, seen, status>>
          /\ \A g \in Group \ {"notification"} : hand'[g] = hand[g]
      BY <1>0, <1>4 DEF NotifyFirst, NotifyPayee, NotifyFails, NotifyStep, GoOn, Proceed, cmdVars,
         TypeInv
    <2>2. faults'.count >= faults.count
      BY <1>0, <1>4, <1>n, FailureType
         DEF NotifyFirst, NotifyPayee, NotifyFails, TypeInv, TypeOK, FaultsOK
    <2> QED
      BY <1>0, <1>a, <1>g, <2>1, <2>2, TaskKept, UnchangedGrows, HandlerFacts DEF SameHand
  <1>5. ASSUME StoreParticipant PROVE Inv'
    <2>1. /\ UNCHANGED <<log, offset, seen, status, faults>>
          /\ \A g \in Group \ {"participantCmd"} : hand'[g] = hand[g]
          /\ SameHand("participantCmd")
      BY <1>0, <1>5, <1>g, ProceedHand DEF StoreParticipant, SameHand, Step
    <2> QED
      BY <1>0, <1>a, <1>g, <1>n, <2>1, TaskKept, UnchangedGrows DEF SameHand
  \* The participants' handlers pass on, or execute, what they took.
  <1>b. ASSUME NEW g \in {"participantCmd", "participantEvt"}, NEW q \in Reads(g),
               NEW i \in DOMAIN log[q], Take(g, q, i), Grows, UNCHANGED <<offset, seen, status>>,
               \A h \in Group \ {g} : hand'[h] = hand[h],
               hand'[g] # NoHand, hand'[g].queue = q, hand'[g].at = i,
               faults'.count >= faults.count,
               NEW D, Logged(D),
               \A t \in Transfer :
                  /\ HoldsAdded(D, t) <=
                        (IF log[q][i] = (IF g = "participantCmd" THEN ReservePayerFundsCmd(t)
                                         ELSE TransferPrepareAcceptedEvt(t)) THEN 1 ELSE 0)
                  /\ PaymentsAdded(D, t) <=
                        (IF log[q][i] = (IF g = "participantCmd" THEN CommitPayeeFundsCmd(t)
                                         ELSE TransferFulfilAcceptedEvt(t)) THEN 1 ELSE 0)
        PROVE  Inv'
    <2>1. PICK h \in {"participantCmd", "participantEvt"} \ {g} : SameHand(h)
      BY <1>b, <1>g DEF SameHand
    <2>2. TaskSame
      BY <1>0, <1>b, <1>g, TaskKept
    <2>3. /\ StatusInOrder'
          /\ \A t \in Transfer : MayPrepare(t)' = MayPrepare(t) /\ MayFulfil(t)' = MayFulfil(t)
      BY <1>0, <1>b, <2>2, OrderKept
    <2>4. ASSUME NEW t \in Transfer
          PROVE  /\ HoldsSum(t)' <= HoldsSum(t) /\ HoldsSum(t)' \in Int
                 /\ PaymentsSum(t)' <= PaymentsSum(t) /\ PaymentsSum(t)' \in Int
      <3>0. HoldsAdded(D, t) \in Int /\ PaymentsAdded(D, t) \in Int
        BY <1>b, MessageTypes DEF Logged, HoldsAdded, PaymentsAdded
      <3>1. /\ HoldsSum(t)' = HoldsSum(t) + HoldsAdded(D, t)
                 - (IF log[q][i] = (IF g = "participantCmd" THEN ReservePayerFundsCmd(t)
                                    ELSE TransferPrepareAcceptedEvt(t)) THEN 1 ELSE 0)
            /\ PaymentsSum(t)' = PaymentsSum(t) + PaymentsAdded(D, t)
                 - (IF log[q][i] = (IF g = "participantCmd" THEN CommitPayeeFundsCmd(t)
                                    ELSE TransferFulfilAcceptedEvt(t)) THEN 1 ELSE 0)
        BY <1>0, <1>b, <2>1, SumsTaken
      <3> QED
        BY <1>b, <1>m, <3>0, <3>1
    <2>5. Bounded'
      BY <1>0, <1>b, <1>m, <1>n, <2>3, <2>4 DEF Bounded
    <2> QED
      BY <2>3, <2>5
  <1>6. ASSUME NEW q \in Reads("participantEvt"), NEW i \in DOMAIN log[q],
               HandleParticipantEvt(q, i)
        PROVE  Inv'
    <2> DEFINE m == log[q][i]
               e == ParticipantCmdFor(m)
    <2>1. Take("participantEvt", q, i) /\ GoOn("participantEvt", q, i, "commit", "none")
          /\ UNCHANGED <<setting, offset, seen, status, faults>>
      BY <1>6 DEF HandleParticipantEvt, RelayStep, cmdVars
    <2>2. /\ m \in Message /\ m.t \in Transfer /\ m.name \in ParticipantEvtHandler.names
          /\ Caused(m) /\ e \in Message
      BY <1>0, <1>g, <2>1, TakeFacts, HandlerFacts, ParticipantCmdForType DEF MessagesCaused
    <2>3. Grows
      BY <1>0, <1>6, <2>2, PublishGrows, UnchangedGrows DEF HandleParticipantEvt
    <2>4. /\ \A h \in Group \ {"participantEvt"} : hand'[h] = hand[h]
          /\ hand'["participantEvt"] # NoHand
          /\ hand'["participantEvt"].queue = q /\ hand'["participantEvt"].at = i
      BY <1>0, <1>g, <2>1, <2>3, TakeCore DEF Step, WriteOf, Status, TypeInv
    <2>5. ASSUME NEW t \in Transfer
          PROVE  /\ HoldsAdded(One(e), t) <= (IF m = TransferPrepareAcceptedEvt(t) THEN 1 ELSE 0)
                 /\ PaymentsAdded(One(e), t) <= (IF m = TransferFulfilAcceptedEvt(t) THEN 1 ELSE 0)
      <3> HIDE DEF m
      <3>1. CASE m.name = "TransferPrepareAcceptedEvt"
        <4>1. e = ReservePayerFundsCmd(m.t) /\ m = TransferPrepareAcceptedEvt(m.t)
          BY <2>2, <3>1 DEF ParticipantCmdFor, Caused
        <4>2. /\ e = ReservePayerFundsCmd(t) => m.t = t
              /\ e # PayerFundsReservedEvt(t) /\ e # TransferPrepareAcceptedEvt(t)
              /\ e # PayeeFundsCommittedEvt(t) /\ e # TransferFulfilAcceptedEvt(t)
              /\ e # CommitPayeeFundsCmd(t)
          BY <4>1 DEF ReservePayerFundsCmd, PayerFundsReservedEvt, TransferPrepareAcceptedEvt,
             PayeeFundsCommittedEvt, TransferFulfilAcceptedEvt, CommitPayeeFundsCmd, Msg
        <4> HIDE DEF e
        <4> QED
          BY <4>1, <4>2, MessageTypes DEF HoldsAdded, PaymentsAdded, One
      <3>2. CASE m.name = "TransferFulfilAcceptedEvt"
        <4>1. e = CommitPayeeFundsCmd(m.t) /\ m = TransferFulfilAcceptedEvt(m.t)
          BY <2>2, <3>2 DEF ParticipantCmdFor, Caused
        <4>2. /\ e = CommitPayeeFundsCmd(t) => m.t = t
              /\ e # PayerFundsReservedEvt(t) /\ e # TransferPrepareAcceptedEvt(t)
              /\ e # PayeeFundsCommittedEvt(t) /\ e # TransferFulfilAcceptedEvt(t)
              /\ e # ReservePayerFundsCmd(t)
          BY <4>1 DEF ReservePayerFundsCmd, PayerFundsReservedEvt, TransferPrepareAcceptedEvt,
             PayeeFundsCommittedEvt, TransferFulfilAcceptedEvt, CommitPayeeFundsCmd, Msg
        <4> HIDE DEF e
        <4> QED
          BY <4>1, <4>2, MessageTypes DEF HoldsAdded, PaymentsAdded, One
      <3> QED
        BY <2>2, <3>1, <3>2 DEF ParticipantEvtHandler
    <2>6. \E D : /\ Logged(D)
                 /\ \A t \in Transfer :
                       /\ HoldsAdded(D, t) <= (IF m = TransferPrepareAcceptedEvt(t) THEN 1 ELSE 0)
                       /\ PaymentsAdded(D, t) <= (IF m = TransferFulfilAcceptedEvt(t) THEN 1 ELSE 0)
      <3>1. CASE Publish(e)
        BY <1>0, <2>2, <2>5, <3>1, StepLogged
      <3>2. CASE UNCHANGED log
        BY <1>0, <3>2, StepLogged, AddedNames
      <3> QED
        BY <1>6, <3>1, <3>2 DEF HandleParticipantEvt
    <2> QED
      <3> HIDE DEF e
      <3> QED
        BY <1>b, <1>n, <2>1, <2>3, <2>4, <2>6
  <1>7. ASSUME NEW g \in Group, NEW q \in Reads(g), NEW i \in DOMAIN log[q], RelayFails(g, q, i)
        PROVE  Inv'
    <2>1. /\ UNCHANGED <<setting, log, offset, seen, status>> /\ Take(g, q, i)
          /\ GoOn(g, q, i, "commit", "none")
          /\ g \in {"transferEvt", "participantEvt", "simulatorEvt"}
      BY <1>7 DEF RelayFails, RelayStep, cmdVars
    <2>2. Grows /\ faults'.count >= faults.count
      BY <1>0, <1>7, <1>n, <2>1, UnchangedGrows, FailureType DEF RelayFails, TypeInv, TypeOK, FaultsOK
    <2>3. /\ \A h \in Group \ {g} : hand'[h] = hand[h]
          /\ hand'[g] # NoHand /\ hand'[g].queue = q /\ hand'[g].at = i
      BY <1>0, <2>1, <2>2, TakeCore DEF Step, WriteOf, Status, TypeInv
    <2>4. CASE g = "participantEvt"
      <3>1. Logged(None)
        BY <1>0, <2>1, StepLogged
      <3> QED
        BY <1>b, <2>1, <2>2, <2>3, <2>4, <3>1, AddedNames
    <2>5. CASE g # "participantEvt"
      BY <1>0, <1>a, <1>g, <2>1, <2>2, <2>3, <2>5, TaskKept DEF SameHand
    <2> QED
      BY <2>4, <2>5
  <1>8. ASSUME NEW q \in Reads("participantCmd"), NEW i \in DOMAIN log[q],
               RunParticipantCmd(q, i)
        PROVE  Inv'
    <2> DEFINE m == log[q][i]
               u == m.t
    <2>1. Take("participantCmd", q, i)
      BY <1>8 DEF RunParticipantCmd, ReservePayerFunds, CommitPayeeFunds
    <2>2. m \in Message /\ u \in Transfer /\ Caused(m)
      BY <1>0, <1>g, <2>1, TakeFacts DEF MessagesCaused
    <2>3. \E e \in Message, step \in Step, pos \in Int :
             /\ Move(q, i, e, step, pos)
             /\ \/ m = ReservePayerFundsCmd(u)
                   /\ e \in {PayerFundsReservedEvt(u), NetCapLimitExceededEvt(u),
                             InvalidParticipantEvt(Payee[u], u)}
                \/ m = CommitPayeeFundsCmd(u) /\ e = PayeeFundsCommittedEvt(u)
      <3>1. position[Payer[u]] + Amount[u] \in Int /\ position[Payee[u]] - Amount[u] \in Int
        <4>1. position \in [Participant -> Int]
          BY <1>0 DEF TypeInv, TypeOK
        <4> HIDE DEF u
        <4> QED
          BY <2>2, <4>1, ConstantTypes
      <3>2. CASE ReservePayerFunds(q, i)
        <4>1. m = ReservePayerFundsCmd(u)
          BY <2>2, <3>2 DEF ReservePayerFunds, Caused
        <4>2. /\ PayerFundsReservedEvt(u) \in Message
              /\ NetCapLimitExceededEvt(u) \in Message
              /\ InvalidParticipantEvt(Payee[u], u) \in Message
          <5> HIDE DEF u
          <5> QED
            BY <2>2, MessageTypes, ConstantTypes
        <4>3. \/ Move(q, i, InvalidParticipantEvt(Payee[u], u), "commit", 0)
              \/ Move(q, i, PayerFundsReservedEvt(u), "store", position[Payer[u]] + Amount[u])
              \/ Move(q, i, NetCapLimitExceededEvt(u), "commit", 0)
          BY <3>2 DEF ReservePayerFunds
        <4> HIDE DEF m, u
        <4> QED
          BY <3>1, <4>1, <4>2, <4>3 DEF Step
      <3>3. CASE CommitPayeeFunds(q, i)
        <4>1. m = CommitPayeeFundsCmd(u)
          BY <2>2, <3>3 DEF CommitPayeeFunds, Caused
        <4> QED
          BY <2>2, <3>1, <3>3, <4>1, MessageTypes DEF CommitPayeeFunds, Step
      <3> QED
        BY <1>8, <3>2, <3>3 DEF RunParticipantCmd
    <2>4. PICK e \in Message, step \in Step, pos \in Int :
             /\ Move(q, i, e, step, pos)
             /\ \/ m = ReservePayerFundsCmd(u)
                   /\ e \in {PayerFundsReservedEvt(u), NetCapLimitExceededEvt(u),
                             InvalidParticipantEvt(Payee[u], u)}
                \/ m = CommitPayeeFundsCmd(u) /\ e = PayeeFundsCommittedEvt(u)
      BY <2>3
    <2>5. Grows /\ Logged(One(e)) /\ UNCHANGED <<setting, offset, seen, status, faults>>
      BY <1>0, <2>4, PublishGrows, StepLogged DEF Move, cmdVars
    <2>6. /\ \A h \in Group \ {"participantCmd"} : hand'[h] = hand[h]
          /\ hand'["participantCmd"] # NoHand
          /\ hand'["participantCmd"].queue = q /\ hand'["participantCmd"].at = i
      BY <1>0, <1>g, <2>1, <2>4, <2>5, TakeCore DEF Move, WriteOf, TypeInv
    <2>7. ASSUME NEW t \in Transfer
          PROVE  /\ HoldsAdded(One(e), t) <= (IF m = ReservePayerFundsCmd(t) THEN 1 ELSE 0)
                 /\ PaymentsAdded(One(e), t) <= (IF m = CommitPayeeFundsCmd(t) THEN 1 ELSE 0)
      <3>1. /\ e # ReservePayerFundsCmd(t) /\ e # TransferPrepareAcceptedEvt(t)
            /\ e # CommitPayeeFundsCmd(t) /\ e # TransferFulfilAcceptedEvt(t)
            /\ e = PayerFundsReservedEvt(t) => m = ReservePayerFundsCmd(t)
            /\ e = PayeeFundsCommittedEvt(t) => m = CommitPayeeFundsCmd(t)
        <4> HIDE DEF m, u
        <4> QED
          BY <2>4 DEF ReservePayerFundsCmd, PayerFundsReservedEvt, TransferPrepareAcceptedEvt,
             PayeeFundsCommittedEvt, TransferFulfilAcceptedEvt, CommitPayeeFundsCmd,
             NetCapLimitExceededEvt, InvalidParticipantEvt, Msg
      <3> HIDE DEF m
      <3> QED
        BY <3>1, MessageTypes DEF HoldsAdded, PaymentsAdded, One
    <2> QED
      BY <1>b, <1>n, <2>1, <2>5, <2>6, <2>7
  \* The transfers command handler takes a command.
  <1>9. ASSUME NEW q \in Reads("transferCmd"), NEW i \in DOMAIN log[q], RunTransferCmd(q, i)
        PROVE  Inv'
    <2> DEFINE m == log[q][i]
    <2>1. Take("transferCmd", q, i) /\ UNCHANGED <<setting, offset, status, faults>>
      BY <1>9 DEF RunTransferCmd, PrepareTransfer, RefuseTransferCmd,
         AckPayerFundsReserved, Fulfil, AckPayeeFundsCommitted, TakeAdvance, Rule
    <2>2. /\ m \in Message /\ m.t \in Transfer /\ hand["transferCmd"] = NoHand
      BY <1>0, <1>g, <2>1, TakeFacts
    <2>3. PICK u \in Transfer : u = m.t
      BY <2>2
    \* What it stores and publishes, and which status must come before.
    <2>4. \E step \in Step, write \in Status :
             /\ GoOn("transferCmd", q, i, step, write)
             /\ seen' = IF step = "send" THEN seen \union {u} ELSE seen
             /\ step = "send" => write = "RECEIVED_PREPARE" /\ u \notin seen
             /\ step = "store" => /\ write = "RESERVED" => status[u] = "RECEIVED_PREPARE"
                                  /\ write = "RECEIVED_FULFIL" => status[u] = "RESERVED"
                                  /\ write = "COMMITTED" => status[u] = "RECEIVED_FULFIL"
                                  /\ write \notin {"none", "RECEIVED_PREPARE"}
             /\ \/ UNCHANGED log
                \/ \E e \in Message : Publish(e) /\ e.name \notin Counted
                \/ /\ step = "store" /\ write = "RECEIVED_FULFIL"
                   /\ Publish(TransferFulfilAcceptedEvt(u))
      <3> HIDE DEF m
      <3>0. /\ \A t \in Transfer : /\ DuplicateTransferDetectedEvt(t).name \notin Counted
                                   /\ TransferNotFoundEvt(t).name \notin Counted
                                   /\ InvalidTransferEvt(t).name \notin Counted
                                   /\ TransferPreparedEvt(t).name \notin Counted
                                   /\ TransferFulfilledEvt(t).name \notin Counted
            /\ {"send", "store", "commit"} = Step
            /\ {"none", "RECEIVED_PREPARE", "RESERVED", "RECEIVED_FULFIL", "COMMITTED"} = Status
        BY DEF DuplicateTransferDetectedEvt, TransferNotFoundEvt, InvalidTransferEvt,
           TransferPreparedEvt, TransferFulfilledEvt, Msg, Counted, Step, Status
      <3>1. CASE PrepareTransfer(q, i)
        BY <2>3, <3>0, <3>1, MessageTypes DEF PrepareTransfer, m
      <3>2. CASE RefuseTransferCmd(q, i)
        BY <2>3, <3>0, <3>2, MessageTypes DEF RefuseTransferCmd, Rule, m
      <3>3. CASE AckPayerFundsReserved(q, i)
        BY <2>3, <3>0, <3>3, MessageTypes DEF AckPayerFundsReserved, Rule, Loaded, m
      <3>4. CASE Fulfil(q, i)
        BY <2>3, <3>0, <3>4, MessageTypes DEF Fulfil, Rule, Loaded, m
      <3>5. CASE AckPayeeFundsCommitted(q, i)
        BY <2>3, <3>0, <3>5, MessageTypes DEF AckPayeeFundsCommitted, Rule, Loaded, m
      <3> QED
        BY <1>9, <3>1, <3>2, <3>3, <3>4, <3>5 DEF RunTransferCmd
    <2>5. PICK step \in Step, write \in Status :
             /\ GoOn("transferCmd", q, i, step, write)
             /\ seen' = IF step = "send" THEN seen \union {u} ELSE seen
             /\ step = "send" => write = "RECEIVED_PREPARE" /\ u \notin seen
             /\ step = "store" => /\ write = "RESERVED" => status[u] = "RECEIVED_PREPARE"
                                  /\ write = "RECEIVED_FULFIL" => status[u] = "RESERVED"
                                  /\ write = "COMMITTED" => status[u] = "RECEIVED_FULFIL"
                                  /\ write \notin {"none", "RECEIVED_PREPARE"}
             /\ \/ UNCHANGED log
                \/ \E e \in Message : Publish(e) /\ e.name \notin Counted
                \/ /\ step = "store" /\ write = "RECEIVED_FULFIL"
                   /\ Publish(TransferFulfilAcceptedEvt(u))
      BY <2>4
    <2>6. Grows
      BY <1>0, <2>5, MessageTypes, PublishGrows, UnchangedGrows
    <2>7. /\ \A h \in Group \ {"transferCmd"} : hand'[h] = hand[h]
          /\ hand'["transferCmd"] = [queue |-> q, at |-> i, step |-> step, write |-> write]
          /\ hand'["transferCmd"] # NoHand
      BY <1>0, <1>g, <2>1, <2>5, <2>6, TakeCore DEF WriteOf, TypeInv
    <2>8. InHand("transferCmd")' = m
      BY <1>0, <1>g, <2>6, <2>7, TakenInHand
    <2>9. \A t \in Transfer : \A steps, w :
             /\ ~Storing(t, steps, w)
             /\ Storing(t, steps, w)' <=> step \in steps /\ w = write /\ t = u
      <3>1. InHand("transferCmd")'.t = u
        BY <2>3, <2>8
      <3> QED
        BY <2>2, <2>7, <3>1 DEF Storing
    <2>10. StatusInOrder'
      <3>1. status' = status /\ \A t \in Transfer : t \notin seen' => t \notin seen
        BY <2>1, <2>5
      <3>2. u \notin seen => status[u] = "none"
        BY <1>0 DEF StatusInOrder
      <3> QED
        BY <1>0, <2>5, <2>9, <3>1, <3>2 DEF StatusInOrder
    <2>11. ASSUME NEW t \in Transfer
           PROVE  /\ MayPrepare(t)' = MayPrepare(t)
                  /\ MayFulfil(t)' = MayFulfil(t) -
                        (IF t = u /\ step = "store" /\ write = "RECEIVED_FULFIL" THEN 1 ELSE 0)
      <3>1. MayPrepare(t)' = MayPrepare(t)
        BY <2>5, <2>9 DEF MayPrepare
      <3>2. MayFulfil(t)' = MayFulfil(t) -
               (IF t = u /\ step = "store" /\ write = "RECEIVED_FULFIL" THEN 1 ELSE 0)
        BY <2>1, <2>5, <2>9 DEF MayFulfil
      <3> QED
        BY <3>1, <3>2
    <2>12. ASSUME NEW t \in Transfer
           PROVE  /\ HoldsSum(t)' = HoldsSum(t)
                  /\ PaymentsSum(t)' <= PaymentsSum(t) +
                        (IF t = u /\ step = "store" /\ write = "RECEIVED_FULFIL" THEN 1 ELSE 0)
                  /\ PaymentsSum(t)' \in Int
      <3>1. \E D : /\ Logged(D)
                   /\ HoldsAdded(D, t) = 0
                   /\ PaymentsAdded(D, t) \in Int
                   /\ PaymentsAdded(D, t) <=
                         (IF t = u /\ step = "store" /\ write = "RECEIVED_FULFIL" THEN 1 ELSE 0)
        <4>1. CASE UNCHANGED log \/ \E e \in Message : Publish(e) /\ e.name \notin Counted
          BY <1>0, <4>1, StepLogged, AddedNames
        <4>2. CASE /\ step = "store" /\ write = "RECEIVED_FULFIL"
                   /\ Publish(TransferFulfilAcceptedEvt(u))
          <5> DEFINE e == TransferFulfilAcceptedEvt(u)
          <5>1. /\ e # ReservePayerFundsCmd(t) /\ e # TransferPrepareAcceptedEvt(t)
                /\ e # PayerFundsReservedEvt(t) /\ e # CommitPayeeFundsCmd(t)
                /\ e # PayeeFundsCommittedEvt(t)
                /\ e = TransferFulfilAcceptedEvt(t) => t = u
            BY DEF ReservePayerFundsCmd, PayerFundsReservedEvt, TransferPrepareAcceptedEvt,
               PayeeFundsCommittedEvt, TransferFulfilAcceptedEvt, CommitPayeeFundsCmd, Msg
          <5>2. e \in Message /\ Publish(e)
            BY <4>2, MessageTypes
          <5> HIDE DEF e
          <5>3. /\ HoldsAdded(One(e), t) = 0
                /\ PaymentsAdded(One(e), t) = (IF e = TransferFulfilAcceptedEvt(t) THEN 1 ELSE 0)
            BY <5>1, MessageTypes DEF HoldsAdded, PaymentsAdded, One
          <5> QED
            BY <1>0, <4>2, <5>1, <5>2, <5>3, StepLogged
        <4> QED
          BY <2>5, <4>1, <4>2
      <3>2. SameHand("participantCmd") /\ SameHand("participantEvt")
        BY <1>g, <2>1, <2>7 DEF SameHand
      <3> QED
        BY <1>0, <1>m, <2>6, <3>1, <3>2, SumsStay
    <2>13. Bounded'
      <3> HIDE DEF m
      <3> QED
        BY <1>0, <1>m, <1>n, <2>1, <2>11, <2>12 DEF Bounded
    <2> QED
      BY <2>10, <2>13
  <1>10. ASSUME AcceptTransfer PROVE Inv'
    <2> DEFINE e == TransferPrepareAcceptedEvt(InHand("transferCmd").t)
    <2>1. /\ UNCHANGED <<setting, offset, seen, status, faults>>
          /\ hand["transferCmd"] # NoHand /\ hand["transferCmd"].step = "send"
          /\ Publish(e) /\ Proceed("transferCmd", "store")
      BY <1>10 DEF AcceptTransfer, cmdVars
    <2>2. PICK u \in Transfer : u = InHand("transferCmd").t
      BY <1>0, <1>g, <2>1, HandFacts
    <2>3. Grows
      BY <1>0, <2>1, <2>2, MessageTypes, PublishGrows
    <2>4. /\ \A h \in Group \ {"transferCmd"} : hand'[h] = hand[h]
          /\ hand'["transferCmd"] # NoHand /\ hand'["transferCmd"].step = "store"
          /\ hand["transferCmd"].write = "RECEIVED_PREPARE"
          /\ hand'["transferCmd"].write = "RECEIVED_PREPARE"
          /\ InHand("transferCmd")' = InHand("transferCmd")
      BY <1>0, <1>g, <2>1, <2>3, ProceedHand, SameInHand DEF Step, ReservedCaused
    <2>5. \A t \in Transfer : \A steps, w :
             /\ Storing(t, steps, w) <=> "send" \in steps /\ w = "RECEIVED_PREPARE" /\ t = u
             /\ Storing(t, steps, w)' <=> "store" \in steps /\ w = "RECEIVED_PREPARE" /\ t = u
      BY <2>1, <2>2, <2>4 DEF Storing
    <2>6. u \in seen /\ status[u] = "none"
      BY <1>0, <2>5 DEF StatusInOrder
    <2>7. StatusInOrder'
      BY <1>0, <2>1, <2>5, <2>6 DEF StatusInOrder
    <2>8. ASSUME NEW t \in Transfer
          PROVE  /\ MayPrepare(t)' = MayPrepare(t) - (IF t = u THEN 1 ELSE 0)
                 /\ MayFulfil(t)' = MayFulfil(t)
      <3>1. MayPrepare(t)' = MayPrepare(t) - (IF t = u THEN 1 ELSE 0)
        BY <2>1, <2>5, <2>6 DEF MayPrepare
      <3>2. MayFulfil(t)' = MayFulfil(t)
        BY <2>1, <2>5 DEF MayFulfil
      <3> QED
        BY <3>1, <3>2
    <2>9. ASSUME NEW t \in Transfer
          PROVE  /\ HoldsSum(t)' = HoldsSum(t) + (IF t = u THEN 1 ELSE 0)
                 /\ PaymentsSum(t)' = PaymentsSum(t)
      <3>1. /\ e # ReservePayerFundsCmd(t) /\ e # TransferFulfilAcceptedEvt(t)
            /\ e # PayerFundsReservedEvt(t) /\ e # CommitPayeeFundsCmd(t)
            /\ e # PayeeFundsCommittedEvt(t)
            /\ e = TransferPrepareAcceptedEvt(t) <=> t = u
        BY <2>2 DEF ReservePayerFundsCmd, PayerFundsReservedEvt, TransferPrepareAcceptedEvt,
           PayeeFundsCommittedEvt, TransferFulfilAcceptedEvt, CommitPayeeFundsCmd, Msg
      <3>2. e \in Message
        BY <2>2, MessageTypes
      <3> HIDE DEF e
      <3>3. /\ HoldsAdded(One(e), t) = (IF t = u THEN 1 ELSE 0)
            /\ PaymentsAdded(One(e), t) = 0
        BY <3>1, MessageTypes DEF HoldsAdded, PaymentsAdded, One
      <3>4. SameHand("participantCmd") /\ SameHand("participantEvt")
        BY <1>g, <2>1, <2>4 DEF SameHand
      <3>5. Logged(One(e))
        BY <1>0, <2>1, <3>2, StepLogged
      <3> QED
        BY <1>0, <1>m, <2>3, <3>3, <3>4, <3>5, SumsStay
    <2>10. Bounded'
      BY <1>0, <1>m, <1>n, <2>1, <2>8, <2>9 DEF Bounded
    <2> QED
      BY <2>7, <2>10
  <1>11. ASSUME StoreTransfer PROVE Inv'
    <2> DEFINE w == hand["transferCmd"].write
    <2>1. /\ UNCHANGED <<log, offset, seen, faults>>
          /\ hand["transferCmd"] # NoHand /\ hand["transferCmd"].step = "store"
          /\ status' = [status EXCEPT ![InHand("transferCmd").t] = w]
          /\ Proceed("transferCmd", "commit")
      BY <1>11 DEF StoreTransfer
    <2>2. PICK u \in Transfer : u = InHand("transferCmd").t
      BY <1>0, <1>g, <2>1, HandFacts
    <2>3. /\ \A h \in Group \ {"transferCmd"} : hand'[h] = hand[h]
          /\ hand'["transferCmd"] # NoHand /\ hand'["transferCmd"].step = "commit"
      BY <1>0, <1>g, <2>1, ProceedHand DEF Step
    <2>4. Storing(u, {"store"}, w) /\ Storing(u, {"send", "store"}, w) /\ w \in Status
      <3>1. w \in Status
        BY <1>0, <1>g, <2>1, HandFacts DEF Hand
      <3> QED
        BY <2>1, <2>2, <3>1 DEF Storing
    <2>5. \A t \in Transfer : \A x :
             /\ ~Storing(t, {"send"}, x)' /\ ~Storing(t, {"store"}, x)'
             /\ ~Storing(t, {"send", "store"}, x)'
             /\ ~Storing(t, {"send"}, x)
             /\ Storing(t, {"store"}, x) <=> x = w /\ t = u
      BY <2>1, <2>2, <2>3 DEF Storing
    <2>6. /\ status'[u] = w /\ \A t \in Transfer \ {u} : status'[t] = status[t]
          /\ w \in Status \ {"none"}
          /\ u \in seen
          /\ w = "RECEIVED_PREPARE" => status[u] = "none"
          /\ w = "RESERVED" => status[u] = "RECEIVED_PREPARE"
          /\ w = "RECEIVED_FULFIL" => status[u] = "RESERVED"
          /\ w = "COMMITTED" => status[u] = "RECEIVED_FULFIL"
      <3>1. status'[u] = w /\ \A t \in Transfer \ {u} : status'[t] = status[t]
        BY <1>0, <2>1, <2>2 DEF TypeInv, TypeOK
      <3> HIDE DEF w
      <3>2. w # "none" /\ u \in seen
            /\ (w = "RECEIVED_PREPARE" => status[u] = "none")
            /\ (w = "RESERVED" => status[u] = "RECEIVED_PREPARE")
            /\ (w = "RECEIVED_FULFIL" => status[u] = "RESERVED")
            /\ (w = "COMMITTED" => status[u] = "RECEIVED_FULFIL")
        BY <1>0, <2>4 DEF StatusInOrder, Status
      <3> QED
        BY <2>4, <3>1, <3>2
    <2>7. StatusInOrder'
      <3> HIDE DEF w
      <3> QED
        BY <1>0, <2>1, <2>5, <2>6 DEF StatusInOrder
    <2>8. ASSUME NEW t \in Transfer
          PROVE  MayPrepare(t)' = MayPrepare(t) /\ MayFulfil(t)' = MayFulfil(t)
      <3> HIDE DEF w
      <3>1. MayPrepare(t)' = MayPrepare(t)
        BY <2>1, <2>5 DEF MayPrepare
      <3>2. MayFulfil(t)' = MayFulfil(t)
        BY <2>5, <2>6 DEF MayFulfil, Status
      <3> QED
        BY <3>1, <3>2
    <2>9. ASSUME NEW t \in Transfer
          PROVE  HoldsSum(t)' = HoldsSum(t) /\ PaymentsSum(t)' = PaymentsSum(t)
      <3>1. SameHand("participantCmd") /\ SameHand("participantEvt")
        BY <1>g, <2>1, <2>3 DEF SameHand
      <3> QED
        BY <1>0, <1>m, <2>1, <3>1, StepLogged, AddedNames, SumsStay, UnchangedGrows
    <2>10. Bounded'
      BY <1>0, <1>m, <1>n, <2>1, <2>8, <2>9 DEF Bounded
    <2> QED
      BY <2>7, <2>10
  <1>12. ASSUME NEW g \in Group, Commit(g) PROVE Inv'
    <2>1. UNCHANGED <<log, seen, status, faults>>
      BY <1>12 DEF Commit, cmdVars
    <2>2. \/ hand'["transferCmd"] = hand["transferCmd"]
          \/ hand["transferCmd"].step = "commit" /\ hand'["transferCmd"] = NoHand
      BY <1>0, <1>12, <1>g DEF Commit, TypeInv
    <2>3. TaskSame
      BY <1>0, <2>1, <2>2, TaskKept, UnchangedGrows
    <2>4. /\ StatusInOrder'
          /\ \A t \in Transfer : MayPrepare(t)' = MayPrepare(t) /\ MayFulfil(t)' = MayFulfil(t)
      BY <1>0, <2>1, <2>3, OrderKept
    <2>5. Bounded'
      BY <1>0, <1>12, <1>m, <1>n, <2>1, <2>4, SumsCommitted DEF Bounded
    <2> QED
      BY <2>4, <2>5
  <1>13. ASSUME NEW process \in Process, Drop(process) PROVE Inv'
    <2>1. /\ UNCHANGED <<log, offset, seen, status>>
          /\ \A g \in Group : hand'[g] = IF Handler[g].process = process THEN NoHand ELSE hand[g]
          /\ faults'.count = faults.count + 1
      BY <1>0, <1>13, FailureType DEF Drop, TypeInv, TypeOK, FaultsOK
    <2>2. /\ Handler["transferCmd"].process = "transfers"
          /\ Handler["participantCmd"].process = "participants"
          /\ Handler["participantEvt"].process = "participants"
      BY HandlerFacts DEF TransferCmdHandler, ParticipantCmdHandler, ParticipantEvtHandler
    <2>3. CASE process = "participants"
      <3>1. /\ hand'["transferCmd"] = hand["transferCmd"]
            /\ hand'["participantCmd"] = NoHand /\ hand'["participantEvt"] = NoHand
        BY <1>g, <2>1, <2>2, <2>3
      <3>2. TaskSame
        BY <1>0, <2>1, <3>1, TaskKept, UnchangedGrows
      <3>3. /\ StatusInOrder'
            /\ \A t \in Transfer : MayPrepare(t)' = MayPrepare(t) /\ MayFulfil(t)' = MayFulfil(t)
        BY <1>0, <2>1, <3>2, OrderKept
      <3>4. \A t \in Transfer :
               /\ HoldsSum(t)' <= HoldsSum(t) + 2 /\ HoldsSum(t)' \in Int
               /\ PaymentsSum(t)' <= PaymentsSum(t) + 2 /\ PaymentsSum(t)' \in Int
        BY <1>0, <2>1, <3>1, SumsDropped
      <3>5. Bounded'
        BY <1>0, <1>m, <1>n, <2>1, <3>3, <3>4 DEF Bounded
      <3> QED
        BY <3>3, <3>5
    <2>4. CASE process # "participants"
      <3>1. SameHand("participantCmd") /\ SameHand("participantEvt")
        BY <1>g, <2>1, <2>2, <2>4 DEF SameHand
      <3>2. \A t \in Transfer : HoldsSum(t)' = HoldsSum(t) /\ PaymentsSum(t)' = PaymentsSum(t)
        BY <1>0, <1>m, <2>1, <3>1, StepLogged, AddedNames, SumsStay, UnchangedGrows
      <3>3. \A t \in Transfer : \A steps, w : Storing(t, steps, w)' => Storing(t, steps, w)
        <4>1. CASE hand'["transferCmd"] = NoHand
          BY <4>1 DEF Storing
        <4>2. CASE hand'["transferCmd"] = hand["transferCmd"]
          BY <2>1, <4>2 DEF Storing, InHand
        <4> QED
          BY <1>g, <2>1, <4>1, <4>2
      <3>4. StatusInOrder'
        BY <1>0, <2>1, <3>3 DEF StatusInOrder
      <3>5. \A t \in Transfer : MayPrepare(t)' <= MayPrepare(t) /\ MayFulfil(t)' <= MayFulfil(t) + 1
        <4>1. \A t \in Transfer : MayPrepare(t)' <= MayPrepare(t)
          BY <2>1, <3>3 DEF MayPrepare
        <4> QED
          BY <1>m, <4>1
      <3>6. Bounded'
        BY <1>0, <1>m, <1>n, <2>1, <3>2, <3>5 DEF Bounded
      <3> QED
        BY <3>4, <3>6
    <2> QED
      BY <2>3, <2>4
  <1>14. ASSUME UNCHANGED vars PROVE Inv'
    BY <1>0, <1>14, <1>a, <1>n, TaskKept, UnchangedGrows DEF vars, SameHand
  <1> HIDE DEF Inv
  <1>15. ASSUME Handle PROVE Inv'
    BY <1>2, <1>3, <1>4, <1>5, <1>6, <1>8, <1>9, <1>10, <1>11, <1>15
       DEF Handle, TransferEvt, ParticipantEvt, SimulatorEvt, Notification, TransferCmd,
           ParticipantCmd
  <1>16. ASSUME Fail PROVE Inv'
    BY <1>4, <1>7, <1>13, <1>16
       DEF Fail, StopTransfers, StopParticipants, StopSimulator, StopAdapter, Process
  <1>17. Inv'
    BY <1>1, <1>12, <1>14, <1>15, <1>16 DEF Next
  <1> QED
    BY <1>0, <1>17 DEF MoveInv, Inv

\* A transfer's funds are reserved once and paid once, but for two times more per
\* failure: a process that stops has one message in each of its two handlers, which
\* its groups hand out again, and every other failure only leaves something out.
THEOREM FundsMoveOnce == Spec => []MovedOncePerFailure
  <1>1. ASSUME MoveInv PROVE MovedOncePerFailure
    <2>1. TypeInv /\ Bounded
      BY <1>1 DEF MoveInv, CauseInv
    <2>2. ASSUME NEW t \in Transfer
          PROVE  /\ Copies(PayerFundsReservedEvt(t)) <= 1 + 2 * faults.count
                 /\ Copies(PayeeFundsCommittedEvt(t)) <= 1 + 2 * faults.count
      <3>1. /\ HoldsSum(t) \in Nat /\ PaymentsSum(t) \in Nat
            /\ Copies(PayerFundsReservedEvt(t)) <= HoldsSum(t)
            /\ Copies(PayeeFundsCommittedEvt(t)) <= PaymentsSum(t)
        BY <2>1, SumsType
      <3>2. MayPrepare(t) \in {0, 1} /\ MayFulfil(t) \in {0, 1} /\ faults.count \in Nat
        BY <2>1 DEF MayPrepare, MayFulfil, TypeInv, TypeOK
      <3>3. /\ Copies(PayerFundsReservedEvt(t)) \in Nat
            /\ Copies(PayeeFundsCommittedEvt(t)) \in Nat
        BY <2>1, MessageTypes, CopiesNat
      <3> QED
        BY <2>1, <3>1, <3>2, <3>3 DEF Bounded
    <2> QED
      BY <2>2 DEF MovedOncePerFailure
  <1>2. MoveInv /\ [Next]_vars => MoveInv'
    BY MoveStep
  <1> QED
    BY InitMoveInv, <1>1, <1>2, PTL DEF Spec

\* Redis's status of a transfer takes the next step or none, in every step of the
\* program: the transfers command handler stores only what follows what it loaded,
\* and nothing comes between, because the group hands it one command at a time.
THEOREM StatusAdvances == Spec => StatusOnlyAdvances
  <1> DEFINE Forward == \A t \in Transfer :
                           status'[t] # status[t] => <<status[t], status'[t]>> \in Advance
  <1>1. MoveInv /\ [Next]_vars => Forward
    <2> SUFFICES ASSUME MoveInv, [Next]_vars, NEW t \in Transfer, status'[t] # status[t]
                 PROVE  <<status[t], status'[t]>> \in Advance
      OBVIOUS
    <2>1. TypeInv /\ StatusInOrder
      BY DEF MoveInv, CauseInv
    <2>2. StoreTransfer
      <3>1. ~(\E u \in Transfer : Fsp(u))
        BY DEF Fsp, CreateTransfer, CreateTransferLost, Requested, FulfilTransfer,
           FulfilTransferError, Answered, GetTransferById, cmdVars
      <3>2. ~TransferEvt /\ ~ParticipantEvt /\ ~SimulatorEvt
        BY DEF TransferEvt, ParticipantEvt, SimulatorEvt, HandleTransferEvt,
           HandleParticipantEvt, HandleSimulatorEvt, RelayStep, cmdVars
      <3>3. ~Notification /\ ~NotifyFails
        BY DEF Notification, NotifyFirst, NotifyPayee, NotifyFails, NotifyStep, cmdVars
      <3>4. ~(\E q \in Reads("transferCmd") : \E i \in DOMAIN log[q] : RunTransferCmd(q, i))
        BY DEF RunTransferCmd, PrepareTransfer, RefuseTransferCmd, AckPayerFundsReserved,
           Fulfil, AckPayeeFundsCommitted, Rule
      <3>5. ~AcceptTransfer /\ ~ParticipantCmd
        BY DEF AcceptTransfer, ParticipantCmd, RunParticipantCmd, ReservePayerFunds,
           CommitPayeeFunds, Move, StoreParticipant, cmdVars
      <3>6. ~(\E g \in Group : Commit(g))
            /\ ~(\E g \in Group : \E q \in Reads(g) : \E i \in DOMAIN log[q] : RelayFails(g, q, i))
            /\ ~(\E process \in Process : Drop(process))
        BY DEF Commit, RelayFails, RelayStep, Drop, cmdVars
      <3>7. ~UNCHANGED vars
        BY DEF vars
      <3> QED
        BY <3>1, <3>2, <3>3, <3>4, <3>5, <3>6, <3>7
           DEF Next, Handle, TransferCmd, Fail, StopTransfers, StopParticipants,
               StopSimulator, StopAdapter, Process
    <2> DEFINE w == hand["transferCmd"].write
               u == InHand("transferCmd").t
    <2>3. /\ hand["transferCmd"] # NoHand /\ hand["transferCmd"].step = "store"
          /\ status' = [status EXCEPT ![u] = w]
      BY <2>2 DEF StoreTransfer
    <2>4. t = u /\ status'[t] = w
      BY <2>1, <2>3 DEF TypeInv, TypeOK
    <2>5. w \in Status
      BY <2>1, <2>3, HandFacts, HandlerFacts DEF Hand
    <2>6. Storing(t, {"store"}, w) /\ Storing(t, {"send", "store"}, w)
      BY <2>3, <2>4 DEF Storing
    <2> HIDE DEF w, u
    <2>7. \/ w = "RECEIVED_PREPARE" /\ status[t] = "none"
          \/ w = "RESERVED" /\ status[t] = "RECEIVED_PREPARE"
          \/ w = "RECEIVED_FULFIL" /\ status[t] = "RESERVED"
          \/ w = "COMMITTED" /\ status[t] = "RECEIVED_FULFIL"
      BY <2>1, <2>5, <2>6 DEF StatusInOrder, Status
    <2> QED
      BY <2>4, <2>7 DEF Advance
  <1>2. MoveInv /\ [Next]_vars => MoveInv'
    BY MoveStep
  <1> QED
    BY InitMoveInv, <1>1, <1>2, PTL DEF Spec, StatusOnlyAdvances

--------------------------------------------------------------------------------
(* The two halves of the switch agree *)

OnHold    == {"RESERVED", "RECEIVED_FULFIL", "COMMITTED"}
Fulfilled == {"RECEIVED_FULFIL", "COMMITTED"}
Known     == {"RECEIVED_PREPARE"} \union OnHold

\* Redis holds t in a status of S, or is about to.
Reaches(t, S) == status[t] \in S \/ \E write \in S : Storing(t, {"store"}, write)

\* m was published, and group g is past it or has it in hand.
Done(g, m) == \E i \in 1..Reached(g, m.queue) : log[m.queue][i] = m

\* The position of x once what the command handler has in hand is stored, and
\* what the events published say of the share of t in it.
PositionNow(x) ==
    IF /\ hand["participantCmd"] # NoHand
       /\ hand["participantCmd"].step = "store"
       /\ hand["participantCmd"].queue[2] = x
    THEN hand["participantCmd"].write
    ELSE position[x]

Moved(t, x) ==
    (IF Payer[t] = x /\ Published(PayerFundsReservedEvt(t)) THEN Amount[t] ELSE 0)
    - (IF Payee[t] = x /\ Published(PayeeFundsCommittedEvt(t)) THEN Amount[t] ELSE 0)

Ledger ==
    \A x \in Participant :
        PositionNow(x) = SumFunctionOnSet([t \in Transfer |-> Moved(t, x)], Transfer)

\* Every event about the funds that the transfers' event handler is past became a
\* command.
Relayed ==
    \A t \in Transfer :
        /\ Done("transferEvt", PayerFundsReservedEvt(t)) => Published(AckPayerFundsReservedCmd(t))
        /\ Done("transferEvt", PayeeFundsCommittedEvt(t)) => Published(AckPayeeFundsCommittedCmd(t))

\* Every event of a transfer, and every command the handler is past, shows in its
\* status; the status shows only what happened; and a transfer refused in the
\* cache is RESERVED and stays so.
Applied ==
    \A t \in Transfer :
        /\ Published(TransferPrepareAcceptedEvt(t)) => Reaches(t, Known)
        /\ Published(TransferFulfilAcceptedEvt(t)) => Reaches(t, Fulfilled)
        /\ Done("transferCmd", AckPayerFundsReservedCmd(t)) => Reaches(t, OnHold)
        /\ Done("transferCmd", AckPayeeFundsCommittedCmd(t)) => Reaches(t, {"COMMITTED"})
        /\ Reaches(t, OnHold) => Published(PayerFundsReservedEvt(t))
        /\ Reaches(t, {"COMMITTED"}) => Published(PayeeFundsCommittedEvt(t))
        /\ t \in refused => status[t] = "RESERVED" /\ ~Storing(t, {"store"}, "RECEIVED_FULFIL")

HalvesInv == MoveInv /\ (faults.count = 0 => Ledger /\ Relayed /\ Applied)

--------------------------------------------------------------------------------
(* What a step does to what the groups are past and to what was published *)

SameReached(g) == \A q \in Queue : Reached(g, q)' = Reached(g, q)

LEMMA CommitReached ==
    ASSUME TypeInv, NEW g \in Group, NEW h \in Group, Commit(h)
    PROVE  SameReached(g)
  <1>1. offset[g] \in [Queue -> Nat]
    BY DEF TypeInv, TypeOK
  <1>2. CASE g = h
    <2>1. hand'[g] = NoHand /\ hand[g] # NoHand
          /\ offset'[g] = [offset[g] EXCEPT ![hand[g].queue] = hand[g].at]
      BY <1>2, CommitCore DEF Commit, TypeInv
    <2> QED
      BY <1>1, <2>1 DEF Reached, SameReached
  <1>3. CASE g # h
    BY <1>3, CommitCore DEF TypeInv, Reached, SameReached
  <1> QED
    BY <1>2, <1>3

\* Being done is not lost by a step, and is not gained by one that takes nothing.
LEMMA DoneStays ==
    ASSUME TypeInv, Grows, NEW g \in Group, SameReached(g), NEW m \in Message
    PROVE  Done(g, m)' <=> Done(g, m)
  <1>1. m.queue \in Queue
    BY DEF Message
  <1>2. Reached(g, m.queue)' = Reached(g, m.queue) /\ Reached(g, m.queue) \in 0..Len(log[m.queue])
    BY <1>1, ReachedType DEF SameReached
  <1>3. log[m.queue] \in Seq(Message)
    BY <1>1 DEF TypeInv, TypeOK
  <1>4. \A i \in 1..Reached(g, m.queue) : log'[m.queue][i] = log[m.queue][i]
    BY <1>1, <1>2, <1>3 DEF Grows
  <1> QED
    BY <1>2, <1>4 DEF Done

\* What a group takes is done, and nothing else that it subscribed to.
LEMMA DoneTaken ==
    ASSUME TypeInv, Grows, NEW g \in Group, NEW q \in Reads(g), NEW i \in DOMAIN log[q],
           Take(g, q, i), hand'[g] # NoHand, hand'[g].queue = q, hand'[g].at = i,
           UNCHANGED offset, NEW m \in Message, m.name \in Handler[g].names, Done(g, m)'
    PROVE  Done(g, m) \/ log[q][i] = m
  <1>1. /\ q \in Queue /\ m.queue \in Queue /\ log[q] \in Seq(Message) /\ log[m.queue] \in Seq(Message)
        /\ hand[g] = NoHand /\ i \in (offset[g][q] + 1)..Len(log[q]) /\ Due(g, q, i)
        /\ offset[g][q] \in Nat
    <2>1. q \in Queue /\ m.queue \in Queue
      BY DEF Reads, Message
    <2> QED
      BY <2>1, TakeFacts DEF TypeInv, TypeOK
  <1>2. CASE m.queue = q
    <2>1. Reached(g, q) = offset[g][q] /\ Reached(g, q)' = i
      BY <1>1 DEF Reached
    <2>2. PICK j \in 1..i : log'[q][j] = m
      BY <1>2, <2>1 DEF Done
    <2>3. log[q][j] = m
      BY <1>1, <2>2 DEF Grows
    <2>4. \A k \in (offset[g][q] + 1)..(i - 1) : log[q][k] # m
      BY <1>1 DEF Due
    <2>5. j \in 1..offset[g][q] \/ j = i
      BY <1>1, <2>2, <2>3, <2>4
    <2> QED
      BY <1>2, <2>1, <2>3, <2>5 DEF Done
  <1>3. CASE m.queue # q
    <2>1. Reached(g, m.queue)' = Reached(g, m.queue) /\ Reached(g, m.queue) \in 0..Len(log[m.queue])
      BY <1>1, <1>3, ReachedType DEF Reached
    <2>2. PICK j \in 1..Reached(g, m.queue) : log'[m.queue][j] = m
      BY <2>1 DEF Done
    <2>3. log[m.queue][j] = m
      BY <1>1, <2>1, <2>2 DEF Grows
    <2> QED
      BY <2>2, <2>3 DEF Done
  <1> QED
    BY <1>2, <1>3

LEMMA PublishedAfter ==
    ASSUME TypeInv, NEW e \in Message, Publish(e), NEW m \in Message
    PROVE  Published(m)' <=> Published(m) \/ e = m
  <1>1. Published(m) => Published(m)'
    BY PublishGrows, PublishedKept
  <1>2. e = m => Published(m)'
    BY PublishedNow
  <1>3. ASSUME Published(m)', e # m PROVE Published(m)
    <2>1. m.queue \in Queue
      BY DEF Message
    <2>2. PICK i \in DOMAIN log'[m.queue] : log'[m.queue][i] = m
      BY <1>3 DEF Published
    <2>3. i \in DOMAIN log[m.queue] \/ (m.queue = e.queue /\ log'[m.queue][i] = e)
      BY <2>1, <2>2, PublishAppends
    <2>4. i \in DOMAIN log[m.queue] /\ log[m.queue][i] = m
      BY <1>3, <2>1, <2>2, <2>3, PublishGrows DEF Grows
    <2> QED
      BY <2>4 DEF Published
  <1> QED
    BY <1>1, <1>2, <1>3

\* A step that publishes nothing but messages of these names.
Says(names) == UNCHANGED log \/ \E e \in Message : Publish(e) /\ e.name \in names

LEMMA SaysGrows ==
    ASSUME TypeInv, NEW names, Says(names)
    PROVE  Grows
  BY PublishGrows, UnchangedGrows DEF Says

LEMMA NotSaid ==
    ASSUME TypeInv, NEW names, Says(names), NEW m \in Message, m.name \notin names
    PROVE  Published(m)' <=> Published(m)
  <1>1. CASE UNCHANGED log
    BY <1>1 DEF Published
  <1>2. ASSUME NEW e \in Message, Publish(e), e.name \in names
        PROVE  Published(m)' <=> Published(m)
    BY <1>2, PublishedAfter
  <1> QED
    BY <1>1, <1>2 DEF Says

--------------------------------------------------------------------------------
(* The ledger: each event moves what the position moves *)

LEMMA MovedType ==
    ASSUME NEW t \in Transfer, NEW x \in Participant
    PROVE  Moved(t, x) \in Int
  <1>1. Amount[t] \in Int
    BY ConstantTypes
  <1> QED
    BY <1>1 DEF Moved

LEMMA LedgerKept ==
    ASSUME TypeInv, Ledger, \A x \in Participant : PositionNow(x)' = PositionNow(x),
           NEW names, Says(names), "PayerFundsReservedEvt" \notin names,
           "PayeeFundsCommittedEvt" \notin names
    PROVE  Ledger'
  <1>1. ASSUME NEW t \in Transfer, NEW x \in Participant PROVE Moved(t, x)' = Moved(t, x)
    <2>1. /\ PayerFundsReservedEvt(t).name = "PayerFundsReservedEvt"
          /\ PayeeFundsCommittedEvt(t).name = "PayeeFundsCommittedEvt"
      BY DEF PayerFundsReservedEvt, PayeeFundsCommittedEvt, Msg
    <2>2. /\ Published(PayerFundsReservedEvt(t))' <=> Published(PayerFundsReservedEvt(t))
          /\ Published(PayeeFundsCommittedEvt(t))' <=> Published(PayeeFundsCommittedEvt(t))
      BY <2>1, NotSaid, MessageTypes
    <2> QED
      BY <2>2 DEF Moved
  <1>2. ASSUME NEW x \in Participant
        PROVE  [t \in Transfer |-> Moved(t, x)]' = [t \in Transfer |-> Moved(t, x)]
    BY <1>1
  <1> QED
    BY <1>2 DEF Ledger

\* An event that is published for the first time moves one share, by its amount.
LEMMA LedgerMoves ==
    ASSUME TypeInv, Ledger, NEW u \in Transfer, NEW e \in Message, Publish(e), ~Published(e),
           NEW y \in Participant, NEW d \in Int,
           \/ e = PayerFundsReservedEvt(u) /\ y = Payer[u] /\ d = Amount[u]
           \/ e = PayeeFundsCommittedEvt(u) /\ y = Payee[u] /\ d = -Amount[u],
           \A x \in Participant :
              PositionNow(x)' = IF x = y THEN PositionNow(x) + d ELSE PositionNow(x)
    PROVE  Ledger'
  <1>1. /\ Amount[u] \in Int
        /\ \A t \in Transfer : PayerFundsReservedEvt(t) \in Message
                               /\ PayeeFundsCommittedEvt(t) \in Message
        /\ IsFiniteSet(Transfer)
    BY ConstantTypes, MessageTypes, SwitchAssumption
  <1>2. ASSUME NEW t \in Transfer, NEW x \in Participant
        PROVE  Moved(t, x)' = IF t = u THEN Moved(t, x) + (IF x = y THEN d ELSE 0)
                                       ELSE Moved(t, x)
    <2>1. /\ Published(PayerFundsReservedEvt(t))' <=>
                Published(PayerFundsReservedEvt(t)) \/ e = PayerFundsReservedEvt(t)
          /\ Published(PayeeFundsCommittedEvt(t))' <=>
                Published(PayeeFundsCommittedEvt(t)) \/ e = PayeeFundsCommittedEvt(t)
      BY <1>1, PublishedAfter
    <2>2. /\ PayerFundsReservedEvt(t).name = "PayerFundsReservedEvt"
          /\ PayeeFundsCommittedEvt(t).name = "PayeeFundsCommittedEvt"
          /\ PayerFundsReservedEvt(t).t = t /\ PayeeFundsCommittedEvt(t).t = t
          /\ PayerFundsReservedEvt(u).name = "PayerFundsReservedEvt"
          /\ PayeeFundsCommittedEvt(u).name = "PayeeFundsCommittedEvt"
          /\ PayerFundsReservedEvt(u).t = u /\ PayeeFundsCommittedEvt(u).t = u
      BY DEF PayerFundsReservedEvt, PayeeFundsCommittedEvt, Msg
    <2>3. CASE e = PayerFundsReservedEvt(u) /\ y = Payer[u] /\ d = Amount[u]
      <3>1. /\ e = PayerFundsReservedEvt(t) <=> t = u
            /\ e # PayeeFundsCommittedEvt(t)
        BY <2>2, <2>3
      <3>2. Amount[t] \in Int
        BY ConstantTypes
      <3> QED
        BY <1>1, <2>1, <2>3, <3>1, <3>2 DEF Moved
    <2>4. CASE e = PayeeFundsCommittedEvt(u) /\ y = Payee[u] /\ d = -Amount[u]
      <3>1. /\ e = PayeeFundsCommittedEvt(t) <=> t = u
            /\ e # PayerFundsReservedEvt(t)
        BY <2>2, <2>4
      <3>2. Amount[t] \in Int
        BY ConstantTypes
      <3> QED
        BY <1>1, <2>1, <2>4, <3>1, <3>2 DEF Moved
    <2> QED
      BY <2>3, <2>4
  <1>3. ASSUME NEW x \in Participant
        PROVE  PositionNow(x)' = SumFunctionOnSet([t \in Transfer |-> Moved(t, x)], Transfer)'
    <2>1. PICK f, h, c : /\ f = [t \in Transfer |-> Moved(t, x)]
                         /\ h = [t \in Transfer |-> Moved(t, x)']
                         /\ c = IF x = y THEN d ELSE 0
      OBVIOUS
    <2>2. /\ \A t \in Transfer : f[t] \in Int
          /\ \A t \in Transfer : h[t] = IF t = u THEN f[t] + c ELSE f[t]
          /\ c \in Int
      BY <1>2, <2>1, MovedType
    <2>3. SumFunctionOnSet(h, Transfer) = SumFunctionOnSet(f, Transfer) + c
      BY <1>1, <2>2, SumFollows
    <2>4. SumFunctionOnSet(f, Transfer) \in Int
      BY <1>1, <2>2, SumType
    <2>5. PositionNow(x) = SumFunctionOnSet(f, Transfer)
      BY <2>1 DEF Ledger
    <2>6. PositionNow(x)' = SumFunctionOnSet(h, Transfer)
      BY <2>1, <2>3, <2>4, <2>5
    <2>7. h = [t \in Transfer |-> Moved(t, x)]'
      BY <2>1
    <2> QED
      BY <2>6, <2>7
  <1> QED
    BY <1>3 DEF Ledger

\* While nothing failed each of these events is published once.
LEMMA OnceEach ==
    MoveInv /\ faults.count = 0 =>
        \A t \in Transfer : /\ Copies(PayerFundsReservedEvt(t)) <= 1
                            /\ Copies(PayeeFundsCommittedEvt(t)) <= 1
  <1> SUFFICES ASSUME MoveInv, faults.count = 0, NEW t \in Transfer
               PROVE  /\ Copies(PayerFundsReservedEvt(t)) <= 1
                      /\ Copies(PayeeFundsCommittedEvt(t)) <= 1
    OBVIOUS
  <1>1. TypeInv /\ Bounded
    BY DEF MoveInv, CauseInv
  <1>2. /\ HoldsSum(t) + MayPrepare(t) <= 1 /\ PaymentsSum(t) + MayFulfil(t) <= 1
        /\ MayPrepare(t) \in {0, 1} /\ MayFulfil(t) \in {0, 1}
    BY <1>1 DEF Bounded, MayPrepare, MayFulfil
  <1>3. Copies(PayerFundsReservedEvt(t)) \in Nat /\ Copies(PayeeFundsCommittedEvt(t)) \in Nat
    BY <1>1, CopiesNat, MessageTypes
  <1> QED
    BY <1>1, <1>2, <1>3, SumsType

LEMMA OnceEachNext ==
    (MoveInv /\ faults.count = 0)' =>
        (\A t \in Transfer : /\ Copies(PayerFundsReservedEvt(t)) <= 1
                             /\ Copies(PayeeFundsCommittedEvt(t)) <= 1)'
  BY OnceEach, PTL

LEMMA FirstTime ==
    ASSUME MoveInv, MoveInv', faults'.count = 0, NEW u \in Transfer,
           NEW e \in {PayerFundsReservedEvt(u), PayeeFundsCommittedEvt(u)}, Publish(e)
    PROVE  ~Published(e)
  <1>1. TypeInv /\ e \in Message
    BY MessageTypes DEF MoveInv, CauseInv
  <1>2. Copies(e)' = Copies(e) + 1 /\ Copies(e) \in Nat
    <2>1. Appends(e, 1)
      BY <1>1, PublishedOnce
    <2> QED
      BY <1>1, <2>1, CopiesAfter, PublishGrows
  <1>3. Copies(e)' <= 1
    BY OnceEachNext
  <1>4. Copies(e) = 0
    BY <1>2, <1>3
  <1>5. e.queue \in Queue /\ log[e.queue] \in Seq(Message)
    BY <1>1 DEF Message, TypeInv, TypeOK
  <1>6. {i \in DOMAIN log[e.queue] : log[e.queue][i] = e} = {}
    <2>1. IsFiniteSet(1..Len(log[e.queue]))
      BY <1>5, FS_Interval
    <2>2. IsFiniteSet({i \in DOMAIN log[e.queue] : log[e.queue][i] = e})
      BY <1>5, <2>1, FS_Subset
    <2> QED
      BY <1>4, <2>2, FS_EmptySet DEF Copies
  <1> QED
    BY <1>6 DEF Published

LEMMA LedgerRun ==
    ASSUME MoveInv, MoveInv', faults'.count = 0, Ledger, NEW q \in Reads("participantCmd"),
           NEW i \in DOMAIN log[q], RunParticipantCmd(q, i)
    PROVE  Ledger'
  <1>0. TypeInv /\ MessagesCaused /\ "participantCmd" \in Group
    BY HandlerFacts DEF MoveInv, CauseInv
  <1>1. PICK m, u : m = log[q][i] /\ u = m.t
    OBVIOUS
  <1>2. Take("participantCmd", q, i)
    BY DEF RunParticipantCmd, ReservePayerFunds, CommitPayeeFunds
  <1>3. /\ m \in Message /\ u \in Transfer /\ Caused(m) /\ m.queue = q
        /\ hand["participantCmd"] = NoHand
        /\ Payer[u] \in Participant /\ Payee[u] \in Participant /\ Amount[u] \in Int
    BY <1>0, <1>1, <1>2, TakeFacts, ConstantTypes DEF MessagesCaused
  <1>4. position \in [Participant -> Int]
    BY <1>0 DEF TypeInv, TypeOK
  <1>5. \A x \in Participant : PositionNow(x) = position[x]
    BY <1>3 DEF PositionNow
  <1>6. ASSUME NEW e \in Message, NEW step \in Step, NEW pos \in Int, Move(q, i, e, step, pos)
        PROVE  \A x \in Participant :
                  PositionNow(x)' = IF step = "store" /\ q[2] = x THEN pos ELSE PositionNow(x)
    <2>1. Grows /\ UNCHANGED <<setting, offset, position>>
          /\ GoOn("participantCmd", q, i, step, pos)
      BY <1>0, <1>6, PublishGrows DEF Move, cmdVars
    <2>2. /\ hand'["participantCmd"] # NoHand
          /\ hand'["participantCmd"].queue = q
          /\ hand'["participantCmd"].step = step
          /\ hand'["participantCmd"].write = pos
      <3>1. pos \in WriteOf("participantCmd")
        BY DEF WriteOf
      <3>2. /\ hand'["participantCmd"] # NoHand
            /\ hand'["participantCmd"] = [queue |-> q, at |-> i, step |-> step, write |-> pos]
        BY <1>0, <1>2, <2>1, <3>1, TakeCore
      <3> QED
        BY <3>2
    <2> QED
      BY <1>5, <2>1, <2>2 DEF PositionNow
  <1>7. ASSUME NEW e \in Message, NEW pos \in Int, Move(q, i, e, "commit", pos),
               e.name \notin {"PayerFundsReservedEvt", "PayeeFundsCommittedEvt"}
        PROVE  Ledger'
    <2>1. \A x \in Participant : PositionNow(x)' = PositionNow(x)
      BY <1>6, <1>7 DEF Step
    <2>2. Says({e.name})
      BY <1>7 DEF Says, Move
    <2> QED
      BY <1>0, <1>7, <2>1, <2>2, LedgerKept
  <1>8. CASE ReservePayerFunds(q, i)
    <2>1. m = ReservePayerFundsCmd(u)
      BY <1>1, <1>3, <1>8 DEF ReservePayerFunds, Caused
    <2>2. q[2] = Payer[u]
      BY <1>3, <2>1 DEF ReservePayerFundsCmd, Msg
    <2>3. CASE Move(q, i, PayerFundsReservedEvt(u), "store", position[Payer[u]] + Amount[u])
      <3>1. PICK e, y, d : e = PayerFundsReservedEvt(u) /\ y = Payer[u] /\ d = Amount[u]
        OBVIOUS
      <3>2. e \in Message /\ Publish(e)
        BY <1>3, <2>3, <3>1, MessageTypes DEF Move
      <3>3. ~Published(e)
        BY <1>3, <3>1, <3>2, FirstTime
      <3>4. y \in Participant /\ d \in Int
        BY <1>3, <3>1
      <3>5. position[y] + d \in Int
        BY <1>4, <3>4
      <3>6. \A x \in Participant :
               PositionNow(x)' = IF x = y THEN PositionNow(x) + d ELSE PositionNow(x)
        <4>1. Move(q, i, e, "store", position[y] + d)
          BY <2>3, <3>1
        <4>2. \A x \in Participant :
                 PositionNow(x)' = IF q[2] = x THEN position[y] + d ELSE PositionNow(x)
          BY <1>6, <3>2, <3>5, <4>1 DEF Step
        <4> QED
          BY <1>5, <2>2, <3>1, <4>2
      <3> QED
        BY <1>0, <1>3, <3>1, <3>2, <3>3, <3>4, <3>6, LedgerMoves
    <2>4. CASE Move(q, i, InvalidParticipantEvt(Payee[u], u), "commit", 0)
      <3>1. InvalidParticipantEvt(Payee[u], u) \in Message
        BY <1>3, MessageTypes
      <3>2. InvalidParticipantEvt(Payee[u], u).name = "InvalidParticipantEvt"
        BY DEF InvalidParticipantEvt, Msg
      <3> QED
        BY <1>7, <2>4, <3>1, <3>2
    <2>5. CASE Move(q, i, NetCapLimitExceededEvt(u), "commit", 0)
      <3>1. NetCapLimitExceededEvt(u) \in Message
        BY <1>3, MessageTypes
      <3>2. NetCapLimitExceededEvt(u).name = "NetCapLimitExceededEvt"
        BY DEF NetCapLimitExceededEvt, Msg
      <3> QED
        BY <1>7, <2>5, <3>1, <3>2
    <2> QED
      BY <1>1, <1>8, <2>3, <2>4, <2>5 DEF ReservePayerFunds
  <1>9. CASE CommitPayeeFunds(q, i)
    <2>1. m = CommitPayeeFundsCmd(u)
      BY <1>1, <1>3, <1>9 DEF CommitPayeeFunds, Caused
    <2>2. q[2] = Payee[u]
      BY <1>3, <2>1 DEF CommitPayeeFundsCmd, Msg
    <2>3. Move(q, i, PayeeFundsCommittedEvt(u), "store", position[Payee[u]] - Amount[u])
      BY <1>1, <1>9 DEF CommitPayeeFunds
    <2>4. PICK e, y, d : e = PayeeFundsCommittedEvt(u) /\ y = Payee[u] /\ d = -Amount[u]
      OBVIOUS
    <2>5. e \in Message /\ Publish(e)
      BY <1>3, <2>3, <2>4, MessageTypes DEF Move
    <2>6. ~Published(e)
      BY <1>3, <2>4, <2>5, FirstTime
    <2>7. y \in Participant /\ d \in Int
      BY <1>3, <2>4
    <2>8. position[y] + d \in Int /\ position[y] + d = position[Payee[u]] - Amount[u]
      BY <1>3, <1>4, <2>4, <2>7
    <2>9. \A x \in Participant :
             PositionNow(x)' = IF x = y THEN PositionNow(x) + d ELSE PositionNow(x)
      <3>1. Move(q, i, e, "store", position[y] + d)
        BY <2>3, <2>4, <2>8
      <3>2. \A x \in Participant :
               PositionNow(x)' = IF q[2] = x THEN position[y] + d ELSE PositionNow(x)
        BY <1>6, <2>5, <2>8, <3>1 DEF Step
      <3> QED
        BY <1>5, <2>2, <2>4, <3>2
    <2> QED
      BY <1>0, <1>3, <2>4, <2>5, <2>6, <2>7, <2>9, LedgerMoves
  <1> QED
    BY <1>8, <1>9 DEF RunParticipantCmd

LEMMA LedgerStored ==
    ASSUME TypeInv, Ledger, StoreParticipant
    PROVE  Ledger'
  <1>0. "participantCmd" \in Group
    BY HandlerFacts
  <1>1. /\ hand["participantCmd"] # NoHand /\ hand["participantCmd"].step = "store"
        /\ position' = [position EXCEPT ![hand["participantCmd"].queue[2]] =
                                            hand["participantCmd"].write]
        /\ UNCHANGED log
    BY DEF StoreParticipant
  <1>2. hand'["participantCmd"].step = "commit"
    BY <1>0, <1>1, ProceedHand DEF StoreParticipant, Step
  <1>3. position \in [Participant -> Int]
    BY DEF TypeInv, TypeOK
  <1>4. \A x \in Participant : PositionNow(x)' = PositionNow(x)
    BY <1>1, <1>2, <1>3 DEF PositionNow
  <1>5. Says({})
    BY <1>1 DEF Says
  <1> QED
    BY <1>4, <1>5, LedgerKept

--------------------------------------------------------------------------------
(* The transfers' half: events become commands, and commands show in the status *)

LEMMA EventNames ==
    ASSUME NEW t \in Transfer
    PROVE  /\ PayerFundsReservedEvt(t).name \in Handler["transferEvt"].names
           /\ PayeeFundsCommittedEvt(t).name \in Handler["transferEvt"].names
           /\ AckPayerFundsReservedCmd(t).name \in Handler["transferCmd"].names
           /\ AckPayeeFundsCommittedCmd(t).name \in Handler["transferCmd"].names
  BY HandlerFacts DEF PayerFundsReservedEvt, PayeeFundsCommittedEvt, AckPayerFundsReservedCmd,
     AckPayeeFundsCommittedCmd, Msg, TransferEvtHandler, TransferCmdHandler

LEMMA RelayedKept ==
    ASSUME TypeInv, Grows, Relayed, SameReached("transferEvt")
    PROVE  Relayed'
  <1> SUFFICES ASSUME NEW t \in Transfer
               PROVE  /\ Done("transferEvt", PayerFundsReservedEvt(t))' =>
                            Published(AckPayerFundsReservedCmd(t))'
                      /\ Done("transferEvt", PayeeFundsCommittedEvt(t))' =>
                            Published(AckPayeeFundsCommittedCmd(t))'
    BY DEF Relayed
  <1>1. /\ Done("transferEvt", PayerFundsReservedEvt(t))' =>
              Done("transferEvt", PayerFundsReservedEvt(t))
        /\ Done("transferEvt", PayeeFundsCommittedEvt(t))' =>
              Done("transferEvt", PayeeFundsCommittedEvt(t))
    BY DoneStays, MessageTypes, HandlerFacts
  <1>2. /\ Published(AckPayerFundsReservedCmd(t)) => Published(AckPayerFundsReservedCmd(t))'
        /\ Published(AckPayeeFundsCommittedCmd(t)) => Published(AckPayeeFundsCommittedCmd(t))'
    BY PublishedKept, MessageTypes
  <1> QED
    BY <1>1, <1>2 DEF Relayed

LEMMA RelayedRun ==
    ASSUME TypeInv, Relayed, NEW q \in Reads("transferEvt"), NEW i \in DOMAIN log[q],
           HandleTransferEvt(q, i)
    PROVE  Relayed'
  <1>0. "transferEvt" \in Group
    BY HandlerFacts
  <1>1. PICK m, e : m = log[q][i] /\ e = TransferCmdFor(m)
    OBVIOUS
  <1>2. /\ Take("transferEvt", q, i) /\ Publish(e)
        /\ GoOn("transferEvt", q, i, "commit", "none")
        /\ UNCHANGED <<setting, offset>>
    BY <1>1 DEF HandleTransferEvt, RelayStep
  <1>3. m \in Message /\ m.name \in TransferEvtHandler.names
    BY <1>0, <1>1, <1>2, TakeFacts, HandlerFacts
  <1>4. e \in Message
    BY <1>1, <1>3, TransferCmdForType
  <1>5. Grows /\ Published(e)'
    BY <1>2, <1>4, PublishGrows, PublishedNow
  <1>6. /\ hand'["transferEvt"] # NoHand
        /\ hand'["transferEvt"].queue = q /\ hand'["transferEvt"].at = i
    <2>1. "none" \in WriteOf("transferEvt") /\ "commit" \in Step
      BY DEF WriteOf, Status, Step
    <2>2. /\ hand'["transferEvt"] # NoHand
          /\ hand'["transferEvt"] = [queue |-> q, at |-> i, step |-> "commit", write |-> "none"]
      BY <1>0, <1>2, <1>5, <2>1, TakeCore
    <2> QED
      BY <2>2
  <1> SUFFICES ASSUME NEW t \in Transfer
               PROVE  /\ Done("transferEvt", PayerFundsReservedEvt(t))' =>
                            Published(AckPayerFundsReservedCmd(t))'
                      /\ Done("transferEvt", PayeeFundsCommittedEvt(t))' =>
                            Published(AckPayeeFundsCommittedCmd(t))'
    BY DEF Relayed
  <1>7. /\ Published(AckPayerFundsReservedCmd(t)) => Published(AckPayerFundsReservedCmd(t))'
        /\ Published(AckPayeeFundsCommittedCmd(t)) => Published(AckPayeeFundsCommittedCmd(t))'
    BY <1>5, PublishedKept, MessageTypes
  <1>8. /\ m = PayerFundsReservedEvt(t) => e = AckPayerFundsReservedCmd(t)
        /\ m = PayeeFundsCommittedEvt(t) => e = AckPayeeFundsCommittedCmd(t)
    BY <1>1 DEF TransferCmdFor, PayerFundsReservedEvt, PayeeFundsCommittedEvt, Msg
  <1>9. /\ Done("transferEvt", PayerFundsReservedEvt(t))' =>
              Done("transferEvt", PayerFundsReservedEvt(t)) \/ m = PayerFundsReservedEvt(t)
        /\ Done("transferEvt", PayeeFundsCommittedEvt(t))' =>
              Done("transferEvt", PayeeFundsCommittedEvt(t)) \/ m = PayeeFundsCommittedEvt(t)
    BY <1>0, <1>1, <1>2, <1>5, <1>6, DoneTaken, MessageTypes, EventNames
  <1> QED
    BY <1>5, <1>7, <1>8, <1>9 DEF Relayed

\* What the parts of Applied read, for one transfer.
LEMMA AppliedNames ==
    ASSUME NEW t \in Transfer
    PROVE  /\ TransferPrepareAcceptedEvt(t).name = "TransferPrepareAcceptedEvt"
           /\ TransferFulfilAcceptedEvt(t).name = "TransferFulfilAcceptedEvt"
           /\ TransferPrepareAcceptedEvt(t).t = t
           /\ TransferFulfilAcceptedEvt(t).t = t
           /\ TransferPrepareAcceptedEvt(t) \in Message
           /\ TransferFulfilAcceptedEvt(t) \in Message
           /\ AckPayerFundsReservedCmd(t) \in Message
           /\ AckPayeeFundsCommittedCmd(t) \in Message
           /\ PayerFundsReservedEvt(t) \in Message
           /\ PayeeFundsCommittedEvt(t) \in Message
  BY MessageTypes DEF TransferPrepareAcceptedEvt, TransferFulfilAcceptedEvt, Msg

LEMMA AppliedKept ==
    ASSUME TypeInv, Grows, Applied, SameReached("transferCmd"), TaskSame,
           UNCHANGED <<status, refused>>,
           NEW names, Says(names), "TransferPrepareAcceptedEvt" \notin names,
           "TransferFulfilAcceptedEvt" \notin names
    PROVE  Applied'
  <1>0. OnHold \subseteq Status /\ Fulfilled \subseteq Status /\ Known \subseteq Status
        /\ {"COMMITTED"} \subseteq Status /\ "RECEIVED_FULFIL" \in Status
        /\ "transferCmd" \in Group
    BY HandlerFacts DEF OnHold, Fulfilled, Known, Status
  <1>1. ASSUME NEW t \in Transfer, NEW S \in SUBSET Status
        PROVE  Reaches(t, S)' <=> Reaches(t, S)
    BY DEF Reaches, TaskSame
  <1>2. ASSUME NEW t \in Transfer
        PROVE  /\ Published(TransferPrepareAcceptedEvt(t))' <=>
                     Published(TransferPrepareAcceptedEvt(t))
               /\ Published(TransferFulfilAcceptedEvt(t))' <=>
                     Published(TransferFulfilAcceptedEvt(t))
               /\ Done("transferCmd", AckPayerFundsReservedCmd(t))' <=>
                     Done("transferCmd", AckPayerFundsReservedCmd(t))
               /\ Done("transferCmd", AckPayeeFundsCommittedCmd(t))' <=>
                     Done("transferCmd", AckPayeeFundsCommittedCmd(t))
               /\ Published(PayerFundsReservedEvt(t)) => Published(PayerFundsReservedEvt(t))'
               /\ Published(PayeeFundsCommittedEvt(t)) => Published(PayeeFundsCommittedEvt(t))'
               /\ Storing(t, {"store"}, "RECEIVED_FULFIL")' <=>
                     Storing(t, {"store"}, "RECEIVED_FULFIL")
    <2>1. /\ Published(TransferPrepareAcceptedEvt(t))' <=> Published(TransferPrepareAcceptedEvt(t))
          /\ Published(TransferFulfilAcceptedEvt(t))' <=> Published(TransferFulfilAcceptedEvt(t))
      BY AppliedNames, NotSaid
    <2>2. /\ Done("transferCmd", AckPayerFundsReservedCmd(t))' <=>
                Done("transferCmd", AckPayerFundsReservedCmd(t))
          /\ Done("transferCmd", AckPayeeFundsCommittedCmd(t))' <=>
                Done("transferCmd", AckPayeeFundsCommittedCmd(t))
      BY <1>0, AppliedNames, DoneStays
    <2>3. /\ Published(PayerFundsReservedEvt(t)) => Published(PayerFundsReservedEvt(t))'
          /\ Published(PayeeFundsCommittedEvt(t)) => Published(PayeeFundsCommittedEvt(t))'
      BY AppliedNames, PublishedKept
    <2>4. Storing(t, {"store"}, "RECEIVED_FULFIL")' <=> Storing(t, {"store"}, "RECEIVED_FULFIL")
      BY <1>0 DEF TaskSame
    <2> QED
      BY <2>1, <2>2, <2>3, <2>4
  <1>3. \A t \in Transfer : /\ Reaches(t, Known)' <=> Reaches(t, Known)
                            /\ Reaches(t, OnHold)' <=> Reaches(t, OnHold)
                            /\ Reaches(t, Fulfilled)' <=> Reaches(t, Fulfilled)
                            /\ Reaches(t, {"COMMITTED"})' <=> Reaches(t, {"COMMITTED"})
    BY <1>0, <1>1
  <1> QED
    BY <1>2, <1>3, Zenon DEF Applied

LEMMA AppliedAccept ==
    ASSUME MoveInv, Applied, AcceptTransfer
    PROVE  Applied'
  <1>0. /\ TypeInv /\ ReservedCaused /\ StatusInOrder /\ "transferCmd" \in Group
        /\ hand["transferCmd"] # NoHand /\ hand["transferCmd"].step = "send"
    BY HandlerFacts DEF MoveInv, CauseInv, AcceptTransfer
  <1>1. PICK u \in Transfer, e \in Message :
           u = InHand("transferCmd").t /\ e = TransferPrepareAcceptedEvt(u)
    BY <1>0, HandFacts, MessageTypes
  <1>2. /\ Publish(e) /\ Grows
        /\ UNCHANGED <<offset, status, refused>>
        /\ hand["transferCmd"].write = "RECEIVED_PREPARE"
    BY <1>0, <1>1, PublishGrows DEF AcceptTransfer, cmdVars, ReservedCaused
  <1>3. /\ hand'["transferCmd"] # NoHand
        /\ hand'["transferCmd"].queue = hand["transferCmd"].queue
        /\ hand'["transferCmd"].at = hand["transferCmd"].at
        /\ hand'["transferCmd"].step = "store"
        /\ hand'["transferCmd"].write = "RECEIVED_PREPARE"
    BY <1>0, <1>2, ProceedHand DEF AcceptTransfer, Step
  <1>4. InHand("transferCmd")' = InHand("transferCmd")
    BY <1>0, <1>2, <1>3, SameInHand
  <1>5. ASSUME NEW t \in Transfer, NEW w
        PROVE  /\ ~Storing(t, {"store"}, w)
               /\ Storing(t, {"store"}, w)' <=> w = "RECEIVED_PREPARE" /\ t = u
    BY <1>0, <1>1, <1>3, <1>4 DEF Storing
  <1>6. ASSUME NEW t \in Transfer
        PROVE  /\ Reaches(t, Known)' <=> Reaches(t, Known) \/ t = u
               /\ Reaches(t, OnHold)' <=> Reaches(t, OnHold)
               /\ Reaches(t, Fulfilled)' <=> Reaches(t, Fulfilled)
               /\ Reaches(t, {"COMMITTED"})' <=> Reaches(t, {"COMMITTED"})
               /\ ~Storing(t, {"store"}, "RECEIVED_FULFIL")'
    BY <1>2, <1>5 DEF Reaches, Known, OnHold, Fulfilled
  <1>7. SameReached("transferCmd")
    BY <1>0, <1>2, <1>3 DEF SameReached, Reached
  <1>8. ASSUME NEW t \in Transfer
        PROVE  /\ Published(TransferPrepareAcceptedEvt(t))' =>
                     Published(TransferPrepareAcceptedEvt(t)) \/ t = u
               /\ Published(TransferFulfilAcceptedEvt(t))' =>
                     Published(TransferFulfilAcceptedEvt(t))
               /\ Published(PayerFundsReservedEvt(t)) => Published(PayerFundsReservedEvt(t))'
               /\ Published(PayeeFundsCommittedEvt(t)) => Published(PayeeFundsCommittedEvt(t))'
    <2>1. e # TransferFulfilAcceptedEvt(t) /\ (e = TransferPrepareAcceptedEvt(t) => t = u)
      BY <1>1, AppliedNames
    <2> QED
      BY <1>0, <1>2, <2>1, AppliedNames, PublishedAfter
  <1>9. ASSUME NEW t \in Transfer
        PROVE  /\ Done("transferCmd", AckPayerFundsReservedCmd(t))' <=>
                     Done("transferCmd", AckPayerFundsReservedCmd(t))
               /\ Done("transferCmd", AckPayeeFundsCommittedCmd(t))' <=>
                     Done("transferCmd", AckPayeeFundsCommittedCmd(t))
    BY <1>0, <1>2, <1>7, AppliedNames, DoneStays
  <1> QED
    BY <1>2, <1>6, <1>8, <1>9, Zenon DEF Applied

LEMMA AppliedStored ==
    ASSUME MoveInv, Applied, StoreTransfer
    PROVE  Applied'
  <1>0. /\ TypeInv /\ StatusInOrder /\ "transferCmd" \in Group
        /\ hand["transferCmd"] # NoHand /\ hand["transferCmd"].step = "store"
    BY HandlerFacts DEF MoveInv, CauseInv, StoreTransfer
  <1>1. PICK u \in Transfer, write \in Status :
           u = InHand("transferCmd").t /\ write = hand["transferCmd"].write
    BY <1>0, HandFacts, HandlerFacts DEF Hand
  <1>2. /\ status' = [status EXCEPT ![u] = write] /\ status \in [Transfer -> Status]
        /\ UNCHANGED <<log, offset, refused>> /\ Grows
    BY <1>0, <1>1, UnchangedGrows DEF StoreTransfer, TypeInv, TypeOK
  <1>3. /\ hand'["transferCmd"] # NoHand
        /\ hand'["transferCmd"].queue = hand["transferCmd"].queue
        /\ hand'["transferCmd"].at = hand["transferCmd"].at
        /\ hand'["transferCmd"].step = "commit"
    BY <1>0, ProceedHand DEF StoreTransfer, Step
  <1>4. ASSUME NEW t \in Transfer, NEW w
        PROVE  /\ Storing(t, {"store"}, w) <=> t = u /\ w = write
               /\ ~Storing(t, {"store"}, w)'
    BY <1>0, <1>1, <1>3 DEF Storing
  <1>5. /\ write = "RECEIVED_PREPARE" => status[u] = "none"
        /\ write = "RESERVED" => status[u] = "RECEIVED_PREPARE"
        /\ write = "RECEIVED_FULFIL" => status[u] = "RESERVED"
        /\ write = "COMMITTED" => status[u] = "RECEIVED_FULFIL"
        /\ write # "none"
    <2>1. write = "RECEIVED_PREPARE" => Storing(u, {"send", "store"}, "RECEIVED_PREPARE")
      BY <1>0, <1>1 DEF Storing
    <2> QED
      BY <1>0, <1>4, <2>1 DEF StatusInOrder
  <1>6. ASSUME NEW t \in Transfer, NEW S \in {Known, OnHold, Fulfilled, {"COMMITTED"}}
        PROVE  Reaches(t, S)' <=> Reaches(t, S)
    <2>1. Reaches(t, S)' <=> status'[t] \in S
      BY <1>4 DEF Reaches
    <2>2. Reaches(t, S) <=> status[t] \in S \/ (t = u /\ write \in S)
      BY <1>4 DEF Reaches
    <2>3. status[u] \in S => write \in S
      BY <1>1, <1>5 DEF Known, OnHold, Fulfilled, Status
    <2>4. status'[t] = IF t = u THEN write ELSE status[t]
      BY <1>2
    <2> QED
      BY <2>1, <2>2, <2>3, <2>4
  <1>7. ASSUME NEW t \in Transfer, t \in refused
        PROVE  status'[t] = "RESERVED" /\ ~Storing(t, {"store"}, "RECEIVED_FULFIL")'
    <2>1. status[t] = "RESERVED" /\ ~Storing(t, {"store"}, "RECEIVED_FULFIL")
      BY <1>7 DEF Applied
    <2>2. t # u
      BY <1>1, <1>4, <1>5, <2>1 DEF Status
    <2> QED
      BY <1>2, <1>4, <2>1, <2>2
  <1>8. SameReached("transferCmd")
    BY <1>0, <1>2, <1>3 DEF SameReached, Reached
  <1>9. ASSUME NEW t \in Transfer
        PROVE  /\ Done("transferCmd", AckPayerFundsReservedCmd(t))' <=>
                     Done("transferCmd", AckPayerFundsReservedCmd(t))
               /\ Done("transferCmd", AckPayeeFundsCommittedCmd(t))' <=>
                     Done("transferCmd", AckPayeeFundsCommittedCmd(t))
    BY <1>0, <1>2, <1>8, AppliedNames, DoneStays
  <1>10. \A t \in Transfer : /\ Reaches(t, Known)' <=> Reaches(t, Known)
                             /\ Reaches(t, OnHold)' <=> Reaches(t, OnHold)
                             /\ Reaches(t, Fulfilled)' <=> Reaches(t, Fulfilled)
                             /\ Reaches(t, {"COMMITTED"})' <=> Reaches(t, {"COMMITTED"})
    BY <1>6
  <1>11. ASSUME NEW t \in Transfer
         PROVE  /\ Published(TransferPrepareAcceptedEvt(t))' <=>
                      Published(TransferPrepareAcceptedEvt(t))
                /\ Published(TransferFulfilAcceptedEvt(t))' <=>
                      Published(TransferFulfilAcceptedEvt(t))
                /\ Published(PayerFundsReservedEvt(t))' <=> Published(PayerFundsReservedEvt(t))
                /\ Published(PayeeFundsCommittedEvt(t))' <=> Published(PayeeFundsCommittedEvt(t))
    BY <1>2 DEF Published
  <1>12. refused' = refused
    BY <1>2
  <1> QED
    BY <1>7, <1>9, <1>10, <1>11, <1>12, Zenon DEF Applied

\* A command that is taken goes on to store the status it asks for, or finds that
\* the transfer has it already.
Advances(q, i, u) ==
    \E step \in Step, write \in Status :
        /\ GoOn("transferCmd", q, i, step, write)
        /\ \/ UNCHANGED log
           \/ \E e \in Message :
                 /\ Publish(e)
                 /\ e.name # "TransferPrepareAcceptedEvt"
                 /\ e.name # "TransferFulfilAcceptedEvt"
           \/ /\ step = "store" /\ write = "RECEIVED_FULFIL"
              /\ Publish(TransferFulfilAcceptedEvt(u))
        /\ log[q][i] = AckPayerFundsReservedCmd(u) =>
              status[u] \in OnHold \/ (step = "store" /\ write = "RESERVED")
        /\ log[q][i] = AckPayeeFundsCommittedCmd(u) =>
              status[u] = "COMMITTED" \/ (step = "store" /\ write = "COMMITTED")
        /\ step = "store" /\ write \in OnHold => Published(PayerFundsReservedEvt(u))
        /\ step = "store" /\ write = "COMMITTED" => Published(PayeeFundsCommittedEvt(u))
        /\ refused' \subseteq refused \union {u}
        /\ u \in refused' => status[u] = "RESERVED" /\ step # "store"

LEMMA RunAdvances ==
    ASSUME MoveInv, Applied, NEW q \in Reads("transferCmd"), NEW i \in DOMAIN log[q],
           RunTransferCmd(q, i), NEW u \in Transfer, u = log[q][i].t
    PROVE  Advances(q, i, u)
  <1>0. TypeInv /\ CauseInv /\ MessagesCaused /\ StatusInOrder /\ "transferCmd" \in Group
    BY HandlerFacts DEF MoveInv, CauseInv
  <1>1. PICK m : m = log[q][i]
    OBVIOUS
  <1>2. Take("transferCmd", q, i)
    BY DEF RunTransferCmd, PrepareTransfer, RefuseTransferCmd,
       AckPayerFundsReserved, Fulfil, AckPayeeFundsCommitted, TakeAdvance
  <1>3. m \in Message /\ m.t = u /\ hand["transferCmd"] = NoHand /\ Published(m) /\ Caused(m)
    BY <1>0, <1>1, <1>2, TakeFacts, PublishedHere DEF Reads, MessagesCaused
  <1>4. \A S : Reaches(u, S) <=> status[u] \in S
    BY <1>3 DEF Reaches, Storing
  <1>5. /\ Published(TransferPrepareAcceptedEvt(u)) => status[u] \in Known
        /\ Published(TransferFulfilAcceptedEvt(u)) => status[u] \in Fulfilled
        /\ status[u] \in OnHold => Published(PayerFundsReservedEvt(u))
        /\ u \in refused => status[u] = "RESERVED"
    BY <1>4 DEF Applied
  <1>6. m.name = "AckPayerFundsReservedCmd" =>
           Published(PayerFundsReservedEvt(u)) /\ status[u] \in Known
    <2>1. m.name = "AckPayerFundsReservedCmd" => Published(AckPayerFundsReservedCmd(u))
      BY <1>3 DEF Caused
    <2> QED
      BY <1>0, <1>5, <2>1, Chain
  <1>7. m.name = "AckPayeeFundsCommittedCmd" =>
           /\ Published(PayerFundsReservedEvt(u)) /\ Published(PayeeFundsCommittedEvt(u))
           /\ status[u] \in Fulfilled
    <2>1. m.name = "AckPayeeFundsCommittedCmd" => Published(AckPayeeFundsCommittedCmd(u))
      BY <1>3 DEF Caused
    <2> QED
      BY <1>0, <1>5, <2>1, Chain
  <1>8. /\ m = AckPayerFundsReservedCmd(u) => m.name = "AckPayerFundsReservedCmd"
        /\ m = AckPayeeFundsCommittedCmd(u) => m.name = "AckPayeeFundsCommittedCmd"
    BY DEF AckPayerFundsReservedCmd, AckPayeeFundsCommittedCmd, Msg
  <1>9. /\ {"send", "store", "commit"} = Step
        /\ {"none", "RECEIVED_PREPARE", "RESERVED", "RECEIVED_FULFIL", "COMMITTED"} = Status
        /\ status[u] \in Status
    BY <1>0 DEF Step, Status, TypeInv, TypeOK
  <1>10. /\ DuplicateTransferDetectedEvt(u) \in Message
         /\ TransferNotFoundEvt(u) \in Message
         /\ InvalidTransferEvt(u) \in Message
         /\ TransferPreparedEvt(u) \in Message
         /\ TransferFulfilledEvt(u) \in Message
         /\ DuplicateTransferDetectedEvt(u).name = "DuplicateTransferDetectedEvt"
         /\ TransferNotFoundEvt(u).name = "TransferNotFoundEvt"
         /\ InvalidTransferEvt(u).name = "InvalidTransferEvt"
         /\ TransferPreparedEvt(u).name = "TransferPreparedEvt"
         /\ TransferFulfilledEvt(u).name = "TransferFulfilledEvt"
    BY MessageTypes DEF DuplicateTransferDetectedEvt, TransferNotFoundEvt, InvalidTransferEvt,
       TransferPreparedEvt, TransferFulfilledEvt, Msg
  <1>11. CASE PrepareTransfer(q, i)
    <2>1. /\ \/ GoOn("transferCmd", q, i, "send", "RECEIVED_PREPARE") /\ UNCHANGED log
             \/ GoOn("transferCmd", q, i, "commit", "none")
                /\ Publish(DuplicateTransferDetectedEvt(u))
          /\ refused' = refused
          /\ m.name = "PrepareTransferCmd"
      BY <1>1, <1>11 DEF PrepareTransfer
    <2> QED
      BY <1>1, <1>5, <1>8, <1>9, <1>10, <2>1 DEF Advances
  <1>12. CASE RefuseTransferCmd(q, i)
    <2>1. /\ GoOn("transferCmd", q, i, "commit", "none")
          /\ Publish(TransferNotFoundEvt(u)) \/ Publish(InvalidTransferEvt(u))
          /\ refused' = refused
          /\ Loaded(u) # Expected(m)
      BY <1>1, <1>12 DEF RefuseTransferCmd, Rule
    <2>2. m.name = "AckPayerFundsReservedCmd" => status[u] \in OnHold
      BY <1>5, <1>6, <2>1 DEF Loaded, Expected, Known, OnHold
    <2>3. m.name = "AckPayeeFundsCommittedCmd" => status[u] = "COMMITTED"
      BY <1>5, <1>7, <2>1 DEF Loaded, Expected, Fulfilled
    <2> QED
      BY <1>1, <1>5, <1>8, <1>9, <1>10, <2>1, <2>2, <2>3 DEF Advances
  <1>13. CASE AckPayerFundsReserved(q, i)
    <2>1. /\ GoOn("transferCmd", q, i, "store", "RESERVED")
          /\ Publish(TransferPreparedEvt(u))
          /\ refused' = refused
          /\ Loaded(u) = "RECEIVED_PREPARE"
          /\ m.name = "AckPayerFundsReservedCmd"
      BY <1>1, <1>13 DEF AckPayerFundsReserved, Rule
    <2>2. u \notin refused
      BY <2>1 DEF Loaded
    <2> QED
      BY <1>1, <1>6, <1>8, <1>9, <1>10, <2>1, <2>2 DEF Advances
  <1>14. CASE Fulfil(q, i)
    <2>1. /\ \/ /\ GoOn("transferCmd", q, i, "store", "RECEIVED_FULFIL")
                /\ Publish(TransferFulfilAcceptedEvt(u))
                /\ refused' = refused
             \/ /\ GoOn("transferCmd", q, i, "commit", "none")
                /\ Publish(InvalidTransferEvt(u))
                /\ refused' \subseteq refused \union {u}
          /\ Loaded(u) = "RESERVED"
          /\ m.name = "FulfilTransferCmd"
      BY <1>1, <1>14 DEF Fulfil, Rule
    <2>2. u \notin refused /\ status[u] = "RESERVED" /\ Published(PayerFundsReservedEvt(u))
      BY <1>5, <2>1 DEF Loaded, OnHold
    <2> QED
      BY <1>1, <1>8, <1>9, <1>10, <2>1, <2>2 DEF Advances
  <1>15. CASE AckPayeeFundsCommitted(q, i)
    <2>1. /\ GoOn("transferCmd", q, i, "store", "COMMITTED")
          /\ Publish(TransferFulfilledEvt(u))
          /\ refused' = refused
          /\ Loaded(u) = "RECEIVED_FULFIL"
          /\ m.name = "AckPayeeFundsCommittedCmd"
      BY <1>1, <1>15 DEF AckPayeeFundsCommitted, Rule
    <2>2. u \notin refused
      BY <2>1 DEF Loaded
    <2> QED
      BY <1>1, <1>7, <1>8, <1>9, <1>10, <2>1, <2>2 DEF Advances
  <1> QED
    BY <1>11, <1>12, <1>13, <1>14, <1>15 DEF RunTransferCmd

LEMMA AppliedRun ==
    ASSUME MoveInv, Applied, NEW q \in Reads("transferCmd"), NEW i \in DOMAIN log[q],
           RunTransferCmd(q, i)
    PROVE  Applied'
  <1>0. TypeInv /\ "transferCmd" \in Group
    BY HandlerFacts DEF MoveInv, CauseInv
  <1>1. Take("transferCmd", q, i) /\ UNCHANGED <<setting, offset, status>>
    BY DEF RunTransferCmd, PrepareTransfer, RefuseTransferCmd,
       AckPayerFundsReserved, Fulfil, AckPayeeFundsCommitted, TakeAdvance, Rule
  <1>2. PICK m \in Message, u \in Transfer : m = log[q][i] /\ u = m.t
    BY <1>0, <1>1, TakeFacts
  <1>3. hand["transferCmd"] = NoHand
    BY <1>1 DEF Take
  <1>4. PICK step \in Step, write \in Status :
           /\ GoOn("transferCmd", q, i, step, write)
           /\ \/ UNCHANGED log
              \/ \E e \in Message :
                    /\ Publish(e)
                    /\ e.name # "TransferPrepareAcceptedEvt"
                    /\ e.name # "TransferFulfilAcceptedEvt"
              \/ /\ step = "store" /\ write = "RECEIVED_FULFIL"
                 /\ Publish(TransferFulfilAcceptedEvt(u))
           /\ m = AckPayerFundsReservedCmd(u) =>
                 status[u] \in OnHold \/ (step = "store" /\ write = "RESERVED")
           /\ m = AckPayeeFundsCommittedCmd(u) =>
                 status[u] = "COMMITTED" \/ (step = "store" /\ write = "COMMITTED")
           /\ step = "store" /\ write \in OnHold => Published(PayerFundsReservedEvt(u))
           /\ step = "store" /\ write = "COMMITTED" => Published(PayeeFundsCommittedEvt(u))
           /\ refused' \subseteq refused \union {u}
           /\ u \in refused' => status[u] = "RESERVED" /\ step # "store"
    BY <1>2, RunAdvances DEF Advances
  <1>5. Grows
    BY <1>0, <1>4, AppliedNames, PublishGrows, UnchangedGrows
  <1>6. /\ hand'["transferCmd"] # NoHand
        /\ hand'["transferCmd"].queue = q /\ hand'["transferCmd"].at = i
        /\ hand'["transferCmd"].step = step /\ hand'["transferCmd"].write = write
    <2>1. write \in WriteOf("transferCmd")
      BY DEF WriteOf
    <2>2. /\ hand'["transferCmd"] # NoHand
          /\ hand'["transferCmd"] = [queue |-> q, at |-> i, step |-> step, write |-> write]
      BY <1>0, <1>1, <1>4, <1>5, <2>1, TakeCore
    <2> QED
      BY <2>2
  <1>7. InHand("transferCmd")' = m
    BY <1>0, <1>2, <1>5, <1>6, TakenInHand
  <1>8. ASSUME NEW t \in Transfer, NEW w
        PROVE  /\ ~Storing(t, {"store"}, w)
               /\ Storing(t, {"store"}, w)' <=> step = "store" /\ w = write /\ t = u
    BY <1>2, <1>3, <1>6, <1>7 DEF Storing
  <1>9. ASSUME NEW t \in Transfer, NEW S
        PROVE  /\ Reaches(t, S) <=> status[t] \in S
               /\ Reaches(t, S)' <=> status[t] \in S \/ (step = "store" /\ t = u /\ write \in S)
    BY <1>1, <1>8 DEF Reaches
  <1>10. ASSUME NEW t \in Transfer
         PROVE  /\ Published(TransferPrepareAcceptedEvt(t))' =>
                      Published(TransferPrepareAcceptedEvt(t))
                /\ Published(TransferFulfilAcceptedEvt(t))' =>
                      \/ Published(TransferFulfilAcceptedEvt(t))
                      \/ t = u /\ step = "store" /\ write = "RECEIVED_FULFIL"
    <2>1. CASE UNCHANGED log
      BY <2>1 DEF Published
    <2>2. ASSUME NEW e \in Message, Publish(e),
                 /\ e.name # "TransferPrepareAcceptedEvt"
                 /\ \/ e.name # "TransferFulfilAcceptedEvt"
                    \/ /\ e = TransferFulfilAcceptedEvt(u)
                       /\ step = "store" /\ write = "RECEIVED_FULFIL"
          PROVE  /\ Published(TransferPrepareAcceptedEvt(t))' =>
                       Published(TransferPrepareAcceptedEvt(t))
                 /\ Published(TransferFulfilAcceptedEvt(t))' =>
                       \/ Published(TransferFulfilAcceptedEvt(t))
                       \/ t = u /\ step = "store" /\ write = "RECEIVED_FULFIL"
      <3>1. /\ e # TransferPrepareAcceptedEvt(t)
            /\ e = TransferFulfilAcceptedEvt(t) =>
                  t = u /\ step = "store" /\ write = "RECEIVED_FULFIL"
        BY <2>2, AppliedNames
      <3> QED
        BY <1>0, <2>2, <3>1, AppliedNames, PublishedAfter
    <2>3. TransferFulfilAcceptedEvt(u).name # "TransferPrepareAcceptedEvt"
      BY AppliedNames
    <2> QED
      BY <1>4, <2>1, <2>2, <2>3, AppliedNames
  <1>11. ASSUME NEW t \in Transfer
         PROVE  /\ Published(PayerFundsReservedEvt(t)) => Published(PayerFundsReservedEvt(t))'
                /\ Published(PayeeFundsCommittedEvt(t)) => Published(PayeeFundsCommittedEvt(t))'
    BY <1>0, <1>5, AppliedNames, PublishedKept
  <1>12. ASSUME NEW t \in Transfer
         PROVE  /\ Done("transferCmd", AckPayerFundsReservedCmd(t))' =>
                      \/ Done("transferCmd", AckPayerFundsReservedCmd(t))
                      \/ t = u /\ m = AckPayerFundsReservedCmd(u)
                /\ Done("transferCmd", AckPayeeFundsCommittedCmd(t))' =>
                      \/ Done("transferCmd", AckPayeeFundsCommittedCmd(t))
                      \/ t = u /\ m = AckPayeeFundsCommittedCmd(u)
    <2>1. /\ m = AckPayerFundsReservedCmd(t) => t = u
          /\ m = AckPayeeFundsCommittedCmd(t) => t = u
      BY <1>2 DEF AckPayerFundsReservedCmd, AckPayeeFundsCommittedCmd, Msg
    <2>2. /\ Done("transferCmd", AckPayerFundsReservedCmd(t))' =>
                Done("transferCmd", AckPayerFundsReservedCmd(t)) \/ m = AckPayerFundsReservedCmd(t)
          /\ Done("transferCmd", AckPayeeFundsCommittedCmd(t))' =>
                Done("transferCmd", AckPayeeFundsCommittedCmd(t)) \/ m = AckPayeeFundsCommittedCmd(t)
      BY <1>0, <1>1, <1>2, <1>5, <1>6, DoneTaken, AppliedNames, EventNames
    <2> QED
      BY <2>1, <2>2
  <1> SUFFICES ASSUME NEW t \in Transfer
               PROVE  /\ Published(TransferPrepareAcceptedEvt(t))' => Reaches(t, Known)'
                      /\ Published(TransferFulfilAcceptedEvt(t))' => Reaches(t, Fulfilled)'
                      /\ Done("transferCmd", AckPayerFundsReservedCmd(t))' => Reaches(t, OnHold)'
                      /\ Done("transferCmd", AckPayeeFundsCommittedCmd(t))' =>
                            Reaches(t, {"COMMITTED"})'
                      /\ Reaches(t, OnHold)' => Published(PayerFundsReservedEvt(t))'
                      /\ Reaches(t, {"COMMITTED"})' => Published(PayeeFundsCommittedEvt(t))'
                      /\ t \in refused' => /\ status'[t] = "RESERVED"
                                           /\ ~Storing(t, {"store"}, "RECEIVED_FULFIL")'
    BY DEF Applied
  <1>13. Published(TransferPrepareAcceptedEvt(t))' => Reaches(t, Known)'
    BY <1>9, <1>10 DEF Applied
  <1>14. Published(TransferFulfilAcceptedEvt(t))' => Reaches(t, Fulfilled)'
    BY <1>9, <1>10 DEF Applied, Fulfilled
  <1>15. Done("transferCmd", AckPayerFundsReservedCmd(t))' => Reaches(t, OnHold)'
    BY <1>4, <1>9, <1>12 DEF Applied, OnHold
  <1>16. Done("transferCmd", AckPayeeFundsCommittedCmd(t))' => Reaches(t, {"COMMITTED"})'
    BY <1>4, <1>9, <1>12 DEF Applied
  <1>17. Reaches(t, OnHold)' => Published(PayerFundsReservedEvt(t))'
    BY <1>4, <1>9, <1>11 DEF Applied
  <1>18. Reaches(t, {"COMMITTED"})' => Published(PayeeFundsCommittedEvt(t))'
    BY <1>4, <1>9, <1>11 DEF Applied
  <1>19. t \in refused' => status'[t] = "RESERVED" /\ ~Storing(t, {"store"}, "RECEIVED_FULFIL")'
    BY <1>1, <1>4, <1>8 DEF Applied
  <1> QED
    BY <1>13, <1>14, <1>15, <1>16, <1>17, <1>18, <1>19

--------------------------------------------------------------------------------
(* The invariant holds *)

Moving == {"PayerFundsReservedEvt", "PayeeFundsCommittedEvt", "TransferPrepareAcceptedEvt",
           "TransferFulfilAcceptedEvt"}

LEMMA InitHalvesInv == Init => HalvesInv
  <1> SUFFICES ASSUME Init PROVE HalvesInv
    OBVIOUS
  <1>1. MoveInv /\ {"transferEvt", "transferCmd", "participantCmd"} \subseteq Group
    BY InitMoveInv, HandlerFacts
  <1>2. \A m \in Message : ~Published(m)
    BY DEF Init, Published, Message
  <1>3. ASSUME NEW g \in Group, NEW m \in Message PROVE ~Done(g, m)
    <2>1. Reached(g, m.queue) = 0
      BY DEF Init, Reached, Message
    <2> QED
      BY <2>1 DEF Done
  <1>4. ASSUME NEW x \in Participant
        PROVE  PositionNow(x) = SumFunctionOnSet([t \in Transfer |-> Moved(t, x)], Transfer)
    <2>1. PositionNow(x) = 0
      BY <1>1 DEF Init, PositionNow
    <2>2. \A t \in Transfer : Moved(t, x) = 0
      BY <1>2, AppliedNames DEF Moved
    <2>3. PICK f : f = [t \in Transfer |-> Moved(t, x)]
      OBVIOUS
    <2>4. IsFiniteSet(Transfer) /\ \A t \in Transfer : f[t] = 0
      BY <2>2, <2>3, SwitchAssumption
    <2>5. SumFunctionOnSet(f, Transfer) = 0
      BY <2>4, SumOfNothing
    <2> QED
      BY <2>1, <2>3, <2>5
  <1>5. Ledger
    BY <1>4 DEF Ledger
  <1>6. Relayed
    BY <1>1, <1>3, AppliedNames DEF Relayed
  <1>7. ASSUME NEW t \in Transfer, NEW S \in {OnHold, {"COMMITTED"}} PROVE ~Reaches(t, S)
    BY <1>1 DEF Init, Reaches, Storing, OnHold
  <1>8. Applied
    <2>1. refused = {}
      BY DEF Init
    <2> QED
      BY <1>1, <1>2, <1>3, <1>7, <2>1, AppliedNames DEF Applied
  <1> QED
    BY <1>1, <1>5, <1>6, <1>8 DEF HalvesInv

LEMMA HalvesStep == HalvesInv /\ [Next]_vars => HalvesInv'
  <1> SUFFICES ASSUME HalvesInv, [Next]_vars PROVE HalvesInv'
    OBVIOUS
  <1>0. /\ MoveInv /\ MoveInv' /\ TypeInv /\ TypeInv'
        /\ {"transferEvt", "transferCmd", "participantCmd"} \subseteq Group
    BY MoveStep, HandlerFacts DEF HalvesInv, MoveInv, CauseInv
  <1> DEFINE Agree == Ledger /\ Relayed /\ Applied
  <1> SUFFICES ASSUME faults'.count = 0 PROVE Agree'
    BY <1>0 DEF HalvesInv
  \* Nothing has failed, and nothing fails in this step.
  <1>n. ~\E kind : Failure(kind)
    <2>1. faults.count \in Nat
      BY <1>0 DEF TypeInv, TypeOK
    <2> QED
      BY <2>1 DEF Failure
  <1>f. ~Fail /\ \A t \in Transfer : ~CreateTransferLost(t)
    BY <1>n DEF Fail, RelayFails, NotifyFails, StopTransfers, StopParticipants, StopSimulator,
       StopAdapter, Drop, CreateTransferLost
  \* A step that moves no funds and advances no transfer.
  <1>a. ASSUME Agree, SameReached("transferEvt"), SameReached("transferCmd"), TaskSame,
               UNCHANGED <<status, refused>>,
               \A x \in Participant : PositionNow(x)' = PositionNow(x),
               NEW names, Says(names), names \intersect Moving = {}
        PROVE  Agree'
    <2>1. Grows
      BY <1>0, <1>a, SaysGrows
    <2>2. /\ "PayerFundsReservedEvt" \notin names /\ "PayeeFundsCommittedEvt" \notin names
          /\ "TransferPrepareAcceptedEvt" \notin names /\ "TransferFulfilAcceptedEvt" \notin names
      BY <1>a DEF Moving
    <2>3. Ledger'
      BY <1>0, <1>a, <2>2, LedgerKept
    <2>4. Relayed'
      BY <1>0, <1>a, <2>1, RelayedKept
    <2>5. Applied'
      BY <1>0, <1>a, <2>1, <2>2, AppliedKept
    <2> QED
      BY <2>3, <2>4, <2>5
  <1>b. ASSUME NEW g \in Group, UNCHANGED offset, hand'[g] = hand[g]
        PROVE  SameReached(g)
    BY <1>b DEF SameReached, Reached
  <1>c. ASSUME UNCHANGED position, hand'["participantCmd"] = hand["participantCmd"]
        PROVE  \A x \in Participant : PositionNow(x)' = PositionNow(x)
    BY <1>c DEF PositionNow
  <1>d. ASSUME NEW names, Says(names), names \intersect Moving = {}, Agree,
               UNCHANGED <<offset, status, refused, position>>,
               \A g \in {"transferEvt", "transferCmd", "participantCmd"} : hand'[g] = hand[g]
        PROVE  Agree'
    <2>1. Grows
      BY <1>0, <1>d, SaysGrows
    <2>2. SameReached("transferEvt") /\ SameReached("transferCmd")
      BY <1>0, <1>b, <1>d
    <2>3. TaskSame
      BY <1>0, <1>d, <2>1, TaskKept
    <2>4. \A x \in Participant : PositionNow(x)' = PositionNow(x)
      BY <1>c, <1>d
    <2> QED
      BY <1>a, <1>d, <2>2, <2>3, <2>4
  <1>1. ASSUME Agree, NEW t \in Transfer, Fsp(t) PROVE Agree'
    <2>1. UNCHANGED <<offset, hand, status, refused, position>>
      BY <1>1 DEF Fsp, CreateTransfer, CreateTransferLost, Requested, FulfilTransfer,
         FulfilTransferError, Answered, GetTransferById, cmdVars
    <2>2. Says({"TransferPrepareRequestedEvt", "TransferFulfilRequestedEvt"})
      <3>1. TransferPrepareRequestedEvt(t).name = "TransferPrepareRequestedEvt"
        BY DEF TransferPrepareRequestedEvt, Msg
      <3>2. \A how \in Answers :
               TransferFulfilRequestedEvt(t, how).name = "TransferFulfilRequestedEvt"
        BY DEF TransferFulfilRequestedEvt, Msg
      <3> QED
        BY <1>1, <3>1, <3>2, MessageTypes DEF Says, Fsp, CreateTransfer, CreateTransferLost,
           FulfilTransfer, FulfilTransferError, GetTransferById
    <2>3. {"TransferPrepareRequestedEvt", "TransferFulfilRequestedEvt"} \intersect Moving = {}
      BY DEF Moving
    <2> QED
      BY <1>1, <1>d, <2>1, <2>2, <2>3
  <1>2. ASSUME Agree, NEW q \in Reads("transferEvt"), NEW i \in DOMAIN log[q],
               HandleTransferEvt(q, i)
        PROVE  Agree'
    <2>1. PICK e : e = TransferCmdFor(log[q][i])
      OBVIOUS
    <2>2. log[q][i] \in Message /\ log[q][i].name \in TransferEvtHandler.names
      BY <1>0, <1>2, TakeFacts, HandlerFacts DEF HandleTransferEvt
    <2>3. e \in Message /\ e.name \notin Moving
      BY <2>1, <2>2, TransferCmdForType
         DEF TransferCmdFor, TransferEvtHandler, PrepareTransferCmd, FulfilTransferCmd,
             AckPayerFundsReservedCmd, AckPayeeFundsCommittedCmd, Msg, Moving
    <2>4. /\ UNCHANGED <<offset, status, refused, position>> /\ Publish(e)
          /\ hand'["transferCmd"] = hand["transferCmd"]
          /\ hand'["participantCmd"] = hand["participantCmd"]
      BY <1>0, <1>2, <2>1 DEF HandleTransferEvt, RelayStep, GoOn, cmdVars, TypeInv
    <2>5. Says({e.name}) /\ Grows
      BY <1>0, <2>3, <2>4, PublishGrows DEF Says
    <2>6. Ledger'
      <3>1. "PayerFundsReservedEvt" \notin {e.name} /\ "PayeeFundsCommittedEvt" \notin {e.name}
        BY <2>3 DEF Moving
      <3> QED
        BY <1>0, <1>2, <1>c, <2>4, <2>5, <3>1, LedgerKept
    <2>7. Relayed'
      BY <1>0, <1>2, RelayedRun
    <2>8. Applied'
      <3>1. /\ "TransferPrepareAcceptedEvt" \notin {e.name}
            /\ "TransferFulfilAcceptedEvt" \notin {e.name}
        BY <2>3 DEF Moving
      <3>2. SameReached("transferCmd") /\ TaskSame
        BY <1>0, <1>b, <2>4, <2>5, TaskKept
      <3> QED
        BY <1>0, <1>2, <2>4, <2>5, <3>1, <3>2, AppliedKept
    <2> QED
      BY <2>6, <2>7, <2>8
  <1>3. ASSUME Agree, NEW q \in Reads("simulatorEvt"), NEW i \in DOMAIN log[q],
               HandleSimulatorEvt(q, i)
        PROVE  Agree'
    <2>1. log[q][i].t \in Transfer
      BY <1>0, <1>3, TakeFacts, HandlerFacts DEF HandleSimulatorEvt
    <2>2. \A t \in Transfer : \A how \in Answers :
             /\ TransferFulfilRequestedEvt(t, how) \in Message
             /\ TransferFulfilRequestedEvt(t, how).name = "TransferFulfilRequestedEvt"
      BY MessageTypes DEF TransferFulfilRequestedEvt, Msg
    <2>3. /\ UNCHANGED <<offset, status, refused, position>>
          /\ Says({"TransferFulfilRequestedEvt"})
          /\ \A g \in Group \ {"simulatorEvt"} : hand'[g] = hand[g]
      BY <1>0, <1>3, <2>1, <2>2 DEF HandleSimulatorEvt, GoOn, cmdVars, TypeInv, Answers, Says
    <2>4. {"TransferFulfilRequestedEvt"} \intersect Moving = {}
      BY DEF Moving
    <2> QED
      BY <1>0, <1>3, <1>d, <2>3, <2>4
  <1>4. ASSUME Agree,
               \/ \E q \in Reads("notification") : \E i \in DOMAIN log[q] : NotifyFirst(q, i)
               \/ NotifyPayee
        PROVE  Agree'
    <2>1. /\ UNCHANGED <<log, offset, status, refused, position>>
          /\ \A g \in Group \ {"notification"} : hand'[g] = hand[g]
      BY <1>0, <1>4 DEF NotifyFirst, NotifyPayee, NotifyStep, GoOn, Proceed, cmdVars, TypeInv
    <2>2. Says({})
      BY <2>1 DEF Says
    <2> QED
      BY <1>0, <1>4, <1>d, <2>1, <2>2
  <1>5. ASSUME Agree, NEW q \in Reads("participantEvt"), NEW i \in DOMAIN log[q],
               HandleParticipantEvt(q, i)
        PROVE  Agree'
    <2>1. PICK m, e : m = log[q][i] /\ e = ParticipantCmdFor(m)
      OBVIOUS
    <2>2. m \in Message /\ m.name \in ParticipantEvtHandler.names
      BY <1>0, <1>5, <2>1, TakeFacts, HandlerFacts DEF HandleParticipantEvt
    <2>3. e \in Message /\ e.name \in {"ReservePayerFundsCmd", "CommitPayeeFundsCmd"}
      BY <2>1, <2>2, ParticipantCmdForType
         DEF ParticipantCmdFor, ReservePayerFundsCmd, CommitPayeeFundsCmd, Msg
    <2>4. /\ UNCHANGED <<offset, status, refused, position>>
          /\ Publish(e) \/ UNCHANGED log
          /\ \A g \in Group \ {"participantEvt"} : hand'[g] = hand[g]
      BY <1>0, <1>5, <2>1 DEF HandleParticipantEvt, RelayStep, GoOn, cmdVars, TypeInv
    <2>5. Says({"ReservePayerFundsCmd", "CommitPayeeFundsCmd"})
      BY <2>3, <2>4 DEF Says
    <2>6. {"ReservePayerFundsCmd", "CommitPayeeFundsCmd"} \intersect Moving = {}
      BY DEF Moving
    <2> QED
      BY <1>0, <1>5, <1>d, <2>4, <2>5, <2>6
  \* The participants command handler moves the funds.
  <1>6. ASSUME Agree, \/ \E q \in Reads("participantCmd") : \E i \in DOMAIN log[q] :
                            RunParticipantCmd(q, i)
                      \/ StoreParticipant
        PROVE  Agree'
    <2>1. Ledger'
      BY <1>0, <1>6, LedgerRun, LedgerStored
    <2>2. /\ UNCHANGED <<offset, status, refused>>
          /\ \A g \in Group \ {"participantCmd"} : hand'[g] = hand[g]
      BY <1>0, <1>6 DEF RunParticipantCmd, ReservePayerFunds, CommitPayeeFunds, Move, GoOn,
         StoreParticipant, Proceed, cmdVars, TypeInv
    <2>3. \E names : Says(names) /\ "TransferPrepareAcceptedEvt" \notin names
                                 /\ "TransferFulfilAcceptedEvt" \notin names
      <3>1. CASE StoreParticipant
        <4>1. Says({})
          BY <3>1 DEF StoreParticipant, Says
        <4> QED
          BY <4>1
      <3>2. ASSUME NEW q \in Reads("participantCmd"), NEW i \in DOMAIN log[q],
                   RunParticipantCmd(q, i)
            PROVE  Says({"PayerFundsReservedEvt", "PayeeFundsCommittedEvt",
                         "NetCapLimitExceededEvt", "InvalidParticipantEvt"})
        <4>1. PICK u \in Transfer : u = log[q][i].t
          BY <1>0, <3>2, TakeFacts DEF RunParticipantCmd, ReservePayerFunds, CommitPayeeFunds
        <4>2. PICK x \in Participant : x = Payee[u]
          BY ConstantTypes
        <4>3. /\ PayerFundsReservedEvt(u) \in Message /\ PayeeFundsCommittedEvt(u) \in Message
              /\ NetCapLimitExceededEvt(u) \in Message /\ InvalidParticipantEvt(x, u) \in Message
          BY MessageTypes
        <4>4. /\ PayerFundsReservedEvt(u).name = "PayerFundsReservedEvt"
              /\ PayeeFundsCommittedEvt(u).name = "PayeeFundsCommittedEvt"
              /\ NetCapLimitExceededEvt(u).name = "NetCapLimitExceededEvt"
              /\ InvalidParticipantEvt(x, u).name = "InvalidParticipantEvt"
          BY DEF PayerFundsReservedEvt, PayeeFundsCommittedEvt, NetCapLimitExceededEvt,
             InvalidParticipantEvt, Msg
        <4>5. \/ Publish(PayerFundsReservedEvt(u)) \/ Publish(PayeeFundsCommittedEvt(u))
              \/ Publish(NetCapLimitExceededEvt(u)) \/ Publish(InvalidParticipantEvt(x, u))
          BY <3>2, <4>1, <4>2 DEF RunParticipantCmd, ReservePayerFunds, CommitPayeeFunds, Move
        <4> QED
          BY <4>3, <4>4, <4>5 DEF Says
      <3> QED
        BY <1>6, <3>1, <3>2
    <2>4. PICK names : Says(names) /\ "TransferPrepareAcceptedEvt" \notin names
                                   /\ "TransferFulfilAcceptedEvt" \notin names
      BY <2>3
    <2>5. Grows
      BY <1>0, <2>4, SaysGrows
    <2>6. SameReached("transferEvt") /\ SameReached("transferCmd") /\ TaskSame
      BY <1>0, <1>b, <2>2, <2>5, TaskKept
    <2>7. Relayed'
      BY <1>0, <1>6, <2>5, <2>6, RelayedKept
    <2>8. Applied'
      BY <1>0, <1>6, <2>2, <2>4, <2>5, <2>6, AppliedKept
    <2> QED
      BY <2>1, <2>7, <2>8
  \* The transfers command handler advances a transfer.
  <1>7. ASSUME Agree, \/ \E q \in Reads("transferCmd") : \E i \in DOMAIN log[q] :
                            RunTransferCmd(q, i)
                      \/ AcceptTransfer
                      \/ StoreTransfer
        PROVE  Agree'
    <2>1. Applied'
      BY <1>0, <1>7, AppliedRun, AppliedAccept, AppliedStored
    <2>2. /\ UNCHANGED <<offset, position>>
          /\ \A g \in Group \ {"transferCmd"} : hand'[g] = hand[g]
      BY <1>0, <1>7 DEF RunTransferCmd, PrepareTransfer, RefuseTransferCmd, AckPayerFundsReserved,
         Fulfil, AckPayeeFundsCommitted, Rule, AcceptTransfer, StoreTransfer, GoOn, Proceed,
         cmdVars, TypeInv
    <2>3. \E names : Says(names) /\ "PayerFundsReservedEvt" \notin names
                                 /\ "PayeeFundsCommittedEvt" \notin names
      <3>1. CASE StoreTransfer
        <4>1. Says({})
          BY <3>1 DEF StoreTransfer, Says
        <4> QED
          BY <4>1
      <3>2. CASE AcceptTransfer
        <4>1. PICK u \in Transfer : u = InHand("transferCmd").t
          BY <1>0, <3>2, HandFacts DEF AcceptTransfer
        <4>2. Says({"TransferPrepareAcceptedEvt"})
          BY <3>2, <4>1, AppliedNames DEF AcceptTransfer, Says
        <4> QED
          BY <4>2
      <3>3. ASSUME NEW q \in Reads("transferCmd"), NEW i \in DOMAIN log[q], RunTransferCmd(q, i)
            PROVE  \E names : Says(names) /\ "PayerFundsReservedEvt" \notin names
                                          /\ "PayeeFundsCommittedEvt" \notin names
        <4>1. PICK u \in Transfer : u = log[q][i].t
          BY <1>0, <3>3, TakeFacts DEF RunTransferCmd, PrepareTransfer, RefuseTransferCmd,
             AckPayerFundsReserved, Fulfil, AckPayeeFundsCommitted, TakeAdvance
        <4>2. /\ DuplicateTransferDetectedEvt(u) \in Message
              /\ TransferNotFoundEvt(u) \in Message
              /\ InvalidTransferEvt(u) \in Message
              /\ TransferPreparedEvt(u) \in Message
              /\ TransferFulfilAcceptedEvt(u) \in Message
              /\ TransferFulfilledEvt(u) \in Message
          BY MessageTypes
        <4>3. /\ DuplicateTransferDetectedEvt(u).name = "DuplicateTransferDetectedEvt"
              /\ TransferNotFoundEvt(u).name = "TransferNotFoundEvt"
              /\ InvalidTransferEvt(u).name = "InvalidTransferEvt"
              /\ TransferPreparedEvt(u).name = "TransferPreparedEvt"
              /\ TransferFulfilAcceptedEvt(u).name = "TransferFulfilAcceptedEvt"
              /\ TransferFulfilledEvt(u).name = "TransferFulfilledEvt"
          BY DEF DuplicateTransferDetectedEvt, TransferNotFoundEvt, InvalidTransferEvt,
             TransferPreparedEvt, TransferFulfilAcceptedEvt, TransferFulfilledEvt, Msg
        <4>4. \/ UNCHANGED log
              \/ Publish(DuplicateTransferDetectedEvt(u)) \/ Publish(TransferNotFoundEvt(u))
              \/ Publish(InvalidTransferEvt(u)) \/ Publish(TransferPreparedEvt(u))
              \/ Publish(TransferFulfilAcceptedEvt(u)) \/ Publish(TransferFulfilledEvt(u))
          BY <3>3, <4>1 DEF RunTransferCmd, PrepareTransfer, RefuseTransferCmd,
             AckPayerFundsReserved, Fulfil, AckPayeeFundsCommitted, Rule
        <4>5. Says({"DuplicateTransferDetectedEvt", "TransferNotFoundEvt", "InvalidTransferEvt",
                    "TransferPreparedEvt", "TransferFulfilAcceptedEvt", "TransferFulfilledEvt"})
          BY <4>2, <4>3, <4>4 DEF Says
        <4> QED
          BY <4>5
      <3> QED
        BY <1>7, <3>1, <3>2, <3>3
    <2>4. PICK names : Says(names) /\ "PayerFundsReservedEvt" \notin names
                                   /\ "PayeeFundsCommittedEvt" \notin names
      BY <2>3
    <2>5. Grows
      BY <1>0, <2>4, SaysGrows
    <2>6. Ledger'
      BY <1>0, <1>7, <1>c, <2>2, <2>4, LedgerKept
    <2>7. Relayed'
      BY <1>0, <1>7, <1>b, <2>2, <2>5, RelayedKept
    <2> QED
      BY <2>1, <2>6, <2>7
  <1>8. ASSUME Agree, NEW g \in Group, Commit(g) PROVE Agree'
    <2>1. /\ UNCHANGED <<log, status, refused, position>>
          /\ hand[g] # NoHand /\ hand[g].step = "commit"
          /\ hand' = [hand EXCEPT ![g] = NoHand]
      BY <1>8 DEF Commit, cmdVars
    <2>2. /\ hand'[g] = NoHand
          /\ \A h \in Group \ {g} : hand'[h] = hand[h]
      BY <1>0, <2>1 DEF TypeInv
    <2>3. Says({})
      BY <2>1 DEF Says
    <2>4. SameReached("transferEvt") /\ SameReached("transferCmd")
      BY <1>0, <1>8, CommitReached
    <2>5. TaskSame
      BY <1>0, <2>1, <2>2, TaskKept, UnchangedGrows
    <2>6. \A x \in Participant : PositionNow(x)' = PositionNow(x)
      BY <1>0, <2>1, <2>2 DEF PositionNow
    <2> QED
      BY <1>8, <1>a, <2>1, <2>3, <2>4, <2>5, <2>6
  <1>9. ASSUME Agree, UNCHANGED vars PROVE Agree'
    <2>1. UNCHANGED <<log, offset, hand, status, refused, position>>
      BY <1>9 DEF vars
    <2>2. Says({})
      BY <2>1 DEF Says
    <2> QED
      BY <1>9, <1>d, <2>1, <2>2
  <1>10. Agree
    <2>1. faults' = faults
      <3>1. ASSUME NEW t \in Transfer, Fsp(t) PROVE faults' = faults
        BY <1>f, <3>1 DEF Fsp, CreateTransfer, FulfilTransfer, FulfilTransferError, Answered,
           GetTransferById
      <3>2. CASE TransferEvt \/ ParticipantEvt \/ SimulatorEvt \/ Notification
        BY <3>2 DEF TransferEvt, ParticipantEvt, SimulatorEvt, Notification, HandleTransferEvt,
           HandleParticipantEvt, HandleSimulatorEvt, NotifyFirst, NotifyPayee
      <3>3. CASE TransferCmd
        BY <3>3 DEF TransferCmd, RunTransferCmd, PrepareTransfer, RefuseTransferCmd,
           AckPayerFundsReserved, Fulfil, AckPayeeFundsCommitted, Rule, AcceptTransfer,
           StoreTransfer
      <3>4. CASE ParticipantCmd
        BY <3>4 DEF ParticipantCmd, RunParticipantCmd, ReservePayerFunds, CommitPayeeFunds, Move,
           StoreParticipant
      <3>5. CASE \E g \in Group : Commit(g)
        BY <3>5 DEF Commit
      <3>6. CASE UNCHANGED vars
        BY <3>6 DEF vars
      <3> QED
        BY <1>f, <3>1, <3>2, <3>3, <3>4, <3>5, <3>6 DEF Next, Handle
    <2> QED
      BY <2>1 DEF HalvesInv
  <1> QED
    <2> HIDE DEF Agree
    <2>1. CASE Handle
      BY <1>2, <1>3, <1>4, <1>5, <1>6, <1>7, <1>10, <2>1
         DEF Handle, TransferEvt, ParticipantEvt, SimulatorEvt, Notification, TransferCmd,
             ParticipantCmd
    <2> QED
      BY <1>1, <1>8, <1>9, <1>10, <1>f, <2>1 DEF Next

LEMMA RestDone ==
    ASSUME TypeInv, AtRest, NEW g \in Group, Active(g), NEW m \in Message, m.queue \in Reads(g),
           m.name \in Handler[g].names, Published(m)
    PROVE  Done(g, m)
  <1>1. m.queue \in Queue /\ log[m.queue] \in Seq(Message) /\ offset[g][m.queue] \in Nat
    BY DEF Message, TypeInv, TypeOK
  <1>2. PICK i \in 1..Len(log[m.queue]) : log[m.queue][i] = m
    BY <1>1 DEF Published
  <1>3. /\ hand[g] = NoHand
        /\ \A k \in (offset[g][m.queue] + 1)..Len(log[m.queue]) :
              log[m.queue][k].name \notin Handler[g].names
    BY DEF AtRest
  <1>4. i \in 1..offset[g][m.queue]
    BY <1>1, <1>2, <1>3
  <1> QED
    BY <1>2, <1>3, <1>4 DEF Done, Reached

\* At rest what the events moved is what the statuses say is owed.
LEMMA HalvesInvAgree == HalvesInv => HalvesAgree
  <1> SUFFICES ASSUME HalvesInv, AtRest, faults.count = 0, NEW x \in Participant
               PROVE  position[x] = SumFunctionOnSet([t \in Transfer |-> Owes(t, x)], Transfer)
    BY DEF HalvesAgree
  <1>1. TypeInv /\ Ledger /\ Relayed /\ Applied
        /\ {"transferEvt", "transferCmd", "participantCmd"} \subseteq Group
    BY HandlerFacts DEF HalvesInv, MoveInv, CauseInv
  <1>2. Active("transferEvt") /\ Active("transferCmd") /\ Active("participantCmd")
    BY HandlerFacts DEF Active, TransferEvtHandler, TransferCmdHandler, ParticipantCmdHandler
  <1>3. hand["transferCmd"] = NoHand /\ hand["participantCmd"] = NoHand
    BY <1>1, <1>2 DEF AtRest
  <1>4. PositionNow(x) = position[x]
    BY <1>3 DEF PositionNow
  <1>5. ASSUME NEW t \in Transfer PROVE Moved(t, x) = Owes(t, x)
    <2>1. /\ PayerFundsReservedEvt(t).queue \in Reads("transferEvt")
          /\ PayeeFundsCommittedEvt(t).queue \in Reads("transferEvt")
          /\ AckPayerFundsReservedCmd(t).queue \in Reads("transferCmd")
          /\ AckPayeeFundsCommittedCmd(t).queue \in Reads("transferCmd")
      BY HandlerFacts DEF Reads, Queue, PayerFundsReservedEvt, PayeeFundsCommittedEvt,
         AckPayerFundsReservedCmd, AckPayeeFundsCommittedCmd, Msg, TransferEvtHandler,
         TransferCmdHandler
    <2>2. /\ Published(PayerFundsReservedEvt(t)) =>
                Done("transferEvt", PayerFundsReservedEvt(t))
          /\ Published(PayeeFundsCommittedEvt(t)) =>
                Done("transferEvt", PayeeFundsCommittedEvt(t))
          /\ Published(AckPayerFundsReservedCmd(t)) =>
                Done("transferCmd", AckPayerFundsReservedCmd(t))
          /\ Published(AckPayeeFundsCommittedCmd(t)) =>
                Done("transferCmd", AckPayeeFundsCommittedCmd(t))
      BY <1>1, <1>2, <2>1, AppliedNames, EventNames, RestDone
    <2>3. \A S : Reaches(t, S) <=> status[t] \in S
      BY <1>3 DEF Reaches, Storing
    <2>4. Published(PayerFundsReservedEvt(t)) <=> status[t] \in OnHold
      BY <1>1, <2>2, <2>3 DEF Relayed, Applied
    <2>5. Published(PayeeFundsCommittedEvt(t)) <=> status[t] = "COMMITTED"
      BY <1>1, <2>2, <2>3 DEF Relayed, Applied
    <2> QED
      BY <2>4, <2>5 DEF Moved, Owes, OnHold
  <1>6. [t \in Transfer |-> Moved(t, x)] = [t \in Transfer |-> Owes(t, x)]
    BY <1>5
  <1> QED
    BY <1>1, <1>4, <1>6 DEF Ledger

\* The two halves of the switch agree whenever they come to rest without a failure:
\* the positions the participants' handler stored are the sums of what the statuses
\* in the transfers' redis say is owed.
THEOREM HalvesMeet == Spec => []HalvesAgree
  <1>1. HalvesInv => HalvesAgree
    BY HalvesInvAgree
  <1> QED
    BY <1>1, InitHalvesInv, HalvesStep, PTL DEF Spec

================================================================================
