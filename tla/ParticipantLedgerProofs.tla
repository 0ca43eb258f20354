------------------------- MODULE ParticipantLedgerProofs -------------------------
(******************************************************************************)
(* Proofs about ParticipantLedger, for every value of its constants: while    *)
(* one process takes all commands of a participant, the participants command  *)
(* handler implements the ledger of NetDebitCap, its copies of a position are *)
(* the sum of what it granted, that sum stays under the cap, and no command   *)
(* is answered twice.                                                         *)
(******************************************************************************)
EXTENDS ParticipantLedger, ParticipantCommandsProofs, Sums

--------------------------------------------------------------------------------
(* The invariant *)

\* One process takes the commands of a participant, whichever partition they are
\* sent to; only reads and commits fail; and a test tool commits nothing, for
\* that would settle a transfer that nobody reserved.
Steady ==
    /\ FaultKinds \subseteq {"read", "commit"}
    /\ \A x \in Participant : InitialOwner[FundsPartition[x]] = InitialOwner[KeyPartition[x]]
    /\ \A c \in Direct : c.op = "Reserve"

\* That process.
Home(x) == InitialOwner[KeyPartition[x]]

Granted == {"PayerFundsReserved", "PayeeFundsCommitted"}

\* What is about to be published of participant x is what the ledger may do next.
Pending(p, x) ==
    \/ stateEvt[p] = "none" /\ evt[p] \notin Granted
    \/ /\ stateEvt[p] = "StateSnapshot" /\ evt[p] = "none"
       /\ root[p] = Standing(x) /\ Standing(x) # Absent
    \/ /\ stateEvt[p] = "CreatedState" /\ evt[p] = "ParticipantCreated"
       /\ Standing(x) = Absent /\ root[p] = InitialPosition[x]
    \/ /\ stateEvt[p] = "PositionChangedState" /\ evt[p] = "PayerFundsReserved"
       /\ cur[p].op = "Reserve"
       /\ Standing(x) # Absent /\ root[p] = Standing(x) + Amount[cur[p].t]
       /\ Amount[cur[p].t] > 0 /\ Limit[x] # Absent /\ root[p] < Limit[x]
       /\ memory[p][x] = root[p]
    \/ /\ stateEvt[p] = "PositionChangedState" /\ evt[p] = "PayeeFundsCommitted"
       /\ cur[p].op = "Commit"
       /\ Standing(x) # Absent /\ root[p] = Standing(x) - Amount[cur[p].t]
       /\ memory[p][x] = root[p]

\* A process has loaded, or has published, what the ledger says.
HandAgrees(p, x) ==
    /\ Home(x) = p
    /\ pc[p] # "republish"
    /\ cur[p].op = "Commit" => Reservations(cur[p].t) > 0
    /\ pc[p] = "handle" => root[p] = Standing(x) /\ (root[p] # Absent => memory[p][x] = root[p])
    /\ pc[p] = "publish" => Pending(p, x)
    /\ pc[p] = "store" => root[p] = Standing(x)

Changing(p, x) == pc[p] = "publish" /\ stateEvt[p] = "PositionChangedState" /\ Root(cur[p]) = x
Storing(p, x)  == pc[p] = "store" /\ Root(cur[p]) = x

\* Redis and the memory of the process that takes x's commands follow the ledger
\* but for the command in hand; of what the ledger does not know there is no copy.
CopiesAgree(x) ==
    /\ Standing(x) = Absent => /\ redis[x] = Absent /\ snapshots[x] = <<>>
                               /\ \A p \in Proc : memory[p][x] = Absent
    /\ redis[x] = Standing(x) \/ \E p \in Proc : Storing(p, x)
    /\ memory[Home(x)][x] \in {Absent, Standing(x)} \/ \E p \in Proc : Changing(p, x)

CommitsReserved ==
    \A q \in Partition : \A i \in DOMAIN topic[q] :
        topic[q][i].op = "Commit" => Reservations(topic[q][i].t) > 0

LedgerCore ==
    /\ owner = InitialOwner
    /\ CommitsReserved
    /\ \A p \in Proc : Busy(p) => HandAgrees(p, Root(cur[p]))
    /\ \A x \in Participant : CopiesAgree(x)

LedgerInv == TypeInv /\ Placed /\ LedgerCore

--------------------------------------------------------------------------------
(* Facts about what stands *)

LEMMA StandingType ==
    ASSUME TypeInv, NEW x \in Participant
    PROVE  /\ Standing(x) \in MaybePos
           /\ Opened(x) <=> Standing(x) # Absent
           /\ Opened(x) => Standing(x) = Current(x) /\ Current(x) \in Int
  <1>1. stateLog[x] \in Seq(Int)
    BY DEF TypeInv, TypeOK, Pos
  <1>2. Opened(x) => Current(x) \in Int
    BY <1>1 DEF Opened, Current
  <1> QED
    BY <1>2, ConstantTypes DEF Standing, MaybePos, Pos

LEMMA StandingKept ==
    ASSUME UNCHANGED stateLog
    PROVE  \A x : Standing(x)' = Standing(x)
  BY DEF Standing, Opened, Current

LEMMA ReservationsKept ==
    ASSUME UNCHANGED domainLog
    PROVE  \A t : Reservations(t)' = Reservations(t) /\ Commitments(t)' = Commitments(t)
  BY DEF Reservations, Commitments

\* A step that leaves the logs alone is none of the ledger's.
LEMMA LedgerStands ==
    ASSUME UNCHANGED <<stateLog, domainLog>>
    PROVE  UNCHANGED Ledger!vars
  BY StandingKept, ReservationsKept DEF Ledger!vars

LEMMA BusyRoot ==
    ASSUME TypeInv, NEW p \in Proc, Busy(p)
    PROVE  cur[p] \in Command /\ Root(cur[p]) \in Participant
  BY RootType DEF Busy, TypeInv, TypeOK

\* Every command of a participant goes to one process.
LEMMA HomeOfCommand ==
    ASSUME Steady, NEW c \in Command
    PROVE  InitialOwner[PartitionOf(c)] = Home(Root(c))
  BY RootType DEF Steady, PartitionOf, Home

\* The hand of a process that does nothing, while nothing stands differently.
SameHand(p) ==
    /\ pc'[p] = pc[p] /\ cur'[p] = cur[p] /\ root'[p] = root[p]
    /\ evt'[p] = evt[p] /\ stateEvt'[p] = stateEvt[p]

LEMMA HandKept ==
    ASSUME TypeInv, NEW p \in Proc, Busy(p), NEW x, HandAgrees(p, x), SameHand(p),
           Standing(x)' = Standing(x), memory'[p][x] = memory[p][x],
           \A t \in Transfer : Reservations(t) > 0 => Reservations(t)' > 0
    PROVE  HandAgrees(p, x)'
  <1>1. Pending(p, x) => Pending(p, x)'
    BY DEF Pending, SameHand
  <1>2. Home(x)' = Home(x)
    BY DEF Home
  <1>3. (cur[p].op = "Commit" => Reservations(cur[p].t) > 0)'
    <2>1. PICK c \in Command : c = cur[p]
      BY BusyRoot
    <2>2. c.op = "Commit" => c.t \in Transfer /\ Reservations(c.t) > 0
      BY <2>1, CommandFields DEF HandAgrees
    <2>3. cur'[p] = c
      BY <2>1 DEF SameHand
    <2> QED
      BY <2>2, <2>3 DEF Reservations
  <1> QED
    BY <1>1, <1>2, <1>3 DEF HandAgrees, SameHand

\* No copy changes, and no hand that matters to one.
LEMMA CopiesKept ==
    ASSUME NEW x \in Participant, CopiesAgree(x),
           Standing(x)' = Standing(x), UNCHANGED <<redis, snapshots, memory>>,
           \A p \in Proc : SameHand(p) \/ pc[p] \notin {"publish", "store"}
    PROVE  CopiesAgree(x)'
  <1>1. \A p \in Proc : /\ Storing(p, x) => Storing(p, x)'
                        /\ Changing(p, x) => Changing(p, x)'
    BY DEF SameHand, Storing, Changing
  <1>2. Home(x)' = Home(x)
    BY DEF Home
  <1> QED
    BY <1>1, <1>2 DEF CopiesAgree

LEMMA LedgerProduce ==
    ASSUME Steady, LedgerInv, NEW c \in Command, Produce(c)
    PROVE  LedgerCore'
  <1>1. UNCHANGED <<owner, pc, cur, root, evt, stateEvt, redis, memory, stateLog, snapshots, domainLog>>
    BY DEF Produce, handVars, logVars
  <1>2. (\A x : Standing(x)' = Standing(x)) /\ (\A t : Reservations(t)' = Reservations(t))
    BY <1>1, StandingKept, ReservationsKept
  <1>3. c.op = "Commit" => Reservations(c.t) > 0
    BY DEF Produce, CanProduce, Steady, Reservations
  <1>4. PartitionOf(c) \in Partition
    BY PartitionOfType
  <1>5. CommitsReserved'
    <2>1. ASSUME NEW q \in Partition, NEW i \in DOMAIN topic'[q]
          PROVE  (topic[q][i].op = "Commit" => Reservations(topic[q][i].t) > 0)'
      <3>1. topic[q] \in Seq(Command)
        BY DEF LedgerInv, TypeInv, TypeOK
      <3>2. topic'[q] = topic[q] \/ topic'[q] = Append(topic[q], c)
        BY <1>4 DEF Produce, LedgerInv, TypeInv, TypeOK
      <3>3. topic'[q][i] = c \/ (i \in DOMAIN topic[q] /\ topic'[q][i] = topic[q][i])
        BY <3>1, <3>2
      <3>4. PICK d : d = topic'[q][i]
        OBVIOUS
      <3>5. d.op = "Commit" => Reservations(d.t) > 0
        BY <1>3, <3>3, <3>4 DEF LedgerInv, LedgerCore, CommitsReserved
      <3> QED
        BY <1>1, <3>4, <3>5 DEF Reservations
    <2> QED
      BY <2>1 DEF CommitsReserved
  <1>6. \A p \in Proc : Busy(p)' => HandAgrees(p, Root(cur[p]))'
    <2> SUFFICES ASSUME NEW p \in Proc, Busy(p)'
                 PROVE  HandAgrees(p, Root(cur[p]))'
      OBVIOUS
    <2>1. PICK x \in Participant : x = Root(cur[p])
      BY <1>1, BusyRoot DEF Busy, LedgerInv
    <2>2. HandAgrees(p, x)'
      BY <1>1, <1>2, <2>1, HandKept DEF SameHand, LedgerInv, LedgerCore, Busy
    <2> QED
      BY <1>1, <2>1, <2>2 DEF Root
  <1>7. \A x \in Participant : CopiesAgree(x)'
    BY <1>1, <1>2, CopiesKept DEF SameHand, LedgerInv, LedgerCore
  <1> QED
    BY <1>1, <1>5, <1>6, <1>7 DEF LedgerInv, LedgerCore

--------------------------------------------------------------------------------
(* A step of one process *)

\* Whatever else p does, the commands stay where they are, and so do the hands and
\* the memories of the other processes.
Alone(p) ==
    /\ UNCHANGED <<owner, topic>>
    /\ \A r \in Proc \ {p} : SameHand(r) /\ memory'[r] = memory[r]

\* Nothing stands differently but for participants of p, and reservations stay.
StandsElsewhere(p) ==
    /\ \A z \in Participant : Home(z) # p => Standing(z)' = Standing(z)
    /\ \A t \in Transfer : Reservations(t) > 0 => Reservations(t)' > 0

LEMMA OtherHands ==
    ASSUME LedgerInv, NEW p \in Proc, Alone(p), StandsElsewhere(p),
           NEW r \in Proc \ {p}, Busy(r)'
    PROVE  HandAgrees(r, Root(cur[r]))'
  <1>1. SameHand(r) /\ memory'[r] = memory[r] /\ Busy(r)
    BY DEF Alone, SameHand, Busy
  <1>2. PICK x \in Participant : x = Root(cur[r])
    BY <1>1, BusyRoot DEF LedgerInv
  <1>3. HandAgrees(r, x)
    BY <1>1, <1>2 DEF LedgerInv, LedgerCore
  <1>4. Standing(x)' = Standing(x)
    BY <1>3 DEF HandAgrees, StandsElsewhere
  <1>5. HandAgrees(r, x)'
    BY <1>1, <1>3, <1>4, HandKept DEF StandsElsewhere, LedgerInv
  <1>6. x = Root(cur[r])'
    BY <1>1, <1>2 DEF SameHand, Root
  <1> QED
    BY <1>5, <1>6

LEMMA OneProcess ==
    ASSUME LedgerInv, NEW p \in Proc, Alone(p), StandsElsewhere(p),
           Busy(p)' => HandAgrees(p, Root(cur[p]))',
           \A x \in Participant : CopiesAgree(x)'
    PROVE  LedgerCore'
  <1>1. CommitsReserved'
    <2>1. ASSUME NEW q \in Partition, NEW i \in DOMAIN topic'[q]
          PROVE  (topic[q][i].op = "Commit" => Reservations(topic[q][i].t) > 0)'
      <3>1. i \in DOMAIN topic[q] /\ topic'[q][i] = topic[q][i] /\ topic[q][i] \in Command
        BY DEF Alone, LedgerInv, TypeInv, TypeOK
      <3>2. PICK c \in Command : c = topic[q][i] /\ c = topic'[q][i]
        BY <3>1
      <3>3. c.op = "Commit" => c.t \in Transfer /\ Reservations(c.t) > 0
        BY <3>1, <3>2, CommandFields DEF LedgerInv, LedgerCore, CommitsReserved
      <3>4. c.op = "Commit" => Reservations(c.t)' > 0
        BY <3>3 DEF StandsElsewhere
      <3> QED
        BY <3>2, <3>4 DEF Reservations
    <2> QED
      BY <2>1 DEF CommitsReserved
  <1>2. \A r \in Proc : Busy(r)' => HandAgrees(r, Root(cur[r]))'
    BY OtherHands
  <1>3. owner' = InitialOwner
    BY DEF Alone, LedgerInv, LedgerCore
  <1> QED
    BY <1>1, <1>2, <1>3 DEF LedgerCore

\* The process that moves a participant or writes redis for it is its own.
LEMMA AtHome ==
    ASSUME LedgerInv, NEW r \in Proc, NEW x \in Participant, Storing(r, x) \/ Changing(r, x)
    PROVE  r = Home(x)
  BY DEF LedgerInv, LedgerCore, HandAgrees, Storing, Changing, Busy

\* The copies of a participant other than that of the command in hand: at most the
\* process looked it up in redis.
LEMMA OtherCopies ==
    ASSUME LedgerInv, NEW p \in Proc, Alone(p), NEW y \in Participant,
           Busy(p) => Root(cur[p]) # y,
           Standing(y)' = Standing(y), redis'[y] = redis[y], snapshots'[y] = snapshots[y],
           memory'[p][y] \in {memory[p][y], redis[y]}
    PROVE  CopiesAgree(y)'
  <1>1. \A r \in Proc : /\ Storing(r, y) => r # p /\ Storing(r, y)'
                        /\ Changing(r, y) => r # p /\ Changing(r, y)'
    BY DEF Alone, SameHand, Storing, Changing, Busy
  <1>2. CopiesAgree(y) /\ Home(y)' = Home(y)
    BY DEF LedgerInv, LedgerCore, Home
  <1>3. Standing(y)' = Absent => /\ redis'[y] = Absent /\ snapshots'[y] = <<>>
                                 /\ \A r \in Proc : memory'[r][y] = Absent
    BY <1>2 DEF CopiesAgree, Alone
  <1>4. redis'[y] = Standing(y)' \/ \E r \in Proc : Storing(r, y)'
    BY <1>1, <1>2 DEF CopiesAgree
  <1>5. memory'[Home(y)][y] \in {Absent, Standing(y)'} \/ \E r \in Proc : Changing(r, y)'
    <2>1. CASE Home(y) # p \/ memory'[p][y] = memory[p][y]
      <3>1. memory'[Home(y)][y] = memory[Home(y)][y]
        BY <2>1, ConstantTypes DEF Alone, Home
      <3> QED
        BY <1>1, <1>2, <3>1 DEF CopiesAgree
    <2>2. CASE Home(y) = p /\ memory'[p][y] = redis[y]
      <3>1. \A r \in Proc : ~Storing(r, y)
        BY <1>1, <2>2, AtHome
      <3> QED
        BY <1>2, <2>2, <3>1 DEF CopiesAgree
    <2> QED
      BY <2>1, <2>2
  <1> QED
    BY <1>2, <1>3, <1>4, <1>5 DEF CopiesAgree

--------------------------------------------------------------------------------
(* The steps of a process *)

\* What p loads before it handles a command is what the ledger says.
LEMMA LoadsStanding ==
    ASSUME LedgerInv, NEW p \in Proc, pc[p] \in {"load", "handle"}, NEW x \in Participant,
           Home(x) = p
    PROVE  /\ redis[x] = Standing(x)
           /\ memory[p][x] \in {Absent, Standing(x)}
           /\ PublishedPositions(x) # {} => Standing(x) # Absent
  <1>1. \A r \in Proc : ~Storing(r, x) /\ ~Changing(r, x)
    <2> SUFFICES ASSUME NEW r \in Proc, Storing(r, x) \/ Changing(r, x) PROVE FALSE
      OBVIOUS
    <2>1. r = p
      BY AtHome
    <2> QED
      BY <2>1 DEF Storing, Changing
  <1>2. CopiesAgree(x)
    BY DEF LedgerInv, LedgerCore
  <1>3. Standing(x) = Absent => stateLog[x] = <<>>
    BY StandingType DEF LedgerInv, Opened
  <1>4. Standing(x) = Absent => PublishedPositions(x) = {}
    BY <1>2, <1>3 DEF CopiesAgree, PublishedPositions
  <1> QED
    BY <1>1, <1>2, <1>4 DEF CopiesAgree

LEMMA LedgerLoad ==
    ASSUME LedgerInv, NEW p \in Proc, LoadRoot(p)
    PROVE  LedgerCore'
  <1>1. pc[p] = "load" /\ Busy(p)
    BY DEF LoadRoot, Busy
  <1>2. PICK x \in Participant : x = Root(cur[p])
    BY <1>1, BusyRoot DEF LedgerInv
  <1>3. HandAgrees(p, x)
    BY <1>1, <1>2 DEF LedgerInv, LedgerCore
  <1>4. /\ pc' = [pc EXCEPT ![p] = "handle"]
        /\ UNCHANGED <<groupVars, cur, off, evt, stateEvt, redis, logVars, faults>>
    BY DEF LoadRoot
  <1>5. (\A z : Standing(z)' = Standing(z)) /\ (\A t : Reservations(t)' = Reservations(t))
    BY <1>4, StandingKept, ReservationsKept DEF logVars
  <1>6. /\ redis[x] = Standing(x) /\ memory[p][x] \in {Absent, Standing(x)}
        /\ PublishedPositions(x) # {} => Standing(x) # Absent
    BY <1>1, <1>3, LoadsStanding DEF HandAgrees
  <1>7. \/ /\ root' = [root EXCEPT ![p] = Standing(x)]
           /\ memory' = [memory EXCEPT ![p][x] = Standing(x)]
           /\ Standing(x) # Absent
        \/ /\ root' = [root EXCEPT ![p] = Standing(x)]
           /\ memory' = memory /\ Standing(x) = Absent
    BY <1>2, <1>6 DEF LoadRoot
  <1>8. /\ root' \in [Proc -> MaybePos] /\ root'[p] = Standing(x)
        /\ \A r \in Proc \ {p} : root'[r] = root[r] /\ memory'[r] = memory[r]
        /\ \A y \in Participant \ {x} : memory'[p][y] = memory[p][y]
        /\ root'[p] # Absent => memory'[p][x] = Standing(x)
        /\ root'[p] = Absent => memory'[p][x] = memory[p][x]
    <2>1. root \in [Proc -> MaybePos] /\ memory \in [Proc -> [Participant -> MaybePos]]
      BY DEF LedgerInv, TypeInv, TypeOK
    <2>2. PICK v \in MaybePos : v = Standing(x)
      BY StandingType DEF LedgerInv
    <2>3. root' = [root EXCEPT ![p] = v]
      BY <1>7, <2>2
    <2>4. memory' = memory \/ memory' = [memory EXCEPT ![p][x] = v]
      BY <1>7, <2>2
    <2>5. v # Absent => memory' = [memory EXCEPT ![p][x] = v]
      BY <1>7, <2>2
    <2>6. v = Absent => memory' = memory
      BY <1>7, <2>2
    <2>7. root' \in [Proc -> MaybePos] /\ root'[p] = v /\ \A r \in Proc \ {p} : root'[r] = root[r]
      BY <2>1, <2>3
    <2>8. /\ \A r \in Proc \ {p} : memory'[r] = memory[r]
          /\ \A y \in Participant \ {x} : memory'[p][y] = memory[p][y]
      BY <2>1, <2>4
    <2> QED
      BY <2>1, <2>2, <2>5, <2>6, <2>7, <2>8
  <1>9. Alone(p) /\ StandsElsewhere(p)
    BY <1>4, <1>5, <1>8 DEF Alone, SameHand, StandsElsewhere, groupVars, LedgerInv, TypeInv, TypeOK
  <1>10. pc'[p] = "handle" /\ cur' = cur
    BY <1>4 DEF LedgerInv, TypeInv, TypeOK
  <1>11. HandAgrees(p, x)'
    <2>1. (cur[p].op = "Commit" => Reservations(cur[p].t) > 0)'
      <3>1. PICK c \in Command : c = cur[p]
        BY <1>1, BusyRoot DEF LedgerInv
      <3>2. c.op = "Commit" => Reservations(c.t) > 0
        BY <1>3, <3>1 DEF HandAgrees
      <3> QED
        BY <1>5, <1>10, <3>1, <3>2
    <2>2. Home(x)' = Home(x)
      BY DEF Home
    <2> QED
      BY <1>3, <1>5, <1>8, <1>10, <2>1, <2>2 DEF HandAgrees
  <1>12. HandAgrees(p, Root(cur[p]))'
    BY <1>2, <1>10, <1>11 DEF Root
  <1>13. CopiesAgree(x)'
    <2>1. CopiesAgree(x) /\ Home(x)' = Home(x) /\ Home(x) = p
      BY <1>3 DEF LedgerInv, LedgerCore, Home, HandAgrees
    <2>2. memory'[p][x] \in {Absent, Standing(x)}
      BY <1>6, <1>8
    <2>3. redis'[x] = Standing(x) /\ snapshots' = snapshots
      BY <1>4, <1>6 DEF logVars
    <2>4. Standing(x) = Absent => \A r \in Proc : memory'[r][x] = Absent
      BY <1>8, <2>1 DEF CopiesAgree
    <2> QED
      BY <1>5, <2>1, <2>2, <2>3, <2>4 DEF CopiesAgree
  <1>14. ASSUME NEW y \in Participant, y # x
         PROVE  CopiesAgree(y)'
    BY <1>2, <1>4, <1>5, <1>8, <1>9, <1>14, OtherCopies DEF logVars
  <1> QED
    BY <1>9, <1>12, <1>13, <1>14, OneProcess

\* What a handler decides is what the ledger may do next.  The command is in hand,
\* its root is what stands, and no replay is pending.
Decided(p, x) ==
    /\ pc' = [pc EXCEPT ![p] = "publish"]
    /\ UNCHANGED <<groupVars, cur, off, redis, logVars, faults>>
    /\ \A r \in Proc \ {p} : root'[r] = root[r] /\ evt'[r] = evt[r] /\ stateEvt'[r] = stateEvt[r]
                             /\ memory'[r] = memory[r]
    /\ \A y \in Participant \ {x} : memory'[p][y] \in {memory[p][y], redis[y]}
    /\ \/ memory'[p][x] = memory[p][x] \/ (root[p] # Absent /\ memory'[p][x] = root[p])
       \/ stateEvt'[p] = "PositionChangedState"
    /\ \/ stateEvt'[p] = "none" /\ evt'[p] \notin Granted
       \/ /\ stateEvt'[p] = "StateSnapshot" /\ evt'[p] = "none"
          /\ root'[p] = root[p] /\ root[p] # Absent
       \/ /\ stateEvt'[p] = "CreatedState" /\ evt'[p] = "ParticipantCreated"
          /\ root[p] = Absent /\ root'[p] = InitialPosition[x]
       \/ /\ stateEvt'[p] = "PositionChangedState" /\ evt'[p] = "PayerFundsReserved"
          /\ cur[p].op = "Reserve" /\ root[p] # Absent
          /\ root'[p] = root[p] + Amount[cur[p].t]
          /\ Amount[cur[p].t] > 0 /\ Limit[x] # Absent /\ root'[p] < Limit[x]
          /\ memory'[p][x] = root'[p]
       \/ /\ stateEvt'[p] = "PositionChangedState" /\ evt'[p] = "PayeeFundsCommitted"
          /\ cur[p].op = "Commit" /\ root[p] # Absent
          /\ root'[p] = root[p] - Amount[cur[p].t]
          /\ memory'[p][x] = root'[p]

LEMMA SetRootEffect ==
    ASSUME TypeInv, NEW p \in Proc, cur[p] \in Command, ~Replayed(p),
           NEW pos \in MaybePos, SetRoot(p, pos)
    PROVE  /\ UNCHANGED redis
           /\ root'[p] = pos /\ memory'[p][Root(cur[p])] = pos
           /\ \A r \in Proc \ {p} : root'[r] = root[r] /\ memory'[r] = memory[r]
           /\ \A y \in Participant \ {Root(cur[p])} : memory'[p][y] = memory[p][y]
  <1>1. redis' = redis
    BY DEF SetRoot, NextTick
  <1>2. Root(cur[p]) \in Participant
    BY RootType
  <1>3. memory \in [Proc -> [Participant -> MaybePos]] /\ root \in [Proc -> MaybePos]
    BY DEF TypeInv, TypeOK
  <1>4. root' = [root EXCEPT ![p] = pos] /\ memory' = [memory EXCEPT ![p][Root(cur[p])] = pos]
    BY DEF SetRoot
  <1> QED
    BY <1>1, <1>2, <1>3, <1>4

LEMMA SetPositionsEffect ==
    ASSUME TypeInv, NEW p \in Proc, cur[p] \in Command, ~Replayed(p),
           NEW pos \in MaybePos, SetPositions(p, pos)
    PROVE  /\ UNCHANGED redis
           /\ root'[p] = pos /\ memory'[p][Root(cur[p])] = pos
           /\ \A r \in Proc \ {p} : root'[r] = root[r] /\ memory'[r] = memory[r]
           /\ \A y \in Participant \ {Root(cur[p])} : memory'[p][y] \in {memory[p][y], redis[y]}
  <1>1. redis' = redis
    BY DEF SetPositions, NextTick
  <1>2. Root(cur[p]) \in Participant
    BY RootType
  <1>3. memory \in [Proc -> [Participant -> MaybePos]] /\ root \in [Proc -> MaybePos]
    BY DEF TypeInv, TypeOK
  <1>4. /\ root' = [root EXCEPT ![p] = pos]
        /\ \A r \in Proc \ {p} : memory'[r] = memory[r]
        /\ memory'[p] = [z \in Participant |-> IF z = Root(cur[p]) THEN pos
                                   ELSE IF z = Counterparty(cur[p]) THEN LookUp(p, Counterparty(cur[p]))
                                   ELSE memory[p][z]]
    BY <1>3 DEF SetPositions
  <1>5. \A y \in Participant \ {Root(cur[p])} : memory'[p][y] \in {memory[p][y], redis[y]}
    BY <1>4 DEF LookUp
  <1> QED
    BY <1>1, <1>2, <1>3, <1>4, <1>5

\* What each kind of ruling leaves behind makes the decision one of those.
LEMMA DecidedKept ==
    ASSUME TypeInv, NEW p \in Proc, NEW x \in Participant, NEW e, NEW s, Decide(p, e, s)
    PROVE  /\ pc' = [pc EXCEPT ![p] = "publish"]
           /\ UNCHANGED <<groupVars, cur, off, logVars, faults>>
           /\ evt'[p] = e /\ stateEvt'[p] = s
           /\ \A r \in Proc \ {p} : evt'[r] = evt[r] /\ stateEvt'[r] = stateEvt[r]
  BY DEF Decide, TypeInv, TypeOK

LEMMA HandleDecides ==
    ASSUME TypeInv, NEW p \in Proc, cur[p] \in Command, ~Replayed(p), Handle(p),
           NEW x \in Participant, x = Root(cur[p])
    PROVE  \/ Decided(p, x)
           \/ /\ pc' = [pc EXCEPT ![p] = "commit"]
              /\ UNCHANGED <<groupVars, cur, off, root, evt, stateEvt, memory, redis, logVars, faults>>
  <1>1. root[p] \in MaybePos
    BY DEF TypeInv, TypeOK
  <1>2. ASSUME root[p] # Absent PROVE root[p] \in Int
    BY <1>1, <1>2 DEF MaybePos, Pos
  <1>3. ASSUME NEW e, NEW s, Decide(p, e, s), SetRoot(p, root[p]), root[p] # Absent,
               \/ s = "none" /\ e \notin Granted
               \/ s = "StateSnapshot" /\ e = "none"
        PROVE  Decided(p, x)
    BY <1>1, <1>3, SetRootEffect, DecidedKept DEF Decided
  <1>4. ASSUME NEW e, Decide(p, e, "none"), SetPositions(p, root[p]), root[p] # Absent,
               e \notin Granted
        PROVE  Decided(p, x)
    BY <1>1, <1>4, SetPositionsEffect, DecidedKept DEF Decided
  <1>5. ASSUME HandleCreate(p) PROVE Decided(p, x)
    <2>1. CASE root[p] # Absent /\ SetRoot(p, root[p]) /\ Decide(p, "DuplicateParticipant", "none")
      BY <1>3, <2>1 DEF Granted
    <2>2. CASE /\ root[p] = Absent /\ root' = [root EXCEPT ![p] = InitialPosition[cur[p].id]]
               /\ Decide(p, "ParticipantCreated", "CreatedState")
               /\ UNCHANGED <<memory, redis>>
      <3>1. x = cur[p].id
        BY <1>5 DEF HandleCreate, Root
      <3>2. root'[p] = InitialPosition[x] /\ \A r \in Proc \ {p} : root'[r] = root[r]
        BY <2>2, <3>1 DEF TypeInv, TypeOK
      <3> QED
        BY <2>2, <3>2, DecidedKept DEF Decided
    <2> QED
      BY <1>5, <2>1, <2>2 DEF HandleCreate
  <1>6. ASSUME RefuseUnknown(p) PROVE Decided(p, x)
    BY <1>6, DecidedKept DEF RefuseUnknown, Decided, Granted
  <1>7. ASSUME HandleReserve(p) PROVE Decided(p, x)
    <2>1. PICK t \in Transfer : t = cur[p].t /\ x = Payer[t] /\ cur[p].op = "Reserve" /\ root[p] # Absent
      BY <1>7, CommandFields DEF HandleReserve, Root
    <2>2. PICK ruling : /\ ruling = "PayerFundsReserved" => ruling = ReserveRuling(x, t, root[p])
                        /\ \/ /\ ruling = "PayerFundsReserved"
                              /\ SetPositions(p, root[p] + Amount[t])
                              /\ Decide(p, ruling, "PositionChangedState")
                           \/ /\ ruling \notin Granted
                              /\ SetPositions(p, root[p])
                              /\ Decide(p, ruling, "none")
      BY <1>7, <2>1 DEF HandleReserve, Granted, ReserveRuling
    <2>3. CASE ruling = "PayerFundsReserved"
      <3>1. /\ Amount[t] > 0 /\ Limit[x] # Absent /\ root[p] + Amount[t] < Limit[x]
        BY <1>2, <2>1, <2>2, <2>3, ConstantTypes DEF ReserveRuling
      <3>2. root[p] + Amount[t] \in MaybePos
        BY <1>2, <2>1, ConstantTypes DEF MaybePos, Pos
      <3> QED
        <4>1. /\ SetPositions(p, root[p] + Amount[t])
              /\ Decide(p, "PayerFundsReserved", "PositionChangedState")
          BY <2>2, <2>3 DEF Granted
        <4>2. /\ redis' = redis /\ root'[p] = root[p] + Amount[t] /\ memory'[p][x] = root'[p]
              /\ \A r \in Proc \ {p} : root'[r] = root[r] /\ memory'[r] = memory[r]
              /\ \A y \in Participant \ {x} : memory'[p][y] \in {memory[p][y], redis[y]}
          BY <3>2, <4>1, SetPositionsEffect
        <4>3. /\ pc' = [pc EXCEPT ![p] = "publish"]
              /\ UNCHANGED <<groupVars, cur, off, logVars, faults>>
              /\ evt'[p] = "PayerFundsReserved" /\ stateEvt'[p] = "PositionChangedState"
              /\ \A r \in Proc \ {p} : evt'[r] = evt[r] /\ stateEvt'[r] = stateEvt[r]
          BY <4>1, DecidedKept
        <4> QED
          BY <2>1, <3>1, <4>2, <4>3 DEF Decided
    <2> QED
      BY <1>4, <2>1, <2>2, <2>3
  <1>8. ASSUME HandleCommit(p) PROVE Decided(p, x)
    <2>1. PICK t \in Transfer : t = cur[p].t /\ cur[p].op = "Commit" /\ root[p] # Absent
      BY <1>8, CommandFields DEF HandleCommit
    <2>2. CASE SetRoot(p, root[p]) /\ Decide(p, "InvalidParticipant", "none")
      BY <1>3, <2>1, <2>2 DEF Granted
    <2>3. CASE SetPositions(p, root[p]) /\ Decide(p, "InvalidParticipant", "none")
      BY <1>4, <2>1, <2>3 DEF Granted
    <2>4. CASE /\ SetPositions(p, root[p] - Amount[t])
               /\ Decide(p, "PayeeFundsCommitted", "PositionChangedState")
      <3>1. root[p] - Amount[t] \in MaybePos
        BY <1>2, <2>1, ConstantTypes DEF MaybePos, Pos
      <3> QED
        BY <2>1, <2>4, <3>1, SetPositionsEffect, DecidedKept DEF Decided
    <2> QED
      BY <1>8, <2>1, <2>2, <2>3, <2>4 DEF HandleCommit
  <1>9. ASSUME HandleSnapshot(p), root[p] # Absent PROVE Decided(p, x)
    BY <1>3, <1>9 DEF HandleSnapshot
  <1> QED
    BY <1>5, <1>6, <1>7, <1>8, <1>9 DEF Handle, HandleSnapshot

LEMMA LedgerHandle ==
    ASSUME LedgerInv, NEW p \in Proc, Handle(p)
    PROVE  LedgerCore' /\ UNCHANGED <<stateLog, domainLog>>
  <1>1. pc[p] = "handle" /\ Busy(p) /\ TypeInv
    BY DEF Handle, HandleCreate, RefuseUnknown, HandleReserve, HandleCommit, HandleSnapshot, Busy,
           LedgerInv
  <1>2. PICK x \in Participant : cur[p] \in Command /\ x = Root(cur[p])
    BY <1>1, BusyRoot
  <1>3. HandAgrees(p, x) /\ Home(x) = p /\ root[p] = Standing(x)
        /\ (root[p] # Absent => memory[p][x] = root[p])
    BY <1>1, <1>2 DEF LedgerInv, LedgerCore, HandAgrees
  <1>4. ~Replayed(p)
    BY <1>2, <1>3 DEF Replayed
  <1>5. CASE /\ pc' = [pc EXCEPT ![p] = "commit"]
             /\ UNCHANGED <<groupVars, cur, off, root, evt, stateEvt, memory, redis, logVars, faults>>
    <2>1. UNCHANGED <<stateLog, snapshots, domainLog, owner, topic>>
      BY <1>5 DEF logVars, groupVars
    <2>2. (\A z : Standing(z)' = Standing(z)) /\ (\A t : Reservations(t)' = Reservations(t))
      BY <2>1, StandingKept, ReservationsKept
    <2>3. \A r \in Proc \ {p} : SameHand(r)
      BY <1>1, <1>5 DEF SameHand, TypeInv, TypeOK
    <2>4. Alone(p) /\ StandsElsewhere(p)
      BY <1>5, <2>1, <2>2, <2>3 DEF Alone, StandsElsewhere
    <2>5. pc'[p] = "commit"
      BY <1>1, <1>5 DEF TypeInv, TypeOK
    <2>6. HandAgrees(p, x)'
      <3>1. PICK c \in Command : c = cur[p]
        BY <1>2
      <3>2. (cur[p].op = "Commit" => Reservations(cur[p].t) > 0)'
        BY <1>3, <1>5, <2>2, <3>1 DEF HandAgrees
      <3>3. Home(x)' = Home(x)
        BY DEF Home
      <3> QED
        BY <1>3, <2>5, <3>2, <3>3 DEF HandAgrees
    <2>7. HandAgrees(p, Root(cur[p]))'
      BY <1>2, <1>5, <2>6 DEF Root
    <2>8. \A y \in Participant : CopiesAgree(y)'
      BY <1>1, <1>5, <2>1, <2>2, <2>3, CopiesKept DEF LedgerInv, LedgerCore
    <2> QED
      BY <2>1, <2>4, <2>7, <2>8, OneProcess
  <1>6. CASE Decided(p, x)
    <2>1. UNCHANGED <<stateLog, snapshots, domainLog, owner, topic, cur, redis>>
      BY <1>6 DEF Decided, logVars, groupVars
    <2>2. (\A z : Standing(z)' = Standing(z)) /\ (\A t : Reservations(t)' = Reservations(t))
      BY <2>1, StandingKept, ReservationsKept
    <2>3. Alone(p) /\ StandsElsewhere(p)
      BY <1>1, <1>6, <2>1, <2>2 DEF Decided, Alone, SameHand, StandsElsewhere, TypeInv, TypeOK
    <2>4. pc'[p] = "publish"
      BY <1>1, <1>6 DEF Decided, TypeInv, TypeOK
    <2>5. Pending(p, x)'
      BY <1>3, <1>6, <2>1, <2>2 DEF Pending, Decided
    <2>6. HandAgrees(p, x)'
      <3>1. PICK c \in Command : c = cur[p]
        BY <1>2
      <3>2. (cur[p].op = "Commit" => Reservations(cur[p].t) > 0)'
        BY <1>3, <2>1, <2>2, <3>1 DEF HandAgrees
      <3>3. Home(x)' = Home(x)
        BY DEF Home
      <3> QED
        BY <1>3, <2>4, <2>5, <3>2, <3>3 DEF HandAgrees
    <2>7. HandAgrees(p, Root(cur[p]))'
      BY <1>2, <2>1, <2>6 DEF Root
    <2>8. CopiesAgree(x)'
      <3>1. CopiesAgree(x) /\ Home(x)' = Home(x)
        BY DEF LedgerInv, LedgerCore, Home
      <3>2. redis[x] = Standing(x) /\ memory[p][x] \in {Absent, Standing(x)}
        BY <1>1, <1>3, LoadsStanding
      <3>3. Standing(x) = Absent => \A r \in Proc : memory'[r][x] = Absent
        BY <1>3, <1>6, <3>1 DEF Decided, CopiesAgree
      <3>4. memory'[p][x] \in {Absent, Standing(x)} \/ Changing(p, x)'
        BY <1>2, <1>3, <1>6, <2>1, <2>4, <3>2 DEF Decided, Changing, Root
      <3> QED
        BY <1>3, <2>1, <2>2, <3>1, <3>2, <3>3, <3>4 DEF CopiesAgree
    <2>9. ASSUME NEW y \in Participant, y # x
          PROVE  CopiesAgree(y)'
      BY <1>2, <1>6, <2>1, <2>2, <2>3, <2>9, OtherCopies DEF Decided
    <2> QED
      BY <2>1, <2>3, <2>7, <2>8, <2>9, OneProcess
  <1> QED
    BY <1>1, <1>2, <1>4, <1>5, <1>6, HandleDecides

--------------------------------------------------------------------------------
(* Publications are the ledger's steps *)

LEMMA DomainAfter ==
    ASSUME TypeInv, NEW p \in Proc, cur[p] \in Command, Deliver(p, {"domain", "state"}),
           NEW t \in Transfer
    PROVE  /\ Reservations(t)' = IF cur[p] = Cmd("Reserve", t) /\ evt[p] = "PayerFundsReserved"
                                 THEN Reservations(t) + 1 ELSE Reservations(t)
           /\ Commitments(t)' = IF cur[p] = Cmd("Commit", t) /\ evt[p] = "PayeeFundsCommitted"
                                THEN Commitments(t) + 1 ELSE Commitments(t)
           /\ Reservations(t) \in Nat
  <1>1. domainLog \in [Command \X EventName -> Nat] /\ evt[p] \in EventName \union {"none"}
    BY DEF TypeInv, TypeOK
  <1>2. Cmd("Reserve", t) \in Command /\ Cmd("Commit", t) \in Command
    BY DEF Cmd, Command, FundsOp
  <1>3. ASSUME NEW c \in Command, NEW n \in EventName
        PROVE  /\ domainLog'[<<c, n>>] = IF cur[p] = c /\ evt[p] = n
                                         THEN domainLog[<<c, n>>] + 1 ELSE domainLog[<<c, n>>]
               /\ domainLog[<<c, n>>] \in Nat
    <2>1. PICK k \in Command \X EventName : k = <<c, n>>
      OBVIOUS
    <2>2. CASE evt[p] = "none"
      <3>1. n # "none"
        BY DEF EventName
      <3> QED
        BY <1>1, <2>1, <2>2, <3>1 DEF Deliver
    <2>3. CASE evt[p] # "none"
      <3>1. PICK e \in Command \X EventName : e = <<cur[p], evt[p]>>
        BY <1>1, <2>3
      <3>2. domainLog' = [domainLog EXCEPT ![e] = @ + 1]
        BY <2>3, <3>1 DEF Deliver
      <3>3. k = e <=> cur[p] = c /\ evt[p] = n
        BY <2>1, <3>1
      <3> QED
        BY <1>1, <2>1, <3>2, <3>3
    <2> QED
      BY <2>2, <2>3
  <1>4. "PayerFundsReserved" \in EventName /\ "PayeeFundsCommitted" \in EventName
    BY DEF EventName
  <1> QED
    BY <1>2, <1>3, <1>4 DEF Reservations, Commitments

LEMMA StandingAfter ==
    ASSUME TypeInv, NEW p \in Proc, cur[p] \in Command, Deliver(p, {"domain", "state"}),
           NEW x \in Participant, x = Root(cur[p])
    PROVE  /\ \A z \in Participant \ {x} : Standing(z)' = Standing(z) /\ snapshots'[z] = snapshots[z]
           /\ IF stateEvt[p] \in {"CreatedState", "PositionChangedState"}
              THEN Standing(x)' = root[p] /\ root[p] \in Int
              ELSE Standing(x)' = Standing(x)
           /\ stateEvt[p] # "StateSnapshot" => snapshots' = snapshots
  <1>1. stateLog \in [Participant -> Seq(Int)] /\ snapshots \in [Participant -> Seq(Int)]
    BY DEF TypeInv, TypeOK, Pos
  <1>2. stateEvt[p] \in {"CreatedState", "PositionChangedState"} => root[p] \in Int
    BY DEF TypeInv, ControlOK
  <1>3. CASE stateEvt[p] \in {"CreatedState", "PositionChangedState"}
    <2>1. stateLog' = [stateLog EXCEPT ![x] = Append(@, root[p])]
      BY <1>3 DEF Deliver
    <2>2. stateLog'[x] = Append(stateLog[x], root[p])
          /\ \A z \in Participant \ {x} : stateLog'[z] = stateLog[z]
      BY <1>1, <2>1
    <2>3. stateLog'[x] # <<>> /\ stateLog'[x][Len(stateLog'[x])] = root[p]
      <3>1. PICK s \in Seq(Int), v \in Int : s = stateLog[x] /\ v = root[p]
        BY <1>1, <1>2, <1>3
      <3>2. Append(s, v) # <<>> /\ Append(s, v)[Len(Append(s, v))] = v
        OBVIOUS
      <3> QED
        BY <2>2, <3>1, <3>2
    <2>4. snapshots' = snapshots
      BY <1>3 DEF Deliver
    <2> QED
      BY <1>2, <1>3, <2>2, <2>3, <2>4 DEF Standing, Opened, Current
  <1>4. CASE stateEvt[p] \notin {"CreatedState", "PositionChangedState"}
    <2>1. stateLog' = stateLog
      BY <1>4 DEF Deliver
    <2>2. \/ snapshots' = snapshots
          \/ stateEvt[p] = "StateSnapshot" /\ snapshots' = [snapshots EXCEPT ![x] = Append(@, root[p])]
      BY DEF Deliver
    <2> QED
      BY <1>1, <1>4, <2>1, <2>2, StandingKept
  <1> QED
    BY <1>3, <1>4

\* What Publish does to the ledger, by what was decided.
LEMMA LedgerPublishes ==
    ASSUME LedgerInv, NEW p \in Proc, Publish(p), NEW x \in Participant, x = Root(cur[p]),
           cur[p] \in Command
    PROVE  [Ledger!Next]_(Ledger!vars)
  <1>1. TypeInv /\ pc[p] = "publish" /\ Deliver(p, {"domain", "state"})
    BY DEF Publish, LedgerInv
  <1>2. HandAgrees(p, x) /\ Pending(p, x)
    BY <1>1 DEF LedgerInv, LedgerCore, HandAgrees, Busy
  <1>3. \A z \in Participant \ {x} : Standing(z)' = Standing(z)
    BY <1>1, StandingAfter
  <1>4. ASSUME evt[p] \notin Granted
        PROVE  \A t \in Transfer : Reservations(t)' = Reservations(t) /\ Commitments(t)' = Commitments(t)
    BY <1>1, <1>4, DomainAfter DEF Granted
  <1>5. CASE stateEvt[p] \in {"none", "StateSnapshot"}
    <2>1. evt[p] \notin Granted
      BY <1>2, <1>5 DEF Pending, Granted
    <2>2. Standing(x)' = Standing(x)
      BY <1>1, <1>5, StandingAfter
    <2> QED
      BY <1>3, <1>4, <2>1, <2>2 DEF Ledger!vars
  <1>6. CASE stateEvt[p] = "CreatedState"
    <2>1. evt[p] \notin Granted /\ Standing(x) = Absent /\ root[p] = InitialPosition[x]
      BY <1>2, <1>6 DEF Pending, Granted
    <2>2. Standing(x)' = InitialPosition[x]
      BY <1>1, <1>6, <2>1, StandingAfter
    <2>3. Ledger!Open(x)
      BY <1>3, <1>4, <2>1, <2>2 DEF Ledger!Open
    <2> QED
      BY <2>3 DEF Ledger!Next
  <1>7. CASE stateEvt[p] = "PositionChangedState" /\ evt[p] = "PayerFundsReserved"
    <2>1. PICK t \in Transfer : t = cur[p].t /\ cur[p] = Cmd("Reserve", t) /\ x = Payer[t]
      BY <1>2, <1>7, CommandFields DEF Pending, Root
    <2>2. /\ Standing(x) # Absent /\ root[p] = Standing(x) + Amount[t]
          /\ Amount[t] > 0 /\ Limit[x] # Absent /\ root[p] < Limit[x]
      BY <1>2, <1>7, <2>1 DEF Pending
    <2>3. Standing(x)' = root[p]
      BY <1>1, <1>7, StandingAfter
    <2>4. Reservations(t)' = Reservations(t) + 1
      BY <1>1, <1>7, <2>1, DomainAfter
    <2>5. \A s \in Transfer \ {t} : Reservations(s)' = Reservations(s)
      <3>1. \A s \in Transfer \ {t} : cur[p] # Cmd("Reserve", s)
        BY <2>1 DEF Cmd
      <3> QED
        BY <1>1, <3>1, DomainAfter
    <2>6. \A s \in Transfer : Commitments(s)' = Commitments(s)
      BY <1>1, <1>7, DomainAfter
    <2>7. Ledger!Reserve(t)
      BY <1>3, <2>1, <2>2, <2>3, <2>4, <2>5, <2>6 DEF Ledger!Reserve
    <2> QED
      BY <2>7 DEF Ledger!Next
  <1>8. CASE stateEvt[p] = "PositionChangedState" /\ evt[p] = "PayeeFundsCommitted"
    <2>1. PICK t \in Transfer : t = cur[p].t /\ cur[p] = Cmd("Commit", t) /\ x = Payee[t]
      BY <1>2, <1>8, CommandFields DEF Pending, Root
    <2>2. Standing(x) # Absent /\ root[p] = Standing(x) - Amount[t]
      BY <1>2, <1>8, <2>1 DEF Pending
    <2>3. Standing(x)' = root[p]
      BY <1>1, <1>8, StandingAfter
    <2>4. Commitments(t)' = Commitments(t) + 1
      BY <1>1, <1>8, <2>1, DomainAfter
    <2>5. \A s \in Transfer \ {t} : Commitments(s)' = Commitments(s)
      <3>1. \A s \in Transfer \ {t} : cur[p] # Cmd("Commit", s)
        BY <2>1 DEF Cmd
      <3> QED
        BY <1>1, <3>1, DomainAfter
    <2>6. \A s \in Transfer : Reservations(s)' = Reservations(s)
      BY <1>1, <1>8, DomainAfter
    <2>7. Reservations(t) > 0
      BY <1>2, <2>1 DEF HandAgrees, Cmd
    <2>8. Ledger!Settle(t)
      BY <1>3, <2>1, <2>2, <2>3, <2>4, <2>5, <2>6, <2>7 DEF Ledger!Settle
    <2> QED
      BY <2>8 DEF Ledger!Next
  <1> QED
    BY <1>2, <1>5, <1>6, <1>7, <1>8 DEF Pending

LEMMA LedgerPublish ==
    ASSUME LedgerInv, NEW p \in Proc, Publish(p)
    PROVE  LedgerCore' /\ [Ledger!Next]_(Ledger!vars)
  <1>1. TypeInv /\ pc[p] = "publish" /\ Busy(p) /\ Deliver(p, {"domain", "state"})
    BY DEF Publish, LedgerInv, Busy
  <1>2. PICK x \in Participant : cur[p] \in Command /\ x = Root(cur[p])
    BY <1>1, BusyRoot
  <1>3. HandAgrees(p, x) /\ Pending(p, x) /\ Home(x) = p
    BY <1>1, <1>2 DEF LedgerInv, LedgerCore, HandAgrees
  <1>4. /\ UNCHANGED <<owner, topic, cur, root, memory, redis>>
        /\ pc'[p] = IF stateEvt[p] = "none" THEN "commit" ELSE "store"
        /\ \A r \in Proc \ {p} : SameHand(r)
    BY <1>1 DEF Publish, PublishTo, SameHand, groupVars, TypeInv, TypeOK
  <1>5. \A z \in Participant \ {x} : Standing(z)' = Standing(z) /\ snapshots'[z] = snapshots[z]
    BY <1>1, <1>2, StandingAfter
  <1>6. \A t \in Transfer : Reservations(t) > 0 => Reservations(t)' > 0
    BY <1>1, <1>2, DomainAfter
  <1>7. Alone(p) /\ StandsElsewhere(p)
    BY <1>3, <1>4, <1>5, <1>6 DEF Alone, StandsElsewhere
  <1>8. /\ stateEvt[p] = "none" => Standing(x)' = Standing(x) /\ snapshots' = snapshots
        /\ stateEvt[p] # "none" => Standing(x)' = root[p] /\ root[p] # Absent
    <2>1. stateEvt[p] \in StateEventName \union {"none"} /\ Absent \notin Int
      BY <1>1, ConstantTypes DEF TypeInv, TypeOK
    <2>2. stateEvt[p] = "StateSnapshot" => root[p] = Standing(x) /\ Standing(x) # Absent
      BY <1>3 DEF Pending
    <2> QED
      BY <1>1, <1>2, <2>1, <2>2, StandingAfter DEF StateEventName
  <1>9. HandAgrees(p, x)'
    <2>1. PICK c \in Command : c = cur[p]
      BY <1>2
    <2>2. c.op = "Commit" => c.t \in Transfer /\ Reservations(c.t) > 0
      BY <1>3, <2>1, CommandFields DEF HandAgrees
    <2>3. (cur[p].op = "Commit" => Reservations(cur[p].t) > 0)'
      BY <1>4, <1>6, <2>1, <2>2
    <2>4. Home(x)' = Home(x)
      BY DEF Home
    <2> QED
      BY <1>3, <1>4, <1>8, <2>3, <2>4 DEF HandAgrees
  <1>10. HandAgrees(p, Root(cur[p]))'
    BY <1>2, <1>4, <1>9 DEF Root
  <1>11. CopiesAgree(x)'
    <2>1. CopiesAgree(x) /\ Home(x)' = Home(x)
      BY DEF LedgerInv, LedgerCore, Home
    <2>2. \A r \in Proc : (Storing(r, x) => FALSE) /\ (Changing(r, x) => r = p /\ Changing(p, x))
      <3>1. \A r \in Proc : Storing(r, x) \/ Changing(r, x) => r = p
        BY <1>3, AtHome
      <3> QED
        BY <1>1, <3>1 DEF Storing
    <2>3. CASE stateEvt[p] = "none"
      <3>1. ~Changing(p, x)
        BY <2>3 DEF Changing
      <3> QED
        BY <1>4, <1>8, <2>1, <2>2, <2>3, <3>1 DEF CopiesAgree
    <2>4. CASE stateEvt[p] # "none"
      <3>1. Storing(p, x)'
        BY <1>2, <1>4, <2>4 DEF Storing, Root
      <3>2. memory[p][x] \in {Absent, root[p]}
        BY <1>3, <2>1, <2>2, <2>4 DEF Pending, Changing, CopiesAgree
      <3> QED
        BY <1>3, <1>4, <1>8, <2>1, <2>4, <3>1, <3>2 DEF CopiesAgree
    <2> QED
      BY <2>3, <2>4
  <1>12. ASSUME NEW y \in Participant, y # x
         PROVE  CopiesAgree(y)'
    BY <1>2, <1>4, <1>5, <1>7, <1>12, OtherCopies
  <1> QED
    BY <1>2, <1>7, <1>10, <1>11, <1>12, OneProcess, LedgerPublishes

LEMMA LedgerStore ==
    ASSUME LedgerInv, NEW p \in Proc, Store(p)
    PROVE  LedgerCore' /\ UNCHANGED <<stateLog, domainLog>>
  <1>1. TypeInv /\ pc[p] = "store" /\ Busy(p)
    BY DEF Store, StoreStep, LedgerInv, Busy
  <1>2. PICK x \in Participant : cur[p] \in Command /\ x = Root(cur[p])
    BY <1>1, BusyRoot
  <1>3. HandAgrees(p, x) /\ root[p] = Standing(x) /\ Home(x) = p
    BY <1>1, <1>2 DEF LedgerInv, LedgerCore, HandAgrees
  <1>4. /\ UNCHANGED <<owner, topic, cur, root, stateLog, snapshots, domainLog>>
        /\ pc'[p] = "commit"
        /\ \A r \in Proc \ {p} : SameHand(r)
    BY <1>1 DEF Store, StoreStep, SameHand, groupVars, logVars, TypeInv, TypeOK
  <1>5. /\ memory'[p][x] = root[p] /\ redis'[x] = root[p]
        /\ \A y \in Participant \ {x} : memory'[p][y] = memory[p][y] /\ redis'[y] = redis[y]
        /\ \A r \in Proc \ {p} : memory'[r] = memory[r]
    <2>1. memory \in [Proc -> [Participant -> MaybePos]] /\ redis \in [Participant -> MaybePos]
      BY <1>1 DEF TypeInv, TypeOK
    <2>2. memory' = [memory EXCEPT ![p][x] = root[p]] /\ redis' = [redis EXCEPT ![x] = root[p]]
      BY <1>2 DEF Store, StoreStep, Stored
    <2> QED
      BY <2>1, <2>2
  <1>6. (\A z : Standing(z)' = Standing(z)) /\ (\A t : Reservations(t)' = Reservations(t))
    BY <1>4, StandingKept, ReservationsKept
  <1>7. Alone(p) /\ StandsElsewhere(p)
    BY <1>4, <1>5, <1>6 DEF Alone, StandsElsewhere
  <1>8. HandAgrees(p, x)'
    <2>1. PICK c \in Command : c = cur[p]
      BY <1>2
    <2>2. (cur[p].op = "Commit" => Reservations(cur[p].t) > 0)'
      BY <1>3, <1>4, <1>6, <2>1 DEF HandAgrees
    <2>3. Home(x)' = Home(x)
      BY DEF Home
    <2> QED
      BY <1>3, <1>4, <2>2, <2>3 DEF HandAgrees
  <1>9. HandAgrees(p, Root(cur[p]))'
    BY <1>2, <1>4, <1>8 DEF Root
  <1>10. CopiesAgree(x)'
    <2>1. CopiesAgree(x) /\ Home(x)' = Home(x)
      BY DEF LedgerInv, LedgerCore, Home
    <2>2. Standing(x) # Absent
      BY <1>1, <1>3, ConstantTypes DEF TypeInv, ControlOK
    <2> QED
      BY <1>3, <1>4, <1>5, <1>6, <2>1, <2>2 DEF CopiesAgree
  <1>11. ASSUME NEW y \in Participant, y # x
         PROVE  CopiesAgree(y)'
    BY <1>2, <1>4, <1>5, <1>6, <1>7, <1>11, OtherCopies
  <1> QED
    BY <1>4, <1>7, <1>9, <1>10, <1>11, OneProcess

--------------------------------------------------------------------------------
(* The steps between commands *)

\* A process takes a command, drops it or lets it go, and touches no copy.
LEMMA LedgerQuiet ==
    ASSUME LedgerInv, NEW p \in Proc, pc[p] \notin {"publish", "store"}, Alone(p),
           UNCHANGED <<stateLog, snapshots, domainLog, memory, redis>>,
           Busy(p)' => HandAgrees(p, Root(cur[p]))'
    PROVE  LedgerCore' /\ UNCHANGED <<stateLog, domainLog>>
  <1>1. (\A z : Standing(z)' = Standing(z)) /\ (\A t : Reservations(t)' = Reservations(t))
    BY StandingKept, ReservationsKept
  <1>2. StandsElsewhere(p)
    BY <1>1 DEF StandsElsewhere
  <1>3. \A y \in Participant : CopiesAgree(y)'
    BY <1>1, CopiesKept DEF Alone, LedgerInv, LedgerCore
  <1> QED
    BY <1>2, <1>3, OneProcess

LEMMA LedgerFetch ==
    ASSUME Steady, LedgerInv, NEW p \in Proc, NEW q \in Partition, Fetch(p, q)
    PROVE  LedgerCore' /\ UNCHANGED <<stateLog, domainLog>>
  <1>1. TypeInv /\ pc[p] = "idle" /\ owner[q] = p
    BY DEF Fetch, LedgerInv
  <1>2. PICK i \in DOMAIN topic[q] : i = next[q] + 1
    BY <1>1 DEF Fetch, TypeInv, TypeOK
  <1>3. PICK c \in Command : c = topic[q][i]
    BY <1>1, <1>2 DEF TypeInv, TypeOK
  <1>4. /\ UNCHANGED <<owner, topic, root, evt, stateEvt, memory, redis, stateLog, snapshots, domainLog>>
        /\ pc'[p] = "load" /\ cur'[p] = c
        /\ \A r \in Proc \ {p} : SameHand(r)
    BY <1>1, <1>2, <1>3 DEF Fetch, SameHand, logVars, TypeInv, TypeOK
  <1>5. Alone(p)
    BY <1>4 DEF Alone
  <1>6. Home(Root(c)) = p
    <2>1. PartitionOf(c) = q
      BY <1>2, <1>3 DEF LedgerInv, Placed
    <2>2. InitialOwner[q] = p
      BY <1>1 DEF LedgerInv, LedgerCore
    <2> QED
      BY <2>1, <2>2, HomeOfCommand
  <1>7. c.op = "Commit" => Reservations(c.t) > 0
    BY <1>2, <1>3 DEF LedgerInv, LedgerCore, CommitsReserved
  <1>8. HandAgrees(p, Root(cur[p]))'
    <2>1. PICK x : x = Root(c)
      OBVIOUS
    <2>2. (Root(cur[p]))' = x
      BY <1>4, <2>1 DEF Root
    <2>3. (cur[p].op = "Commit" => Reservations(cur[p].t) > 0)'
      BY <1>4, <1>7 DEF Reservations
    <2>4. HandAgrees(p, x)'
      BY <1>4, <1>6, <2>1, <2>3 DEF HandAgrees, Home
    <2> QED
      BY <2>2, <2>4
  <1> QED
    BY <1>1, <1>4, <1>5, <1>8, LedgerQuiet

LEMMA LedgerLetGo ==
    ASSUME LedgerInv, NEW p \in Proc, Ack(p) \/ AckFails(p)
    PROVE  LedgerCore' /\ UNCHANGED <<stateLog, domainLog>>
  <1>1. TypeInv /\ pc[p] = "commit"
    BY DEF Ack, AckFails, LedgerInv
  <1>2. /\ UNCHANGED <<owner, topic, memory, redis, stateLog, snapshots, domainLog>>
        /\ pc'[p] \in {"idle", "halted"}
        /\ \A r \in Proc \ {p} : SameHand(r)
    BY <1>1 DEF Ack, AckFails, LetGo, SameHand, groupVars, logVars, TypeInv, TypeOK
  <1>3. Alone(p) /\ ~Busy(p)'
    BY <1>2 DEF Alone, Busy
  <1> QED
    BY <1>1, <1>2, <1>3, LedgerQuiet

LEMMA LedgerReadFails ==
    ASSUME LedgerInv, NEW p \in Proc, ReadFails(p)
    PROVE  LedgerCore' /\ UNCHANGED <<stateLog, domainLog>>
  <1>1. TypeInv /\ pc[p] \in {"load", "handle"} /\ Busy(p)
    BY DEF ReadFails, LedgerInv, Busy
  <1>2. PICK x \in Participant : cur[p] \in Command /\ x = Root(cur[p])
    BY <1>1, BusyRoot
  <1>3. HandAgrees(p, x)
    BY <1>1, <1>2 DEF LedgerInv, LedgerCore
  <1>4. memory' = memory /\ redis' = redis /\ root' = root
    <2>1. CASE UNCHANGED <<root, memory, redis>>
      BY <2>1
    <2>2. CASE pc[p] = "handle" /\ root[p] # Absent /\ SetRoot(p, root[p])
      <3>1. memory[p][x] = root[p] /\ root[p] \in MaybePos
        BY <1>1, <1>3, <2>2 DEF HandAgrees, TypeInv, TypeOK
      <3>2. ~Replayed(p)
        BY <1>2, <2>2, <3>1 DEF Replayed
      <3>3. /\ root' = [root EXCEPT ![p] = root[p]]
            /\ memory' = [memory EXCEPT ![p][x] = memory[p][x]]
        BY <1>2, <2>2, <3>1 DEF SetRoot
      <3>4. redis' = redis
        BY <1>1, <1>2, <2>2, <3>1, <3>2, SetRootEffect
      <3>5. root \in [Proc -> MaybePos] /\ memory \in [Proc -> [Participant -> MaybePos]]
        BY <1>1 DEF TypeInv, TypeOK
      <3> QED
        BY <3>3, <3>4, <3>5
    <2> QED
      BY <2>1, <2>2 DEF ReadFails
  <1>5. /\ UNCHANGED <<owner, topic, cur, evt, stateEvt, stateLog, snapshots, domainLog>>
        /\ pc' = [pc EXCEPT ![p] = "commit"]
    BY DEF ReadFails, groupVars, logVars
  <1>6. Alone(p) /\ pc'[p] = "commit"
    BY <1>1, <1>4, <1>5 DEF Alone, SameHand, TypeInv, TypeOK
  <1>7. HandAgrees(p, x)'
    <2>1. PICK c \in Command : c = cur[p]
      BY <1>2
    <2>2. (cur[p].op = "Commit" => Reservations(cur[p].t) > 0)'
      BY <1>3, <1>5, <2>1 DEF HandAgrees, Reservations
    <2>3. Home(x)' = Home(x)
      BY DEF Home
    <2> QED
      BY <1>3, <1>6, <2>2, <2>3 DEF HandAgrees
  <1>8. HandAgrees(p, Root(cur[p]))'
    BY <1>2, <1>5, <1>7 DEF Root
  <1> QED
    BY <1>1, <1>4, <1>5, <1>6, <1>8, LedgerQuiet

--------------------------------------------------------------------------------
(* The refinement *)

LEMMA LedgerStep ==
    ASSUME Steady, LedgerInv, [Next]_vars
    PROVE  LedgerInv' /\ [Ledger!Next]_(Ledger!vars)
  <1> DEFINE Goal == LedgerCore' /\ [Ledger!Next]_(Ledger!vars)
  <1>1. TypeInv'
    BY TypeStep DEF LedgerInv
  <1>2. Placed'
    BY <1>1, PlacedStep DEF LedgerInv
  <1>3. ASSUME NEW kind \in {"crash", "rebalance", "publish", "store"}
        PROVE  ~Failure(kind)
    BY <1>3 DEF Failure, Steady
  <1>4. ASSUME LedgerCore', UNCHANGED <<stateLog, domainLog>>
        PROVE  Goal
    BY <1>4, LedgerStands
  <1>5. ASSUME NEW c \in Command, Produce(c) PROVE Goal
    <2>1. UNCHANGED <<stateLog, domainLog>>
      BY <1>5 DEF Produce, logVars
    <2> QED
      BY <1>4, <1>5, <2>1, LedgerProduce
  <1>6. ASSUME NEW p \in Proc, Work(p) PROVE Goal
    <2>1. ASSUME NEW q \in Partition, Fetch(p, q) PROVE Goal
      BY <1>4, <2>1, LedgerFetch
    <2>2. ASSUME LoadRoot(p) PROVE Goal
      <3>1. UNCHANGED <<stateLog, domainLog>>
        BY <2>2 DEF LoadRoot, logVars
      <3> QED
        BY <1>4, <2>2, <3>1, LedgerLoad
    <2>3. ASSUME Handle(p) PROVE Goal
      BY <1>4, <2>3, LedgerHandle
    <2>4. ASSUME Publish(p) PROVE Goal
      BY <2>4, LedgerPublish
    <2>5. ~Republish(p)
      BY BusyRoot DEF Republish, LedgerInv, LedgerCore, HandAgrees, Busy
    <2>6. ASSUME Store(p) PROVE Goal
      BY <1>4, <2>6, LedgerStore
    <2>7. ASSUME Ack(p) PROVE Goal
      BY <1>4, <2>7, LedgerLetGo
    <2> QED
      BY <1>6, <2>1, <2>2, <2>3, <2>4, <2>5, <2>6, <2>7 DEF Work
  <1>7. ASSUME NEW p \in Proc, Fail(p) PROVE Goal
    <2>1. ASSUME ReadFails(p) PROVE Goal
      BY <1>4, <2>1, LedgerReadFails
    <2>2. ASSUME AckFails(p) PROVE Goal
      BY <1>4, <2>2, LedgerLetGo
    <2>3. ~PublishFails(p) /\ ~RepublishFails(p) /\ ~StoreFails(p) /\ ~Crash(p)
      BY <1>3 DEF PublishFails, RepublishFails, StoreFails, Crash
    <2>4. ASSUME NEW q \in Partition PROVE ~Rebalance(q, p)
      BY <1>3 DEF Rebalance
    <2> QED
      BY <1>7, <2>1, <2>2, <2>3, <2>4 DEF Fail
  <1>8. ASSUME UNCHANGED vars PROVE Goal
    <2>1. UNCHANGED <<topic, owner, pc, cur, root, evt, stateEvt, memory, redis,
                      stateLog, snapshots, domainLog>>
      BY <1>8 DEF vars
    <2>2. UNCHANGED vars => LedgerCore' = LedgerCore
      BY DEF vars, LedgerCore, CommitsReserved, Busy, HandAgrees, Pending, CopiesAgree, Storing,
             Changing, Home, Root, Standing, Opened, Current, Reservations
    <2> QED
      BY <1>4, <1>8, <2>1, <2>2 DEF LedgerInv
  <1>9. Goal
    BY <1>5, <1>6, <1>7, <1>8 DEF Next
  <1> QED
    BY <1>1, <1>2, <1>9 DEF LedgerInv

LEMMA LedgerInit == Init => LedgerInv /\ Ledger!Init
  <1> SUFFICES ASSUME Init PROVE LedgerInv /\ Ledger!Init
    OBVIOUS
  <1>1. TypeInv
    BY InitTypeInv
  <1>2. \A p \in Proc : pc[p] = "idle"
    BY DEF Init
  <1>3. Placed
    BY <1>2 DEF Init, Placed, Busy
  <1>4. \A x \in Participant : /\ Standing(x) = redis[x]
                               /\ Standing(x) = IF x \in Registered THEN InitialPosition[x] ELSE Absent
                               /\ snapshots[x] = <<>>
                               /\ \A p \in Proc : memory[p][x] = Absent
    BY DEF Init, Standing, Opened, Current
  <1>5. \A t \in Transfer : Reservations(t) = 0 /\ Commitments(t) = 0
    BY DEF Init, Reservations, Commitments, Cmd, Command, FundsOp, EventName
  <1>6. CommitsReserved /\ owner = InitialOwner
    BY DEF Init, CommitsReserved
  <1>7. \A x \in Participant : CopiesAgree(x)
    <2>1. \A x \in Participant : Home(x) \in Proc
      BY ConstantTypes DEF Home
    <2> QED
      BY <1>4, <2>1 DEF CopiesAgree
  <1>8. LedgerCore
    BY <1>2, <1>6, <1>7 DEF LedgerCore, Busy
  <1>9. Ledger!Init
    BY <1>4, <1>5 DEF Ledger!Init
  <1> QED
    BY <1>1, <1>3, <1>8, <1>9 DEF LedgerInv

\* The refinement: while one process takes all commands of a participant, and with
\* repeated commands, failing reads and processes halted by a failed commit, any
\* number of processes of the command handler move the published positions only as
\* the ledger would: a position is opened once, a reservation is granted against
\* what stands and stays under the cap, and what is committed had been reserved.
THEOREM LedgerImplemented ==
    ASSUME Steady
    PROVE  Spec => ImplementsLedger
  <1>1. LedgerInv /\ [Next]_vars => LedgerInv' /\ [Ledger!Next]_(Ledger!vars)
    BY LedgerStep
  <1>2. Init => LedgerInv /\ Ledger!Init
    BY LedgerInit
  <1> QED
    BY <1>1, <1>2, PTL DEF Spec, ImplementsLedger, Ledger!Spec

--------------------------------------------------------------------------------
(* The published events add up *)

\* What stands is what the events add up to; of what does not stand yet there is
\* nothing to add.
NetAgrees ==
    \A x \in Participant :
        Net(x) = IF Standing(x) = Absent THEN InitialPosition[x] ELSE Standing(x)

LEMMA LogTypes ==
    ASSUME TypeInv, NEW t \in Transfer
    PROVE  Reservations(t) \in Nat /\ Commitments(t) \in Nat
  <1>1. Cmd("Reserve", t) \in Command /\ Cmd("Commit", t) \in Command
    BY DEF Cmd, Command, FundsOp
  <1>2. PICK j \in Command \X EventName : j = <<Cmd("Reserve", t), "PayerFundsReserved">>
    BY <1>1 DEF EventName
  <1>3. PICK k \in Command \X EventName : k = <<Cmd("Commit", t), "PayeeFundsCommitted">>
    BY <1>1 DEF EventName
  <1> QED
    BY <1>2, <1>3 DEF TypeInv, TypeOK, Reservations, Commitments

LEMMA SumTypes ==
    ASSUME TypeInv, NEW x \in Participant
    PROVE  /\ \A t \in Transfer : Debits(x)[t] \in Int /\ Credits(x)[t] \in Int
           /\ SumFunctionOnSet(Debits(x), Transfer) \in Int
           /\ SumFunctionOnSet(Credits(x), Transfer) \in Int
           /\ Net(x) = InitialPosition[x] + SumFunctionOnSet(Debits(x), Transfer)
                                          - SumFunctionOnSet(Credits(x), Transfer)
           /\ Net(x) \in Int
  <1>1. ASSUME NEW t \in Transfer
        PROVE  Debits(x)[t] \in Int /\ Credits(x)[t] \in Int
    <2>1. Amount[t] \in Int /\ Reservations(t) \in Int /\ Commitments(t) \in Int
      BY LogTypes, ConstantTypes
    <2>2. Amount[t] * Reservations(t) \in Int /\ Amount[t] * Commitments(t) \in Int
      BY <2>1
    <2> QED
      BY <2>2 DEF Debits, Credits
  <1>2. SumFunctionOnSet(Debits(x), Transfer) \in Int /\ SumFunctionOnSet(Credits(x), Transfer) \in Int
    BY <1>1, SumType, TransfersAssumption
  <1>3. DOMAIN Debits(x) = Transfer /\ DOMAIN Credits(x) = Transfer
    BY DEF Debits, Credits
  <1>4. Net(x) = InitialPosition[x] + SumFunctionOnSet(Debits(x), Transfer)
                                    - SumFunctionOnSet(Credits(x), Transfer)
    BY <1>3 DEF Net, SumFunction
  <1> QED
    BY <1>1, <1>2, <1>4, ConstantTypes

\* A reservation adds its amount to what its payer owes, a commitment takes its
\* amount from what its payee owes.
LEMMA DebitsFollow ==
    ASSUME TypeInv, TypeInv', NEW t \in Transfer,
           \A u \in Transfer : Reservations(u)' = IF u = t THEN Reservations(u) + 1 ELSE Reservations(u),
           NEW x \in Participant
    PROVE  SumFunctionOnSet(Debits(x), Transfer)' =
               IF Payer[t] = x THEN SumFunctionOnSet(Debits(x), Transfer) + Amount[t]
                               ELSE SumFunctionOnSet(Debits(x), Transfer)
  <1>1. PICK d \in Int : d = IF Payer[t] = x THEN Amount[t] ELSE 0
    <2>1. Amount[t] \in Int
      BY ConstantTypes
    <2> QED
      BY <2>1
  <1>2. PICK f : f = Debits(x)
    OBVIOUS
  <1>3. PICK h : h = Debits(x)'
    OBVIOUS
  <1>4. \A u \in Transfer : f[u] \in Int
    BY <1>2, SumTypes
  <1>5. ASSUME NEW u \in Transfer
        PROVE  h[u] = IF u = t THEN f[u] + d ELSE f[u]
    <2>1. /\ f[u] = IF Payer[u] = x THEN Amount[u] * Reservations(u) ELSE 0
          /\ h[u] = IF Payer[u] = x THEN Amount[u] * Reservations(u)' ELSE 0
      BY <1>2, <1>3 DEF Debits
    <2>2. Amount[u] \in Int /\ Reservations(u) \in Int
      BY LogTypes, ConstantTypes
    <2>3. Amount[u] * (Reservations(u) + 1) = Amount[u] * Reservations(u) + Amount[u]
      BY <2>2
    <2> QED
      BY <1>1, <1>4, <2>1, <2>3
  <1>6. SumFunctionOnSet(h, Transfer) = IF t \in Transfer THEN SumFunctionOnSet(f, Transfer) + d
                                                          ELSE SumFunctionOnSet(f, Transfer)
    BY <1>4, <1>5, SumFollows, TransfersAssumption
  <1>7. SumFunctionOnSet(f, Transfer) \in Int
    BY <1>2, SumTypes
  <1> QED
    BY <1>1, <1>2, <1>3, <1>6, <1>7

LEMMA CreditsFollow ==
    ASSUME TypeInv, TypeInv', NEW t \in Transfer,
           \A u \in Transfer : Commitments(u)' = IF u = t THEN Commitments(u) + 1 ELSE Commitments(u),
           NEW x \in Participant
    PROVE  SumFunctionOnSet(Credits(x), Transfer)' =
               IF Payee[t] = x THEN SumFunctionOnSet(Credits(x), Transfer) + Amount[t]
                               ELSE SumFunctionOnSet(Credits(x), Transfer)
  <1>1. PICK d \in Int : d = IF Payee[t] = x THEN Amount[t] ELSE 0
    <2>1. Amount[t] \in Int
      BY ConstantTypes
    <2> QED
      BY <2>1
  <1>2. PICK f : f = Credits(x)
    OBVIOUS
  <1>3. PICK h : h = Credits(x)'
    OBVIOUS
  <1>4. \A u \in Transfer : f[u] \in Int
    BY <1>2, SumTypes
  <1>5. ASSUME NEW u \in Transfer
        PROVE  h[u] = IF u = t THEN f[u] + d ELSE f[u]
    <2>1. /\ f[u] = IF Payee[u] = x THEN Amount[u] * Commitments(u) ELSE 0
          /\ h[u] = IF Payee[u] = x THEN Amount[u] * Commitments(u)' ELSE 0
      BY <1>2, <1>3 DEF Credits
    <2>2. Amount[u] \in Int /\ Commitments(u) \in Int
      BY LogTypes, ConstantTypes
    <2>3. Amount[u] * (Commitments(u) + 1) = Amount[u] * Commitments(u) + Amount[u]
      BY <2>2
    <2> QED
      BY <1>1, <1>4, <2>1, <2>3
  <1>6. SumFunctionOnSet(h, Transfer) = IF t \in Transfer THEN SumFunctionOnSet(f, Transfer) + d
                                                          ELSE SumFunctionOnSet(f, Transfer)
    BY <1>4, <1>5, SumFollows, TransfersAssumption
  <1>7. SumFunctionOnSet(f, Transfer) \in Int
    BY <1>2, SumTypes
  <1> QED
    BY <1>1, <1>2, <1>3, <1>6, <1>7

LEMMA NetKept ==
    ASSUME TypeInv, TypeInv', NEW x \in Participant,
           \A u \in Transfer : Reservations(u)' = Reservations(u) /\ Commitments(u)' = Commitments(u)
    PROVE  Net(x)' = Net(x)
  <1>1. Debits(x)' = Debits(x) /\ Credits(x)' = Credits(x)
    BY DEF Debits, Credits
  <1> QED
    BY <1>1 DEF Net

\* Every step of the ledger keeps its position and the sum of its events together.
LEMMA NetStep ==
    ASSUME TypeInv, TypeInv', NetAgrees, [Ledger!Next]_(Ledger!vars)
    PROVE  NetAgrees'
  <1> USE ConstantTypes
  <1>1. ASSUME UNCHANGED Ledger!vars
        PROVE  NetAgrees'
    <2>1. \A x \in Participant : Standing(x)' = Standing(x)
      BY <1>1 DEF Ledger!vars
    <2>2. \A u \in Transfer : Reservations(u)' = Reservations(u) /\ Commitments(u)' = Commitments(u)
      BY <1>1 DEF Ledger!vars
    <2> QED
      BY <2>1, <2>2, NetKept DEF NetAgrees
  <1>2. ASSUME NEW y \in Participant, Ledger!Open(y)
        PROVE  NetAgrees'
    <2>1. Standing(y) = Absent /\ Standing(y)' = InitialPosition[y]
          /\ \A x \in Participant \ {y} : Standing(x)' = Standing(x)
      BY <1>2 DEF Ledger!Open
    <2>2. \A u \in Transfer : Reservations(u)' = Reservations(u) /\ Commitments(u)' = Commitments(u)
      BY <1>2 DEF Ledger!Open
    <2>3. \A x \in Participant : Net(x)' = Net(x)
      BY <2>2, NetKept
    <2> QED
      BY <2>1, <2>3 DEF NetAgrees
  <1>3. ASSUME NEW t \in Transfer, Ledger!Reserve(t)
        PROVE  NetAgrees'
    <2>1. PICK y \in Participant : y = Payer[t]
      OBVIOUS
    <2>2. /\ Standing(y) # Absent /\ Standing(y)' = Standing(y) + Amount[t]
          /\ \A x \in Participant \ {y} : Standing(x)' = Standing(x)
      BY <1>3, <2>1 DEF Ledger!Reserve
    <2>3. \A u \in Transfer : Reservations(u)' = IF u = t THEN Reservations(u) + 1 ELSE Reservations(u)
      BY <1>3 DEF Ledger!Reserve
    <2>4. \A u \in Transfer : Commitments(u)' = Commitments(u)
      BY <1>3 DEF Ledger!Reserve
    <2>5. ASSUME NEW x \in Participant
          PROVE  Net(x)' = (IF Standing(x) = Absent THEN InitialPosition[x] ELSE Standing(x))'
      <3>1. Net(x)' = IF y = x THEN Net(x) + Amount[t] ELSE Net(x)
        <4>1. SumFunctionOnSet(Debits(x), Transfer)' =
                  IF y = x THEN SumFunctionOnSet(Debits(x), Transfer) + Amount[t]
                           ELSE SumFunctionOnSet(Debits(x), Transfer)
          BY <2>1, <2>3, DebitsFollow
        <4>2. SumFunctionOnSet(Credits(x), Transfer)' = SumFunctionOnSet(Credits(x), Transfer)
          BY <2>4 DEF Credits
        <4>3. Net(x)' = InitialPosition[x] + SumFunctionOnSet(Debits(x), Transfer)'
                                           - SumFunctionOnSet(Credits(x), Transfer)'
          BY DEF Net, SumFunction, Debits, Credits
        <4> QED
          BY <4>1, <4>2, <4>3, SumTypes
      <3>2. Net(x) = IF Standing(x) = Absent THEN InitialPosition[x] ELSE Standing(x)
        BY DEF NetAgrees
      <3>3. y = x => Standing(x)' # Absent /\ Net(x) = Standing(x)
        BY <2>2, <3>2, SumTypes
      <3> QED
        BY <2>2, <3>1, <3>2, <3>3
    <2> QED
      BY <2>5 DEF NetAgrees
  <1>4. ASSUME NEW t \in Transfer, Ledger!Settle(t)
        PROVE  NetAgrees'
    <2>1. PICK y \in Participant : y = Payee[t]
      OBVIOUS
    <2>2. /\ Standing(y) # Absent /\ Standing(y)' = Standing(y) - Amount[t]
          /\ \A x \in Participant \ {y} : Standing(x)' = Standing(x)
      BY <1>4, <2>1 DEF Ledger!Settle
    <2>3. \A u \in Transfer : Commitments(u)' = IF u = t THEN Commitments(u) + 1 ELSE Commitments(u)
      BY <1>4 DEF Ledger!Settle
    <2>4. \A u \in Transfer : Reservations(u)' = Reservations(u)
      BY <1>4 DEF Ledger!Settle
    <2>5. ASSUME NEW x \in Participant
          PROVE  Net(x)' = (IF Standing(x) = Absent THEN InitialPosition[x] ELSE Standing(x))'
      <3>1. Net(x)' = IF y = x THEN Net(x) - Amount[t] ELSE Net(x)
        <4>1. SumFunctionOnSet(Credits(x), Transfer)' =
                  IF y = x THEN SumFunctionOnSet(Credits(x), Transfer) + Amount[t]
                           ELSE SumFunctionOnSet(Credits(x), Transfer)
          BY <2>1, <2>3, CreditsFollow
        <4>2. SumFunctionOnSet(Debits(x), Transfer)' = SumFunctionOnSet(Debits(x), Transfer)
          BY <2>4 DEF Debits
        <4>3. Net(x)' = InitialPosition[x] + SumFunctionOnSet(Debits(x), Transfer)'
                                           - SumFunctionOnSet(Credits(x), Transfer)'
          BY DEF Net, SumFunction, Debits, Credits
        <4> QED
          BY <4>1, <4>2, <4>3, SumTypes
      <3>2. Net(x) = IF Standing(x) = Absent THEN InitialPosition[x] ELSE Standing(x)
        BY DEF NetAgrees
      <3>3. y = x => Standing(x)' # Absent /\ Net(x) = Standing(x)
        BY <2>2, <3>2, SumTypes
      <3> QED
        BY <2>2, <3>1, <3>2, <3>3
    <2> QED
      BY <2>5 DEF NetAgrees
  <1> QED
    BY <1>1, <1>2, <1>3, <1>4 DEF Ledger!Next

LEMMA NetInit ==
    ASSUME Init
    PROVE  NetAgrees
  <1>1. \A t \in Transfer : Reservations(t) = 0 /\ Commitments(t) = 0
    BY DEF Init, Reservations, Commitments, Cmd, Command, FundsOp, EventName
  <1>2. \A x \in Participant : Standing(x) = IF x \in Registered THEN InitialPosition[x] ELSE Absent
    BY DEF Init, Standing, Opened, Current
  <1>3. ASSUME NEW x \in Participant
        PROVE  Net(x) = InitialPosition[x]
    <2>1. \A t \in Transfer : Debits(x)[t] = 0 /\ Credits(x)[t] = 0
      <3>1. \A t \in Transfer : Amount[t] * 0 = 0
        BY ConstantTypes
      <3> QED
        BY <1>1, <3>1 DEF Debits, Credits
    <2>2. SumFunctionOnSet(Debits(x), Transfer) = 0 /\ SumFunctionOnSet(Credits(x), Transfer) = 0
      BY <2>1, SumOfNothing, TransfersAssumption
    <2>3. TypeInv
      BY InitTypeInv
    <2> QED
      BY <2>2, <2>3, SumTypes, ConstantTypes
  <1> QED
    BY <1>2, <1>3 DEF NetAgrees

SumInv == LedgerInv /\ NetAgrees /\ CapInv

LEMMA SumsHold ==
    ASSUME Steady
    PROVE  Spec => []SumInv
  <1>1. Init => SumInv
    BY LedgerInit, NetInit, InitCapInv DEF SumInv
  <1>2. SumInv /\ [Next]_vars => SumInv'
    <2> SUFFICES ASSUME SumInv, [Next]_vars PROVE SumInv'
      OBVIOUS
    <2>1. LedgerInv' /\ [Ledger!Next]_(Ledger!vars)
      BY LedgerStep DEF SumInv
    <2>2. CapInv'
      BY CapStep DEF SumInv
    <2>3. NetAgrees'
      BY <2>1, NetStep DEF SumInv, LedgerInv
    <2> QED
      BY <2>1, <2>2, <2>3 DEF SumInv
  <1> QED
    BY <1>1, <1>2, PTL DEF Spec

\* No update is lost between the aggregate, the publisher and the repository: in
\* every reachable state in which no process moves a participant's position, the
\* state events, the sum of the domain events, redis and the memory of the process
\* that takes the participant's commands tell the same position.
THEOREM PositionsAgree ==
    ASSUME Steady
    PROVE  Spec => []LedgerAgrees
  <1>1. SumInv => LedgerAgrees
    <2> SUFFICES ASSUME SumInv, NEW x \in Participant, Opened(x), ~Moving(x)
                 PROVE  /\ Current(x) = Net(x)
                        /\ redis[x] = Net(x)
                        /\ memory[owner[FundsPartition[x]]][x] \in {Absent, Net(x)}
      BY DEF LedgerAgrees
    <2>1. Standing(x) = Current(x) /\ Standing(x) # Absent
      BY StandingType DEF SumInv, LedgerInv
    <2>2. Net(x) = Standing(x)
      BY <2>1 DEF SumInv, NetAgrees
    <2>3. CopiesAgree(x) /\ owner = InitialOwner
      BY DEF SumInv, LedgerInv, LedgerCore
    <2>4. \A p \in Proc : ~Storing(p, x) /\ ~Changing(p, x)
      BY DEF Moving, Storing, Changing
    <2>5. owner[FundsPartition[x]] = Home(x)
      BY <2>3 DEF Steady, Home
    <2> QED
      BY <2>1, <2>2, <2>3, <2>4, <2>5 DEF CopiesAgree
  <1>2. Spec => []SumInv
    BY SumsHold
  <1> QED
    BY <1>1, <1>2, PTL

\* The sum of what was granted to a payer, less what it was paid, stays under its
\* net debit cap, although several processes rule at the same time.
THEOREM NetStaysCapped ==
    ASSUME Steady
    PROVE  Spec => []NetUnderCap
  <1>1. SumInv => NetUnderCap
    <2> SUFFICES ASSUME SumInv, NEW x \in Participant, Opened(x)
                 PROVE  Capped(x, Net(x))
      BY DEF NetUnderCap
    <2>1. Standing(x) = Current(x) /\ Standing(x) # Absent
      BY StandingType DEF SumInv, LedgerInv
    <2>2. Net(x) = Current(x)
      BY <2>1 DEF SumInv, NetAgrees
    <2>3. stateLog[x] \in Seq(Int) /\ stateLog[x] # <<>>
      BY DEF SumInv, LedgerInv, TypeInv, TypeOK, Pos, Opened
    <2>4. PICK i \in DOMAIN stateLog[x] : Current(x) = stateLog[x][i]
      BY <2>3 DEF Current
    <2> QED
      BY <2>2, <2>4 DEF SumInv, CapInv, PositionsCapped
  <1>2. Spec => []SumInv
    BY SumsHold
  <1> QED
    BY <1>1, <1>2, PTL

--------------------------------------------------------------------------------
(* Answers are counted *)

\* The copies of c its process has fetched.
Fetched(c) == {i \in 1..next[PartitionOf(c)] : topic[PartitionOf(c)][i] = c}

\* That process has a copy in hand and has not answered it.
Unanswered(c) ==
    LET p == InitialOwner[PartitionOf(c)]
    IN  cur[p] = c /\ pc[p] \in {"load", "handle", "publish"}

\* Every answer belongs to a copy that was fetched before the one in hand.
Counted(c) == IF Unanswered(c) THEN Answers(c) < Cardinality(Fetched(c))
                               ELSE Answers(c) <= Cardinality(Fetched(c))

AnswersCounted == \A c \in Command : Counted(c)

LEMMA FetchedFinite ==
    ASSUME TypeInv, Placed, NEW c \in Command
    PROVE  /\ IsFiniteSet(Fetched(c)) /\ Cardinality(Fetched(c)) \in Nat
           /\ Cardinality(Fetched(c)) <= Copies(c)
  <1>1. PICK q \in Partition : q = PartitionOf(c)
    BY PartitionOfType
  <1>2. topic[q] \in Seq(Command) /\ next[q] \in Nat /\ next[q] <= Len(topic[q])
    BY DEF TypeInv, TypeOK, Placed
  <1>3. PICK T : T = {i \in DOMAIN topic[q] : topic[q][i] = c}
    OBVIOUS
  <1>4. IsFiniteSet(1..Len(topic[q])) /\ DOMAIN topic[q] = 1..Len(topic[q])
    BY <1>2, FS_Interval
  <1>5. IsFiniteSet(T)
    BY <1>3, <1>4, FS_Subset
  <1>6. Fetched(c) \in SUBSET T
    BY <1>1, <1>2, <1>3 DEF Fetched
  <1>7. Copies(c) = Cardinality(T)
    BY <1>1, <1>3 DEF Copies
  <1> QED
    BY <1>5, <1>6, <1>7, FS_Subset, FS_CardinalityType

LEMMA AnswersType ==
    ASSUME TypeInv, NEW c \in Command
    PROVE  /\ Answers(c) \in Int
           /\ Answers(c) = SumFunctionOnSet([n \in EventName |-> domainLog[<<c, n>>]], EventName)
           /\ \A n \in EventName : [m \in EventName |-> domainLog[<<c, m>>]][n] \in Int
           /\ IsFiniteSet(EventName)
  <1>1. IsFiniteSet(EventName)
    <2>1. \A S, x : IsFiniteSet(S) => IsFiniteSet(S \union {x})
      BY FS_AddElement
    <2>2. IsFiniteSet({})
      BY FS_EmptySet
    <2>3. EventName = ((((({} \union {"PayerFundsReserved"}) \union {"PayeeFundsCommitted"})
                          \union {"NetCapLimitExceeded"}) \union {"InvalidParticipant"})
                          \union {"ParticipantCreated"}) \union {"DuplicateParticipant"}
      BY DEF EventName
    <2> QED
      BY <2>1, <2>2, <2>3, Zenon
  <1>2. \A n \in EventName : domainLog[<<c, n>>] \in Int
    <2> SUFFICES ASSUME NEW n \in EventName PROVE domainLog[<<c, n>>] \in Int
      OBVIOUS
    <2>1. PICK k \in Command \X EventName : k = <<c, n>>
      OBVIOUS
    <2> QED
      BY <2>1 DEF TypeInv, TypeOK
  <1>3. Answers(c) = SumFunctionOnSet([n \in EventName |-> domainLog[<<c, n>>]], EventName)
    BY DEF Answers, SumFunction
  <1> QED
    BY <1>1, <1>2, <1>3, SumType

\* A publication answers the command in hand at most once, and no other.
LEMMA AnswersFollow ==
    ASSUME TypeInv, NEW p \in Proc, cur[p] \in Command, NEW D, Deliver(p, D), NEW c \in Command
    PROVE  Answers(c)' = Answers(c) \/ (cur[p] = c /\ Answers(c)' = Answers(c) + 1)
  <1>1. PICK f : f = [n \in EventName |-> domainLog[<<c, n>>]]
    OBVIOUS
  <1>2. PICK h : h = [n \in EventName |-> domainLog'[<<c, n>>]]
    OBVIOUS
  <1>3. Answers(c) = SumFunctionOnSet(f, EventName) /\ Answers(c)' = SumFunctionOnSet(h, EventName)
    BY <1>1, <1>2 DEF Answers, SumFunction
  <1>4. IsFiniteSet(EventName) /\ \A n \in EventName : f[n] \in Int
    BY <1>1, AnswersType
  <1>5. evt[p] \in EventName \union {"none"} /\ domainLog \in [Command \X EventName -> Nat]
    BY DEF TypeInv, TypeOK
  <1>6. CASE domainLog' = domainLog
    BY <1>1, <1>2, <1>3, <1>6
  <1>7. CASE domainLog' = [domainLog EXCEPT ![<<cur[p], evt[p]>>] = @ + 1] /\ evt[p] # "none"
    <2>1. PICK d \in {0, 1} : d = IF cur[p] = c THEN 1 ELSE 0
      OBVIOUS
    <2>2. ASSUME NEW n \in EventName
          PROVE  h[n] = IF n = evt[p] THEN f[n] + d ELSE f[n]
      <3>1. PICK k \in Command \X EventName : k = <<c, n>>
        OBVIOUS
      <3>2. PICK e \in Command \X EventName : e = <<cur[p], evt[p]>>
        BY <1>5, <1>7
      <3>3. f[n] = domainLog[k] /\ h[n] = domainLog'[k] /\ domainLog[k] \in Nat
        BY <1>1, <1>2, <1>5, <3>1
      <3>4. domainLog'[k] = IF k = e THEN domainLog[k] + 1 ELSE domainLog[k]
        BY <1>5, <1>7, <3>2
      <3>5. k = e <=> cur[p] = c /\ n = evt[p]
        BY <3>1, <3>2
      <3> QED
        BY <2>1, <3>3, <3>4, <3>5
    <2>3. SumFunctionOnSet(h, EventName) = SumFunctionOnSet(f, EventName) + d
      <3>1. PICK t \in EventName : t = evt[p]
        BY <1>5, <1>7
      <3>2. \A n \in EventName : h[n] = IF n = t THEN f[n] + d ELSE f[n]
        BY <2>2, <3>1
      <3>3. d \in Int
        BY <2>1
      <3> QED
        BY <1>4, <3>2, <3>3, SumFollows
    <2>4. SumFunctionOnSet(f, EventName) \in Int
      BY <1>4, SumType
    <2> QED
      BY <1>3, <2>1, <2>3, <2>4
  <1> QED
    BY <1>6, <1>7 DEF Deliver

LEMMA CountTypes ==
    ASSUME TypeInv, Placed, NEW c \in Command
    PROVE  Answers(c) \in Int /\ Cardinality(Fetched(c)) \in Int
  <1>1. Answers(c) \in Int
    BY AnswersType
  <1>2. Cardinality(Fetched(c)) \in Nat
    BY FetchedFinite
  <1> QED
    BY <1>1, <1>2

LEMMA CountKept ==
    ASSUME TypeInv, Placed, NEW c \in Command, Counted(c),
           Answers(c)' = Answers(c), Fetched(c)' = Fetched(c), Unanswered(c)' => Unanswered(c)
    PROVE  Counted(c)'
  <1>1. Answers(c) \in Int /\ Cardinality(Fetched(c)) \in Int
    BY CountTypes
  <1>2. Cardinality(Fetched(c))' = Cardinality(Fetched(c))
    OBVIOUS
  <1> QED
    BY <1>1, <1>2 DEF Counted

\* The process that holds a command is the one its partition is assigned to.
LEMMA Holder ==
    ASSUME Steady, LedgerInv, NEW p \in Proc, Busy(p)
    PROVE  cur[p] \in Command /\ InitialOwner[PartitionOf(cur[p])] = p
  <1>1. PICK c \in Command : c = cur[p]
    BY BusyRoot DEF LedgerInv
  <1>2. HandAgrees(p, Root(c))
    BY <1>1 DEF LedgerInv, LedgerCore
  <1> QED
    BY <1>1, <1>2, HomeOfCommand DEF HandAgrees

LEMMA CountQuiet ==
    ASSUME LedgerInv, AnswersCounted, NEW p \in Proc,
           UNCHANGED <<next, topic, domainLog>>,
           \A r \in Proc \ {p} : cur'[r] = cur[r] /\ pc'[r] = pc[r],
           \/ cur'[p] = NoCmd
           \/ /\ cur'[p] = cur[p]
              /\ pc'[p] \in {"load", "handle", "publish"} => pc[p] \in {"load", "handle", "publish"}
    PROVE  AnswersCounted'
  <1> SUFFICES ASSUME NEW c \in Command PROVE Counted(c)'
    BY DEF AnswersCounted
  <1>1. Answers(c)' = Answers(c) /\ Fetched(c)' = Fetched(c)
    BY DEF Answers, Fetched
  <1>2. PICK r \in Proc : r = InitialOwner[PartitionOf(c)]
    BY PartitionOfType, ConstantTypes
  <1>3. Unanswered(c)' => Unanswered(c)
    BY <1>2, ConstantTypes DEF Unanswered
  <1> QED
    BY <1>1, <1>3, CountKept DEF LedgerInv, AnswersCounted, Counted

LEMMA CountProduce ==
    ASSUME LedgerInv, AnswersCounted, NEW d \in Command, Produce(d)
    PROVE  AnswersCounted'
  <1> SUFFICES ASSUME NEW c \in Command PROVE Counted(c)'
    BY DEF AnswersCounted
  <1>1. UNCHANGED <<next, pc, cur, domainLog>>
    BY DEF Produce, handVars, logVars
  <1>2. Fetched(c)' = Fetched(c)
    <2>1. PICK q \in Partition : q = PartitionOf(c)
      BY PartitionOfType
    <2>2. topic[q] \in Seq(Command) /\ next[q] \in Nat /\ next[q] <= Len(topic[q])
      BY DEF LedgerInv, TypeInv, TypeOK, Placed
    <2>3. topic'[q] = topic[q] \/ topic'[q] = Append(topic[q], d)
      BY PartitionOfType DEF Produce, LedgerInv, TypeInv, TypeOK
    <2>4. \A i \in 1..next[q] : topic'[q][i] = topic[q][i]
      BY <2>2, <2>3
    <2> QED
      BY <1>1, <2>1, <2>4 DEF Fetched
  <1>3. Answers(c)' = Answers(c) /\ (Unanswered(c)' => Unanswered(c))
    BY <1>1 DEF Answers, Unanswered
  <1> QED
    BY <1>2, <1>3, CountKept DEF LedgerInv, AnswersCounted, Counted

LEMMA CountFetch ==
    ASSUME LedgerInv, AnswersCounted, NEW p \in Proc, NEW q \in Partition, Fetch(p, q)
    PROVE  AnswersCounted'
  <1> SUFFICES ASSUME NEW c \in Command PROVE Counted(c)'
    BY DEF AnswersCounted
  <1>1. TypeInv /\ Placed /\ pc[p] = "idle" /\ InitialOwner[q] = p
    BY DEF Fetch, LedgerInv, LedgerCore
  <1>2. PICK i \in DOMAIN topic[q] : i = next[q] + 1
    BY <1>1 DEF Fetch, TypeInv, TypeOK
  <1>3. PICK d \in Command : d = topic[q][i] /\ PartitionOf(d) = q
    BY <1>1, <1>2 DEF TypeInv, TypeOK, Placed
  <1>4. /\ UNCHANGED <<topic, domainLog>>
        /\ next' = [next EXCEPT ![q] = i]
        /\ pc'[p] = "load" /\ cur'[p] = d
        /\ \A r \in Proc \ {p} : cur'[r] = cur[r] /\ pc'[r] = pc[r]
    BY <1>1, <1>2, <1>3 DEF Fetch, logVars, TypeInv, TypeOK
  <1>5. Answers(c)' = Answers(c)
    BY <1>4 DEF Answers
  <1>6. PICK r \in Proc : r = InitialOwner[PartitionOf(c)]
    BY PartitionOfType, ConstantTypes
  <1>7. next \in [Partition -> Nat]
    BY <1>1 DEF TypeInv, TypeOK
  <1>8. CASE c # d
    <2>1. Fetched(c)' = Fetched(c)
      <3>1. PICK s \in Partition : s = PartitionOf(c)
        BY PartitionOfType
      <3>2. CASE s # q
        BY <1>4, <1>7, <3>1, <3>2 DEF Fetched
      <3>3. CASE s = q
        <4>1. next'[q] = next[q] + 1 /\ topic[q][next[q] + 1] # c /\ next[q] \in Nat
          BY <1>2, <1>3, <1>4, <1>7, <1>8
        <4> QED
          BY <1>4, <3>1, <3>3, <4>1 DEF Fetched
      <3> QED
        BY <3>2, <3>3
    <2>2. Unanswered(c)' => Unanswered(c)
      BY <1>4, <1>6, <1>8 DEF Unanswered
    <2> QED
      BY <1>1, <1>5, <2>1, <2>2, CountKept DEF AnswersCounted, Counted
  <1>9. CASE c = d
    <2>1. ~Unanswered(c)
      BY <1>1, <1>3, <1>9 DEF Unanswered
    <2>2. Fetched(c)' = Fetched(c) \union {i}
      <3>1. next'[q] = next[q] + 1 /\ next[q] \in Nat
        BY <1>2, <1>4, <1>7
      <3> QED
        BY <1>2, <1>3, <1>4, <1>9, <3>1 DEF Fetched
    <2>3. i \notin Fetched(c)
      BY <1>2, <1>3, <1>7, <1>9 DEF Fetched
    <2>4. Cardinality(Fetched(c))' = Cardinality(Fetched(c)) + 1
      <3>1. Cardinality(Fetched(c) \union {i}) = Cardinality(Fetched(c)) + 1
        BY <1>1, <2>3, FetchedFinite, FS_AddElement
      <3> QED
        BY <2>2, <3>1
    <2>5. Answers(c) \in Int /\ Cardinality(Fetched(c)) \in Int /\ Answers(c) <= Cardinality(Fetched(c))
      BY <1>1, <2>1, CountTypes DEF AnswersCounted, Counted
    <2> QED
      BY <1>5, <2>4, <2>5 DEF Counted
  <1> QED
    BY <1>8, <1>9

LEMMA CountPublish ==
    ASSUME Steady, LedgerInv, AnswersCounted, NEW p \in Proc, Publish(p)
    PROVE  AnswersCounted'
  <1> SUFFICES ASSUME NEW c \in Command PROVE Counted(c)'
    BY DEF AnswersCounted
  <1>1. TypeInv /\ Placed /\ pc[p] = "publish" /\ Busy(p) /\ Deliver(p, {"domain", "state"})
    BY DEF Publish, LedgerInv, Busy
  <1>2. cur[p] \in Command /\ InitialOwner[PartitionOf(cur[p])] = p
    BY <1>1, Holder
  <1>3. /\ UNCHANGED <<topic, next, cur>>
        /\ pc'[p] \in {"commit", "store"}
        /\ \A r \in Proc \ {p} : pc'[r] = pc[r]
    BY <1>1 DEF Publish, PublishTo, groupVars, TypeInv, TypeOK
  <1>4. Fetched(c)' = Fetched(c)
    BY <1>3 DEF Fetched
  <1>5. PICK r \in Proc : r = InitialOwner[PartitionOf(c)]
    BY PartitionOfType, ConstantTypes
  <1>6. Unanswered(c)' => Unanswered(c)
    BY <1>3, <1>5 DEF Unanswered
  <1>7. CASE Answers(c)' = Answers(c)
    BY <1>1, <1>4, <1>6, <1>7, CountKept DEF AnswersCounted, Counted
  <1>8. CASE cur[p] = c /\ Answers(c)' = Answers(c) + 1
    <2>1. Unanswered(c) /\ ~Unanswered(c)'
      BY <1>1, <1>2, <1>3, <1>8 DEF Unanswered
    <2>2. Answers(c) \in Int /\ Cardinality(Fetched(c)) \in Int /\ Answers(c) < Cardinality(Fetched(c))
      BY <1>1, <2>1, CountTypes DEF AnswersCounted, Counted
    <2>3. Cardinality(Fetched(c))' = Cardinality(Fetched(c))
      BY <1>4
    <2> QED
      BY <1>8, <2>1, <2>2, <2>3 DEF Counted
  <1> QED
    BY <1>1, <1>2, <1>7, <1>8, AnswersFollow

LEMMA CountStep ==
    ASSUME Steady, LedgerInv, LedgerInv', AnswersCounted, [Next]_vars
    PROVE  AnswersCounted'
  <1>1. ASSUME NEW kind \in {"crash", "rebalance", "publish", "store"}
        PROVE  ~Failure(kind)
    BY <1>1 DEF Failure, Steady
  <1>2. ASSUME NEW p \in Proc, LoadRoot(p) \/ Handle(p) \/ Store(p) \/ ReadFails(p)
        PROVE  AnswersCounted'
    <2>1. UNCHANGED <<next, topic, cur>> /\ \A r \in Proc \ {p} : pc'[r] = pc[r]
      BY <1>2, InsideSteps DEF LedgerInv, Inside, groupVars
    <2>2. UNCHANGED domainLog
      BY <1>2 DEF LoadRoot, Handle, HandleCreate, RefuseUnknown, HandleReserve, HandleCommit,
                  HandleSnapshot, Decide, Store, StoreStep, ReadFails, logVars
    <2>3. pc[p] \in {"load", "handle"} \/ pc'[p] = "commit"
      BY <1>2 DEF LoadRoot, Handle, HandleCreate, RefuseUnknown, HandleReserve, HandleCommit,
                  HandleSnapshot, Store, StoreStep, ReadFails, LedgerInv, TypeInv, TypeOK
    <2> QED
      BY <2>1, <2>2, <2>3, CountQuiet
  <1>3. ASSUME NEW p \in Proc, Ack(p) \/ AckFails(p)
        PROVE  AnswersCounted'
    <2>1. UNCHANGED <<next, topic, domainLog>>
      BY <1>3 DEF Ack, AckFails, groupVars, logVars
    <2>2. cur'[p] = NoCmd /\ \A r \in Proc \ {p} : cur'[r] = cur[r] /\ pc'[r] = pc[r]
      BY <1>3 DEF Ack, AckFails, LetGo, LedgerInv, TypeInv, TypeOK
    <2> QED
      BY <2>1, <2>2, CountQuiet
  <1>4. ASSUME NEW p \in Proc
        PROVE  ~Republish(p) /\ ~PublishFails(p) /\ ~RepublishFails(p) /\ ~StoreFails(p) /\ ~Crash(p)
               /\ \A q \in Partition : ~Rebalance(q, p)
    <2>1. ~Republish(p)
      BY BusyRoot DEF Republish, LedgerInv, LedgerCore, HandAgrees, Busy
    <2>2. ~PublishFails(p) /\ ~RepublishFails(p) /\ ~StoreFails(p) /\ ~Crash(p)
      BY <1>1 DEF PublishFails, RepublishFails, StoreFails, Crash
    <2>3. \A q \in Partition : ~Rebalance(q, p)
      BY <1>1 DEF Rebalance
    <2> QED
      BY <2>1, <2>2, <2>3
  <1>5. CASE UNCHANGED vars
    <2>1. UNCHANGED <<next, topic, domainLog, cur, pc>>
      BY <1>5 DEF vars
    <2> QED
      BY <2>1 DEF AnswersCounted, Counted, Answers, Fetched, Unanswered
  <1> QED
    BY <1>2, <1>3, <1>4, <1>5, CountProduce, CountFetch, CountPublish DEF Next, Work, Fail

\* Each copy of a command gets at most one answer.
THEOREM AnsweredAtMostOnce ==
    ASSUME Steady
    PROVE  Spec => []AnsweredOnce
  <1> DEFINE CountInv == LedgerInv /\ AnswersCounted
  <1>1. Init => CountInv
    <2> SUFFICES ASSUME Init, NEW c \in Command PROVE LedgerInv /\ Counted(c)
      BY LedgerInit DEF AnswersCounted
    <2>1. LedgerInv
      BY LedgerInit
    <2>2. \A n \in EventName : [m \in EventName |-> domainLog[<<c, m>>]][n] = 0
      BY DEF Init
    <2>3. Answers(c) = 0
      BY <2>1, <2>2, AnswersType, SumOfNothing DEF LedgerInv
    <2>4. ~Unanswered(c)
      BY PartitionOfType, ConstantTypes DEF Init, Unanswered
    <2>5. Cardinality(Fetched(c)) >= 0
      BY <2>1, FetchedFinite DEF LedgerInv
    <2> QED
      BY <2>1, <2>3, <2>4, <2>5 DEF Counted
  <1>2. CountInv /\ [Next]_vars => CountInv'
    BY CountStep, LedgerStep
  <1>3. CountInv => AnsweredOnce
    <2> SUFFICES ASSUME CountInv, NEW c \in Command PROVE Answers(c) <= Copies(c)
      BY DEF AnsweredOnce
    <2>1. Answers(c) \in Int /\ Cardinality(Fetched(c)) \in Int
      BY CountTypes DEF LedgerInv
    <2>2. Answers(c) <= Cardinality(Fetched(c))
      BY <2>1 DEF AnswersCounted, Counted
    <2>3. Cardinality(Fetched(c)) <= Copies(c) /\ Copies(c) \in Int
      <3>1. IsFiniteSet({i \in DOMAIN topic[PartitionOf(c)] : topic[PartitionOf(c)][i] = c})
        <4>1. topic[PartitionOf(c)] \in Seq(Command)
          BY PartitionOfType DEF LedgerInv, TypeInv, TypeOK
        <4>2. PICK s \in Seq(Command) : s = topic[PartitionOf(c)]
          BY <4>1
        <4>3. IsFiniteSet(1..Len(s)) /\ DOMAIN s = 1..Len(s)
          BY FS_Interval
        <4>4. {i \in DOMAIN s : s[i] = c} \in SUBSET (1..Len(s))
          BY <4>3
        <4> QED
          BY <4>2, <4>3, <4>4, FS_Subset
      <3>2. Copies(c) \in Nat
        BY <3>1, FS_CardinalityType DEF Copies
      <3> QED
        BY <3>2, FetchedFinite DEF LedgerInv
    <2> QED
      BY <2>1, <2>2, <2>3
  <1> QED
    BY <1>1, <1>2, <1>3, PTL DEF Spec

================================================================================
