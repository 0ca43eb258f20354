----------------------------- MODULE MCParticipant -----------------------------
(******************************************************************************)
(* Values of the constants of ParticipantLedger for TLC: two FSPs that pay    *)
(* each other, two processes, two partitions.                                 *)
(******************************************************************************)
EXTENDS ParticipantLedger, TLC

CONSTANTS a, b, t1, t2, t3, p1, p2, q1, q2

\* t1 and t2 go from a to b, t3 comes back.
MCPayer  == [t \in Transfer |-> IF t = t3 THEN b ELSE a]
MCPayee  == [t \in Transfer |-> IF t = t3 THEN a ELSE b]
MCAmount == [t \in Transfer |-> 1]

AllAccounts == Participant \X Transfer

\* One reservation fits under a cap of 2; a second needs a commitment first.
MCLimit   == [x \in Participant |-> 2]
MCInitial == [x \in Participant |-> 0]

\* Every participant has a partition of its own, and each has a process.
MCFundsPartition == a :> q1 @@ b :> q2
MCKeyPartition   == MCFundsPartition
MCOwner          == q1 :> p1 @@ q2 :> p2

\* One partition that the processes hand to each other.
OnePartition == [x \in Participant |-> q1]
OneOwner     == [q \in Partition |-> p1]

\* A test tool sends the commands of t3, maybe before b exists; one of its two
\* participants has no account in its currency.
MCDirect       == [op : {"Reserve"}, t : {t3}]
PayerNoAccount == AllAccounts \ {<<b, t3>>}
PayeeNoAccount == AllAccounts \ {<<a, t3>>}
================================================================================
