------------------------------ MODULE NetDebitCap ------------------------------
(******************************************************************************)
(* What the participants component promises: one net position per             *)
(* participant, moved by reservations that respect the net debit cap and by   *)
(* commitments of transfers that were reserved, each as one indivisible step. *)
(******************************************************************************)
EXTENDS Integers

CONSTANTS Participant, Transfer, Payer, Payee, Amount, Limit, InitialPosition,
          Registered, Absent

VARIABLES
    net,       \* Participant -> position, Absent until it is opened
    reserved,  \* Transfer -> times it was reserved
    settled    \* Transfer -> times it was committed

vars == <<net, reserved, settled>>

Init ==
    /\ net = [x \in Participant |-> IF x \in Registered THEN InitialPosition[x]
                                                       ELSE Absent]
    /\ reserved = [t \in Transfer |-> 0]
    /\ settled = [t \in Transfer |-> 0]

Open(x) ==
    /\ net[x] = Absent
    /\ net' = [net EXCEPT ![x] = InitialPosition[x]]
    /\ UNCHANGED <<reserved, settled>>

Reserve(t) ==
    /\ net[Payer[t]] # Absent
    /\ Amount[t] > 0
    /\ Limit[Payer[t]] # Absent
    /\ net[Payer[t]] + Amount[t] < Limit[Payer[t]]
    /\ net' = [net EXCEPT ![Payer[t]] = @ + Amount[t]]
    /\ reserved' = [reserved EXCEPT ![t] = @ + 1]
    /\ UNCHANGED settled

Settle(t) ==
    /\ net[Payee[t]] # Absent
    /\ reserved[t] > 0
    /\ net' = [net EXCEPT ![Payee[t]] = @ - Amount[t]]
    /\ settled' = [settled EXCEPT ![t] = @ + 1]
    /\ UNCHANGED reserved

Next == \/ \E x \in Participant : Open(x)
        \/ \E t \in Transfer : Reserve(t) \/ Settle(t)

Spec == Init /\ [][Next]_vars

================================================================================
