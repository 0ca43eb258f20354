---------------------------- MODULE TransferLifecycle ----------------------------
(******************************************************************************)
(* What the transfers component promises: a transfer is accepted, reserved,   *)
(* fulfilled and committed in this order, and each step is announced once.    *)
(******************************************************************************)
EXTENDS Integers

CONSTANTS Transfer, Absent

VARIABLES
    status,    \* Transfer -> where it stands, Absent until it is accepted
    announced  \* Transfer -> announcements made of it

vars == <<status, announced>>

\* The status that follows each status.
Successor(s) == CASE s = Absent             -> "RECEIVED_PREPARE"
                  [] s = "RECEIVED_PREPARE" -> "RESERVED"
                  [] s = "RESERVED"         -> "RECEIVED_FULFIL"
                  [] s = "RECEIVED_FULFIL"  -> "COMMITTED"

Init ==
    /\ status = [t \in Transfer |-> Absent]
    /\ announced = [t \in Transfer |-> 0]

Advance(t) ==
    /\ status[t] # "COMMITTED"
    /\ status' = [status EXCEPT ![t] = Successor(@)]
    /\ announced' = [announced EXCEPT ![t] = @ + 1]

Next == \E t \in Transfer : Advance(t)

Spec == Init /\ [][Next]_vars

================================================================================
