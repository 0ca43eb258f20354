------------------------------- MODULE MCTransfer -------------------------------
(******************************************************************************)
(* Values of the constants of TransferCommands for TLC: the commands of one   *)
(* or two transfers in a partition that two processes hand to each other.     *)
(******************************************************************************)
EXTENDS TransferCommands

CONSTANTS p1

OnePartition == [t \in Transfer |-> CHOOSE q \in Partition : TRUE]
OneOwner     == [q \in Partition |-> p1]

================================================================================
