-------------------------------- MODULE MCSwitch --------------------------------
(******************************************************************************)
(* Values of the constants of Switch for TLC: a pays b twice; the cap of a    *)
(* leaves room for one of the two, or for t1 twice.                           *)
(******************************************************************************)
EXTENDS Switch, TLC

CONSTANTS a, b, t1, t2

MCPayer  == [t \in Transfer |-> a]
MCPayee  == [t \in Transfer |-> b]
MCAmount == t1 :> 1 @@ t2 :> 2
MCLimit  == [x \in Participant |-> 3]

\* Both transfers, or t1 alone: requested twice, with one failure, or between
\* participants of which one is unknown.
Run(r, fsps, n) ==
    [registered : {fsps}, payeeSide : {"adapter", "simulator"}, requests : {r}, faults : {n}]
Only(n) == t1 :> n @@ t2 :> 0

MCSettings == Run(t1 :> 1 @@ t2 :> 1, {a, b}, 0) \union Run(Only(2), {a, b}, 0) \union
              Run(Only(1), {a, b}, 1) \union Run(Only(1), {a}, 0) \union Run(Only(1), {b}, 0)

RefusalSettings == Run(t1 :> 1 @@ t2 :> 1, {a, b}, 0)
================================================================================
