--------------------------- MODULE MCTokenBucket ---------------------------
(***************************************************************************)
(* TokenBucket for TLC: consumers with a small, a middle and a full-bucket *)
(* demand, as in main.cpp but for the scale.                               *)
(***************************************************************************)
EXTENDS TokenBucket

CONSTANTS small, middle, full

DemandOf == [c \in Consumer |-> CASE c = small -> 1
                                  [] c = middle -> 2
                                  [] c = full -> TakenMax]

RoundsOf == [c \in Consumer |-> IF c = small THEN 3 ELSE 2]
=============================================================================
