----------------------------- MODULE MCTransfer -----------------------------
(* Two processes fetch the same packages into one cache.                   *)
EXTENDS Transfer

CONSTANTS p1, p2, a, b

MCWanted == [p \in Proc |-> <<a>>]
MCAttempts == [p \in Proc |-> IF p = p1 THEN 2 ELSE 1]
MCSize == <<3, 2, 1>>
=============================================================================
