----------------------------- MODULE MCKeyedMutex ----------------------------
(***************************************************************************)
(* Three sections on one key and one on another.                           *)
(***************************************************************************)
EXTENDS KeyedMutex, TLC

CONSTANTS s1, s2, s3, t1, k1, k2

MCKeyOf == [s \in {s1, s2, s3} |-> k1] @@ (t1 :> k2)
=============================================================================
