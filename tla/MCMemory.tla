-------------------------------- MODULE MCMemory --------------------------------
(* Instances of PrivateMemory for TLC. *)
EXTENDS PrivateMemory, TLC

CONSTANTS p1, p2, u1, u2, u3

(* Every user has one process; one process serves two users in turn. *)
OneEach == p1 :> {u1, u2} @@ p2 :> {u3}

(* Two processes run for the same user. *)
Shared == p1 :> {u1} @@ p2 :> {u1}
=============================================================================
