----------------------------- MODULE MCRepository -----------------------------
(* A small instance of DomainRepository for TLC: two users, two documents, *)
(* one run; the numbers clients present are 1 and 2.  MaxRows bounds the   *)
(* rows of the append-only tables together: a number is judged against the *)
(* one version before it, a reference against the one version it names,    *)
(* and no operation reads rows of two of these tables.                     *)
EXTENDS DomainRepository, TLC

CONSTANTS u1, u2, d1, d2

MCUser == {u1, u2}
MCDocument == {d1, d2}
MCNumber == 1 .. 2
MaxRows == 2

BoundedNext ==
    /\ RepoNext
    /\ Cardinality(versions' \cup comments' \cup events' \cup handoffs') <= MaxRows

BoundedSpec == RepoInit /\ [][BoundedNext]_repoVars

MCSymmetry == Permutations(MCUser) \cup Permutations(MCDocument)
=============================================================================
