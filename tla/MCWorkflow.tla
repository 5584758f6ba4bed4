------------------------------ MODULE MCWorkflow ------------------------------
(* Instances of EditorialWorkflow for TLC, on one document owned by u1.    *)
EXTENDS EditorialWorkflow, TLC

CONSTANTS u1, u2, d1, r1, r2, run1, run2, textA, textB

SeedOwnerU1 == d1 :> u1
MCNumber == 1 .. 6

(* One runner for the owner, called for one run and again for the same; the *)
(* document is empty until its owner writes the first version.              *)
SoleUser == {u1}
SoleAccess == d1 :> (u1 :> Owner)
SoleContext == {[run |-> run1, user |-> u1, document |-> d1]}
NoSeedVersions == {}

(* Two runners, each of which may be called for the owner's run and for the *)
(* run of u2, who may edit the document; it has one version by the owner.   *)
TwoUsers == {u1, u2}
SharedAccess == d1 :> ((u1 :> Owner) @@ (u2 :> Edit))
SharedContexts ==
    {[run |-> run1, user |-> u1, document |-> d1],
     [run |-> run2, user |-> u2, document |-> d1]}
SharedSeedVersions ==
    {[document |-> d1, number |-> 1, content |-> textA, author |-> u1, run |-> NoRun]}
TwoRunners == {r1, r2}
RunnerSymmetry == Permutations(TwoRunners)
=============================================================================
