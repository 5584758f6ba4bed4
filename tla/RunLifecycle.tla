------------------------------ MODULE RunLifecycle ------------------------------
(***************************************************************************)
(* What an editorial run promises whoever reads its persisted record: a    *)
(* run is created once, ends at most once, and completes only with one     *)
(* version that the Critic accepted and that a human approved after that   *)
(* acceptance; a declined approval rules completion out.                   *)
(*                                                                         *)
(* EditorialWorkflow implements this specification: see Life there.        *)
(***************************************************************************)
CONSTANTS
    RunId,   \* workflow runs
    Version  \* document versions

VARIABLES
    status,    \* the persisted status of each run, or "absent"
    accepted,  \* the versions the Critic accepted in each run
    released,  \* the accepted versions a human approved in each run
    declined   \* the runs in which an approval was declined

lifeVars == <<status, accepted, released, declined>>

LifeInit ==
    /\ status = [id \in RunId |-> "absent"]
    /\ accepted = [id \in RunId |-> {}]
    /\ released = [id \in RunId |-> {}]
    /\ declined = {}

Create(id) ==
    /\ status[id] = "absent"
    /\ status' = [status EXCEPT ![id] = "running"]
    /\ UNCHANGED <<accepted, released, declined>>

Accept(id, v) ==
    /\ status[id] = "running"
    /\ accepted' = [accepted EXCEPT ![id] = @ \cup {v}]
    /\ UNCHANGED <<status, released, declined>>

Release(id, v) ==
    /\ status[id] = "running"
    /\ v \in accepted[id]
    /\ released' = [released EXCEPT ![id] = @ \cup {v}]
    /\ UNCHANGED <<status, accepted, declined>>

Decline(id) ==
    /\ status[id] = "running"
    /\ declined' = declined \cup {id}
    /\ UNCHANGED <<status, accepted, released>>

Complete(id) ==
    /\ status[id] = "running"
    /\ released[id] # {}
    /\ id \notin declined
    /\ status' = [status EXCEPT ![id] = "completed"]
    /\ UNCHANGED <<accepted, released, declined>>

End(id) ==
    /\ status[id] = "running"
    /\ \E s \in {"blocked", "failed"} : status' = [status EXCEPT ![id] = s]
    /\ UNCHANGED <<accepted, released, declined>>

LifeNext ==
    \E id \in RunId :
        \/ Create(id)
        \/ \E v \in Version : Accept(id, v) \/ Release(id, v)
        \/ Decline(id)
        \/ Complete(id)
        \/ End(id)

LifeSpec == LifeInit /\ [][LifeNext]_lifeVars
=============================================================================
