------------------------------ MODULE MCMonitor ------------------------------
(* Instances of MonitorReports for TLC: one run of u1 on a document that   *)
(* has a first version and that u1 may edit meanwhile.                     *)
EXTENDS MonitorReports, TLC

CONSTANTS u1, d1, r1, run1, textA, textB, demo, cli

SoleOwner == d1 :> u1
SoleAccess == d1 :> (u1 :> Owner)
SoleContext == {[run |-> run1, user |-> u1, document |-> d1]}
FirstVersion ==
    {[document |-> d1, number |-> 1, content |-> textA, author |-> u1, run |-> NoRun]}
NothingOrSecond == {NoVersion, <<d1, 2>>}
MCNumber == 1 .. 6
=============================================================================
