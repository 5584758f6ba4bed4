----------------------------- MODULE MCMigration -----------------------------
(* Instances of SchemaMigration for TLC: an event type that the first      *)
(* release had and one that only the third script admits.                  *)
EXTENDS SchemaMigration, TLC

CONSTANTS p1, p2, started, reviewed

FirstAndLast == started :> 1 @@ reviewed :> SchemaVersion
=============================================================================
