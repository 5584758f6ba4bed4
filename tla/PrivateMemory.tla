------------------------------ MODULE PrivateMemory ------------------------------
(***************************************************************************)
(* JsonPrivateFactStore.save_fact (private_memory.py) as processes run it  *)
(* on the same directory: the user's file is read, the fact added to what  *)
(* was read, everything written to a temporary file, and that file renamed *)
(* over the user's.  Each of these is a step; nothing locks the file       *)
(* between them.                                                           *)
(*                                                                         *)
(* A missing file reads as no facts.  A temporary file has a random name,  *)
(* so it belongs to the process that writes it; nothing reads it again     *)
(* when that process fails or dies, so it is forgotten then.               *)
(***************************************************************************)
EXTENDS Integers

CONSTANTS
    Process,    \* processes with a store on the same directory
    Person,     \* the users
    FactId,     \* fact identifiers
    Text,       \* contents of facts
    Serves,     \* the users each process saves facts for
    NoPerson,   \* the user and the fact of a process that is not
    NoFact,     \* inside save_fact
    MaxFaults,  \* bound: reads, writes and renames that fail
    MaxCrashes  \* bound: processes that die

Fact == [id : FactId, person : Person, text : Text]

ASSUME MemoryConstants ==
    /\ Serves \in [Process -> SUBSET Person]
    /\ NoPerson \notin Person
    /\ NoFact \notin Fact
    /\ MaxFaults \in Nat
    /\ MaxCrashes \in Nat

VARIABLES
    file,          \* the facts in each user's file
    step,          \* what each process does next
    user,          \* user_id of the call
    fact,          \* fact of the call
    known,         \* the facts the call read
    temporary,     \* the content of the call's temporary file
    acknowledged,  \* the facts whose save_fact returned
    faults, crashes

callVars == <<user, fact, known, temporary>>
budgets == <<faults, crashes>>
memoryVars == <<file, step, callVars, acknowledged, budgets>>

Steps == {"idle", "read", "write", "rename", "dead"}
Saving == {"read", "write", "rename"}

Moves(p, from, to) ==
    /\ step[p] = from
    /\ step' = [step EXCEPT ![p] = to]

(* save_fact ends, with or without success: its locals are gone. *)
Ends(p, to) ==
    /\ step' = [step EXCEPT ![p] = to]
    /\ user' = [user EXCEPT ![p] = NoPerson]
    /\ fact' = [fact EXCEPT ![p] = NoFact]
    /\ known' = [known EXCEPT ![p] = {}]
    /\ temporary' = [temporary EXCEPT ![p] = {}]

-----------------------------------------------------------------------------
(* Faulty variant: the user of the fact is not compared. *)
BeginUnscoped(p, u, f) ==
    /\ Moves(p, "idle", "read")
    /\ u \in Serves[p]
    /\ user' = [user EXCEPT ![p] = u]
    /\ fact' = [fact EXCEPT ![p] = f]
    /\ UNCHANGED <<file, known, temporary, acknowledged, budgets>>

(* save_fact is called; a fact of another user is refused. *)
Begin(p, u, f) ==
    /\ Moves(p, "idle", "read")
    /\ u \in Serves[p]
    /\ f.person = u
    /\ user' = [user EXCEPT ![p] = u]
    /\ fact' = [fact EXCEPT ![p] = f]
    /\ UNCHANGED <<file, known, temporary, acknowledged, budgets>>

IsDuplicate(p) == \E g \in file[user[p]] : g.id = fact[p].id

ReadFacts(p) ==
    /\ Moves(p, "read", "write")
    /\ ~ IsDuplicate(p)
    /\ known' = [known EXCEPT ![p] = file[user[p]]]
    /\ UNCHANGED <<file, user, fact, temporary, acknowledged, budgets>>

RefuseDuplicate(p) ==
    /\ step[p] = "read"
    /\ IsDuplicate(p)
    /\ Ends(p, "idle")
    /\ UNCHANGED <<file, acknowledged, budgets>>

(* Faulty variant: only the new fact is written. *)
WriteNewest(p) ==
    /\ Moves(p, "write", "rename")
    /\ temporary' = [temporary EXCEPT ![p] = {fact[p]}]
    /\ UNCHANGED <<file, user, fact, known, acknowledged, budgets>>

WriteTemporary(p) ==
    /\ Moves(p, "write", "rename")
    /\ temporary' = [temporary EXCEPT ![p] = known[p] \cup {fact[p]}]
    /\ UNCHANGED <<file, user, fact, known, acknowledged, budgets>>

(* os.replace, and the return of save_fact. *)
Rename(p) ==
    /\ step[p] = "rename"
    /\ Ends(p, "idle")
    /\ file' = [file EXCEPT ![user[p]] = temporary[p]]
    /\ acknowledged' = acknowledged \cup {fact[p]}
    /\ UNCHANGED budgets

(* ... or the failure is swallowed. *)
SaveFailsSilently(p) ==
    /\ faults < MaxFaults
    /\ faults' = faults + 1
    /\ step[p] \in Saving
    /\ Ends(p, "idle")
    /\ acknowledged' = acknowledged \cup {fact[p]}
    /\ UNCHANGED <<file, crashes>>

(* A read, a write or the rename raises: the file stays as it was. *)
SaveFails(p) ==
    /\ faults < MaxFaults
    /\ faults' = faults + 1
    /\ step[p] \in Saving
    /\ Ends(p, "idle")
    /\ UNCHANGED <<file, acknowledged, crashes>>

Dies(p) ==
    /\ crashes < MaxCrashes
    /\ crashes' = crashes + 1
    /\ step[p] # "dead"
    /\ Ends(p, "dead")
    /\ UNCHANGED <<file, acknowledged, faults>>

(* A new process over the same directory. *)
Restarts(p) ==
    /\ Moves(p, "dead", "idle")
    /\ UNCHANGED <<file, callVars, acknowledged, budgets>>

MemoryInit ==
    /\ file = [u \in Person |-> {}]
    /\ step = [p \in Process |-> "idle"]
    /\ user = [p \in Process |-> NoPerson]
    /\ fact = [p \in Process |-> NoFact]
    /\ known = [p \in Process |-> {}]
    /\ temporary = [p \in Process |-> {}]
    /\ acknowledged = {}
    /\ faults = 0
    /\ crashes = 0

MemoryNext ==
    \E p \in Process :
        \/ \E u \in Person, f \in Fact : Begin(p, u, f)
        \/ ReadFacts(p) \/ RefuseDuplicate(p)
        \/ WriteTemporary(p) \/ Rename(p)
        \/ SaveFails(p) \/ Dies(p) \/ Restarts(p)

MemorySpec == MemoryInit /\ [][MemoryNext]_memoryVars

-----------------------------------------------------------------------------
MemoryTypeOK ==
    /\ file \in [Person -> SUBSET Fact]
    /\ step \in [Process -> Steps]
    /\ user \in [Process -> Person \cup {NoPerson}]
    /\ fact \in [Process -> Fact \cup {NoFact}]
    /\ known \in [Process -> SUBSET Fact]
    /\ temporary \in [Process -> SUBSET Fact]
    /\ acknowledged \subseteq Fact
    /\ faults \in Nat /\ crashes \in Nat

(* No user's facts reach another user's file, even when one process saves  *)
(* for several, and an identifier names one fact in a file: otherwise      *)
(* get_all_facts refuses the file from then on.                            *)
FilesAreReadable ==
    \A u \in Person : \A f, g \in file[u] :
        /\ f.person = u
        /\ f.id = g.id => f = g

(* A fact whose save was acknowledged is never lost: it is in its user's   *)
(* file, whatever fails or dies afterwards.                                *)
AcknowledgedKept == \A f \in acknowledged : f \in file[f.person]

(* "Facts are append-only."                                                *)
AppendOnly == [][\A u \in Person : file[u] \subseteq file'[u]]_memoryVars

(* No two processes save facts for one user. *)
Exclusive ==
    \A p, q \in Process, u \in Person : u \in Serves[p] /\ u \in Serves[q] => p = q
=============================================================================
