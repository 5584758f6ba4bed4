--------------------------- MODULE PrivateMemoryProofs ---------------------------
(***************************************************************************)
(* Proofs about PrivateMemory: what holds of the files in any case, and    *)
(* what holds when no two processes save facts for one user.               *)
(***************************************************************************)
EXTENDS PrivateMemory, TLAPS

(* Facts that get_all_facts accepts from a user's file. *)
Readable(facts, u) ==
    \A f, g \in facts : f.person = u /\ (f.id = g.id => f = g)

CallOK(p) ==
    /\ step[p] \in Saving =>
            user[p] \in Serves[p] /\ fact[p] \in Fact /\ fact[p].person = user[p]
    /\ step[p] = "write" => Readable(known[p] \cup {fact[p]}, user[p])
    /\ step[p] = "rename" => Readable(temporary[p], user[p])

MemoryInv ==
    /\ MemoryTypeOK
    /\ \A p \in Process : CallOK(p)
    /\ \A u \in Person : Readable(file[u], u)

(* A process saves for a user it serves.                                     *)
LEMMA CallerServed ==
    ASSUME NEW p \in Process, CallOK(p), step[p] \in Saving
    PROVE  user[p] \in Person
  BY MemoryConstants DEF CallOK

(* The types, and the scope of every file and of every call under way.       *)
THEOREM MemoryInvariant == MemorySpec => []MemoryInv
  <1>1. MemoryInit => MemoryInv
    BY MemoryConstants
       DEF MemoryInit, MemoryInv, MemoryTypeOK, CallOK, Readable, Steps, Saving
  <1>2. MemoryInv /\ [MemoryNext]_memoryVars => MemoryInv'
    <2> SUFFICES ASSUME MemoryInv, [MemoryNext]_memoryVars PROVE MemoryInv'
      OBVIOUS
    <2> USE DEF MemoryInv, Moves, Ends, callVars, budgets
    <2>1. ASSUME NEW p \in Process, NEW u \in Person, NEW f \in Fact, Begin(p, u, f)
          PROVE  MemoryInv'
      BY <2>1 DEF Begin, MemoryTypeOK, CallOK, Steps, Saving
    <2>2. ASSUME NEW p \in Process, ReadFacts(p) PROVE MemoryInv'
      <3> USE <2>2 DEF ReadFacts
      <3>0. user[p] \in Person
        BY CallerServed DEF Saving
      <3>1. MemoryTypeOK'
        BY <3>0 DEF MemoryTypeOK, Steps
      <3>2. Readable(file[user[p]] \cup {fact[p]}, user[p])
        BY <3>0 DEF IsDuplicate, MemoryTypeOK, CallOK, Readable, Saving
      <3>3. \A q \in Process : CallOK(q)'
        BY <3>2 DEF MemoryTypeOK, CallOK, Saving
      <3> QED
        BY <3>1, <3>3
    <2>3. ASSUME NEW p \in Process, WriteTemporary(p) PROVE MemoryInv'
      <3> USE <2>3 DEF WriteTemporary
      <3>1. MemoryTypeOK'
        <4>1. known[p] \cup {fact[p]} \in SUBSET Fact
          BY DEF MemoryTypeOK, CallOK, Saving
        <4> QED
          BY <4>1 DEF MemoryTypeOK, Steps
      <3>2. \A q \in Process : CallOK(q)'
        BY DEF MemoryTypeOK, CallOK, Saving
      <3> QED
        BY <3>1, <3>2
    <2>4. ASSUME NEW p \in Process, Rename(p) PROVE MemoryInv'
      <3> USE <2>4 DEF Rename
      <3>1. MemoryTypeOK'
        BY DEF MemoryTypeOK, CallOK, Saving, Steps
      <3>2. \A q \in Process : CallOK(q)'
        BY DEF MemoryTypeOK, CallOK, Saving
      <3>3. \A u \in Person : Readable(file'[u], u)
        BY DEF MemoryTypeOK, CallOK
      <3> QED
        BY <3>1, <3>2, <3>3 DEF Readable
    <2>5. ASSUME NEW p \in Process,
                 RefuseDuplicate(p) \/ SaveFails(p) \/ Dies(p) \/ Restarts(p)
          PROVE  MemoryInv'
      <3>1. /\ UNCHANGED <<file, acknowledged>>
            /\ \/ Ends(p, "idle") \/ Ends(p, "dead")
               \/ Moves(p, "dead", "idle") /\ UNCHANGED callVars
        BY <2>5 DEF RefuseDuplicate, SaveFails, Dies, Restarts
      <3>2. faults' \in Nat /\ crashes' \in Nat
        BY <2>5 DEF RefuseDuplicate, SaveFails, Dies, Restarts, MemoryTypeOK
      <3>3. MemoryTypeOK'
        BY <3>1, <3>2 DEF MemoryTypeOK, Steps
      <3>4. \A q \in Process : CallOK(q)'
        BY <3>1 DEF MemoryTypeOK, CallOK, Saving
      <3> QED
        BY <3>1, <3>3, <3>4
    <2>6. CASE UNCHANGED memoryVars
      BY <2>6 DEF memoryVars, MemoryTypeOK, CallOK
    <2> QED
      BY <2>1, <2>2, <2>3, <2>4, <2>5, <2>6 DEF MemoryNext
  <1> QED
    BY <1>1, <1>2, PTL DEF MemorySpec

(* No file ever becomes unreadable: users stay apart and an identifier names *)
(* one fact, even when processes overwrite each other's saves.               *)
THEOREM FilesStayReadable == MemorySpec => []FilesAreReadable
  <1>1. MemoryInv => FilesAreReadable
    BY DEF MemoryInv, FilesAreReadable, Readable
  <1> QED
    BY <1>1, MemoryInvariant, PTL

-----------------------------------------------------------------------------
(* What a call has read is still the file, when nobody else saves for the    *)
(* user.                                                                     *)
FreshAt(p) ==
    /\ step[p] = "write" => known[p] = file[user[p]]
    /\ step[p] = "rename" => temporary[p] = file[user[p]] \cup {fact[p]}

ExclusiveInv ==
    /\ \A p \in Process : FreshAt(p)
    /\ AcknowledgedKept

Grows == \A u \in Person : file[u] \subseteq file'[u]

(* One step of an exclusive store.                                           *)
LEMMA ExclusiveStep ==
    ASSUME Exclusive, MemoryInv, ExclusiveInv, [MemoryNext]_memoryVars
    PROVE  ExclusiveInv' /\ Grows
  <1> USE DEF MemoryInv, MemoryTypeOK, ExclusiveInv, FreshAt, Grows, AcknowledgedKept,
          Moves, Ends, callVars, budgets
  <1>1. ASSUME NEW p \in Process, Rename(p) PROVE ExclusiveInv' /\ Grows
    <2> USE <1>1 DEF Rename
    <2>1. /\ user[p] \in Serves[p] /\ user[p] \in Person
          /\ fact[p] \in Fact /\ fact[p].person = user[p]
          /\ temporary[p] = file[user[p]] \cup {fact[p]}
      BY CallerServed DEF CallOK, Saving
    <2>2. Grows
      BY <2>1
    <2>3. AcknowledgedKept'
      BY <2>1, <2>2 DEF Fact
    <2>4. ASSUME NEW q \in Process PROVE FreshAt(q)'
      <3>1. CASE q = p
        BY <3>1
      <3>2. CASE q # p
        <4>1. step[q] \in {"write", "rename"} => user[q] # user[p]
          BY <2>1, <3>2 DEF Exclusive, CallOK, Saving
        <4> QED
          BY <3>2, <4>1, <2>1
      <3> QED
        BY <3>1, <3>2
    <2> QED
      BY <2>2, <2>3, <2>4
  <1>2. ASSUME NEW p \in Process,
               \/ \E u \in Person, f \in Fact : Begin(p, u, f)
               \/ ReadFacts(p) \/ RefuseDuplicate(p) \/ WriteTemporary(p)
               \/ SaveFails(p) \/ Dies(p) \/ Restarts(p)
        PROVE  ExclusiveInv' /\ Grows
    BY <1>2 DEF Begin, ReadFacts, RefuseDuplicate, WriteTemporary, SaveFails, Dies,
          Restarts, Saving
  <1>3. CASE UNCHANGED memoryVars
    BY <1>3 DEF memoryVars
  <1> QED
    BY <1>1, <1>2, <1>3 DEF MemoryNext

(* Saves of an exclusive store are fresh.                                    *)
LEMMA ExclusiveInvariant ==
    ASSUME Exclusive
    PROVE  MemorySpec => [](MemoryInv /\ ExclusiveInv)
  <1>1. MemoryInit => ExclusiveInv
    BY DEF MemoryInit, ExclusiveInv, FreshAt, AcknowledgedKept
  <1>2. MemoryInv /\ ExclusiveInv /\ [MemoryNext]_memoryVars => ExclusiveInv'
    BY ExclusiveStep
  <1> QED
    BY <1>1, <1>2, MemoryInvariant, PTL DEF MemorySpec

(* When no two processes save for one user, an acknowledged fact is never    *)
(* lost, whatever fails or dies.                                             *)
THEOREM ExclusiveKeeps ==
    ASSUME Exclusive
    PROVE  MemorySpec => []AcknowledgedKept
  <1>1. ExclusiveInv => AcknowledgedKept
    BY DEF ExclusiveInv
  <1> QED
    BY <1>1, ExclusiveInvariant, PTL

(* ... and the files are append-only.                                        *)
THEOREM ExclusiveAppends ==
    ASSUME Exclusive
    PROVE  MemorySpec => AppendOnly
  <1>1. MemoryInv /\ ExclusiveInv /\ [MemoryNext]_memoryVars
            => [\A u \in Person : file[u] \subseteq file'[u]]_memoryVars
    BY ExclusiveStep DEF Grows
  <1> QED
    BY <1>1, ExclusiveInvariant, PTL DEF MemorySpec, AppendOnly
=============================================================================
