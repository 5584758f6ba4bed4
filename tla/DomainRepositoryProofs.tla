------------------------- MODULE DomainRepositoryProofs -------------------------
(***************************************************************************)
(* Proofs about DomainRepository: whatever operations any number of        *)
(* clients call, with whatever arguments and in whatever order, the tables *)
(* keep the properties of that module.                                     *)
(***************************************************************************)
EXTENDS DomainRepository, TLAPS

(* Every operation writes rows of the tables' types.                       *)
THEOREM RepoTypeCorrect == RepoSpec => []RepoTypeOK
  <1>1. RepoInit => RepoTypeOK
    BY DEF RepoInit, RepoTypeOK, NoAccess, Owner
  <1>2. RepoTypeOK /\ [RepoNext]_repoVars => RepoTypeOK'
    <2> SUFFICES ASSUME RepoTypeOK, [RepoNext]_repoVars PROVE RepoTypeOK'
      OBVIOUS
    <2> USE DEF RepoTypeOK, accessVars, runTables, NoAccess, Read, Edit, Owner
    <2>1. CASE CallUsers
      BY <2>1 DEF CallUsers, CreateUser
    <2>2. CASE CallDocuments
      <3>1. PICK u \in User, d \in Document : CreateDocument(u, d)
        BY <2>2 DEF CallDocuments
      <3> QED
        BY <2>2, <3>1 DEF CallDocuments, CreateDocument
    <2>3. CASE CallGrant
      <3>1. PICK grantor \in User, grantee \in User, d \in Document,
                 level \in {Read, Edit, Owner} :
                access' = [access EXCEPT ![d][grantee] = level]
        BY <2>3 DEF CallGrant, GrantAccess
      <3>2. access' \in [Document -> [User -> NoAccess .. Owner]]
        BY <3>1
      <3> QED
        BY <2>3, <3>2 DEF CallGrant
    <2>4. CASE CallVersions
      <3>1. PICK u \in User, d \in Document, n \in Number, c \in Content,
                 author \in User \cup {NoUser}, id \in RunId \cup {NoRun} :
                CreateVersion(u, [document |-> d, number |-> n, content |-> c,
                                  author |-> author, run |-> id])
        BY <2>4 DEF CallVersions
      <3>2. [document |-> d, number |-> n, content |-> c, author |-> author,
             run |-> id] \in VersionRow
        BY RepositoryConstants DEF VersionRow
      <3> QED
        BY <2>4, <3>1, <3>2 DEF CallVersions, CreateVersion
    <2>5. CASE CallComments
      BY <2>5 DEF CallComments, AddSharedComment, CommentRow
    <2>6. CASE CallCreateRun
      BY <2>6 DEF CallCreateRun, CreateRun, RunRow, RunStatus
    <2>7. CASE CallSetRunStatus
      <3>1. PICK u \in User, d \in Document, id \in RunId, status \in RunStatus,
                 completedAt \in BOOLEAN : SetRunStatus(id, u, d, status, completedAt)
        BY <2>7 DEF CallSetRunStatus
      <3>2. runs[id] \in RunRow
        BY <3>1 DEF SetRunStatus, InRunScope
      <3>3. runs' \in [RunId -> RunRow \cup {NoRun}]
        BY <3>1, <3>2 DEF SetRunStatus, RunRow
      <3> QED
        BY <2>7, <3>3 DEF CallSetRunStatus
    <2>8. CASE CallEvents
      <3>1. PICK u \in User, d \in Document, id \in RunId, s \in Number,
                 t \in EventType, ref \in (Document \X Number) \cup {NoVersion},
                 x \in Detail :
                AppendEvent(u, d, [run |-> id, sequence |-> s, type |-> t,
                                   version |-> ref, detail |-> x])
        BY <2>8 DEF CallEvents
      <3>2. [run |-> id, sequence |-> s, type |-> t, version |-> ref,
             detail |-> x] \in EventRow
        BY RepositoryConstants DEF EventRow, VersionRef
      <3> QED
        BY <2>8, <3>1, <3>2 DEF CallEvents, AppendEvent
    <2>9. CASE CallHandoffs
      <3>1. PICK u \in User, d \in Document, id \in RunId, s \in Number,
                 round \in Number, from \in Role, to \in Role,
                 ref \in (Document \X Number) \cup {NoVersion} :
                AppendHandoff(u, d, [run |-> id, sequence |-> s, round |-> round,
                                     from |-> from, to |-> to, version |-> ref])
        BY <2>9 DEF CallHandoffs
      <3>2. [run |-> id, sequence |-> s, round |-> round, from |-> from,
             to |-> to, version |-> ref] \in HandoffRow
        BY RepositoryConstants DEF HandoffRow, VersionRef
      <3> QED
        BY <2>9, <3>1, <3>2 DEF CallHandoffs, AppendHandoff
    <2>10. CASE UNCHANGED repoVars
      BY <2>10 DEF repoVars
    <2> QED
      BY <2>1, <2>2, <2>3, <2>4, <2>5, <2>6, <2>7, <2>8, <2>9, <2>10 DEF RepoNext
  <1> QED
    BY <1>1, <1>2, PTL DEF RepoSpec

-----------------------------------------------------------------------------
(* Histories only grow *)

Grows ==
    /\ versions \subseteq versions'
    /\ events \subseteq events'
    /\ handoffs \subseteq handoffs'
    /\ \A id \in RunId : runs[id] # NoRun =>
            /\ runs'[id] # NoRun
            /\ runs'[id].user = runs[id].user
            /\ runs'[id].document = runs[id].document
    /\ \A d \in Document, u \in User :
            access[d][u] # NoAccess => access'[d][u] # NoAccess
    /\ \A d \in Document : owner[d] # NoUser => owner'[d] = owner[d]
    /\ users \subseteq users'

(* Every operation only adds to what the tables say, or lowers a level.     *)
LEMMA StepGrows ==
    ASSUME RepoTypeOK, RepoTypeOK', [RepoNext]_repoVars
    PROVE  Grows
  <1> USE DEF Grows, accessVars, runTables
  <1>1. CASE CallUsers
    BY <1>1 DEF CallUsers, CreateUser
  <1>2. CASE CallDocuments
    <2>1. PICK u \in User, d \in Document : CreateDocument(u, d)
      BY <1>2 DEF CallDocuments
    <2>2. owner' = [owner EXCEPT ![d] = u] /\ owner[d] = NoUser
      BY <2>1 DEF CreateDocument
    <2>3. access' = [access EXCEPT ![d][u] = Owner]
      BY <2>1 DEF CreateDocument
    <2> QED
      BY <1>2, <2>1, <2>2, <2>3 DEF CallDocuments, RepoTypeOK, NoAccess, Owner
  <1>3. CASE CallGrant
    <2>1. PICK grantor \in User, grantee \in User, d \in Document,
               level \in {Read, Edit, Owner} :
              access' = [access EXCEPT ![d][grantee] = level]
      BY <1>3 DEF CallGrant, GrantAccess
    <2> QED
      BY <1>3, <2>1 DEF CallGrant, RepoTypeOK, NoAccess, Read, Edit, Owner
  <1>4. CASE CallVersions
    BY <1>4 DEF CallVersions, CreateVersion
  <1>5. CASE CallComments
    BY <1>5 DEF CallComments
  <1>6. CASE CallCreateRun
    BY <1>6 DEF CallCreateRun, CreateRun, CanCreateRun, RepoTypeOK
  <1>7. CASE CallSetRunStatus
    <2>1. PICK u \in User, d \in Document, id \in RunId, status \in RunStatus,
               completedAt \in BOOLEAN : SetRunStatus(id, u, d, status, completedAt)
      BY <1>7 DEF CallSetRunStatus
    <2>2. runs[id] \in RunRow
      BY <2>1 DEF SetRunStatus, InRunScope, RepoTypeOK
    <2>3. runs' = [runs EXCEPT ![id].status = status,
                               ![id].completedAt = completedAt]
      BY <2>1 DEF SetRunStatus
    <2>4. runs'[id] \in RunRow /\ runs'[id].user = runs[id].user
            /\ runs'[id].document = runs[id].document
      BY <2>1, <2>2, <2>3 DEF RepoTypeOK, RunRow
    <2> QED
      BY <1>7, <2>1, <2>2, <2>3, <2>4, NoRunIsNoRow
         DEF CallSetRunStatus, RepoTypeOK
  <1>8. CASE CallEvents
    BY <1>8 DEF CallEvents, AppendEvent
  <1>9. CASE CallHandoffs
    BY <1>9 DEF CallHandoffs, AppendHandoff
  <1>10. CASE UNCHANGED repoVars
    BY <1>10 DEF repoVars
  <1> QED
    BY <1>1, <1>2, <1>3, <1>4, <1>5, <1>6, <1>7, <1>8, <1>9, <1>10 DEF RepoNext

(* No operation changes or deletes a row of the history tables, moves a run  *)
(* to another user or document, or takes all access away.                  *)
THEOREM HistoryIsImmutable == RepoSpec => HistoryImmutable
  <1>1. RepoTypeOK /\ RepoTypeOK' /\ [RepoNext]_repoVars =>
            [/\ versions \subseteq versions'
             /\ events \subseteq events'
             /\ handoffs \subseteq handoffs'
             /\ \A id \in RunId : runs[id] # NoRun =>
                     /\ runs'[id] # NoRun
                     /\ runs'[id].user = runs[id].user
                     /\ runs'[id].document = runs[id].document
             /\ \A d \in Document, u \in User :
                     access[d][u] # NoAccess => access'[d][u] # NoAccess
            ]_repoVars
    BY StepGrows DEF Grows
  <1> QED
    BY <1>1, RepoTypeCorrect, PTL DEF RepoSpec, HistoryImmutable

-----------------------------------------------------------------------------
(* One owner *)

(* A document has the owner it was created with and no other user ever gets *)
(* that level: a grant of it is refused, and so is one to the owner.        *)
THEOREM OwnerIsUnique == RepoSpec => []OneOwner
  <1>1. RepoInit => OneOwner
    BY RepositoryConstants DEF RepoInit, OneOwner, NoAccess, Owner
  <1>2. RepoTypeOK /\ OneOwner /\ [RepoNext]_repoVars => OneOwner'
    <2> SUFFICES ASSUME RepoTypeOK, OneOwner, [RepoNext]_repoVars PROVE OneOwner'
      OBVIOUS
    <2>1. CASE UNCHANGED <<owner, access>>
      BY <2>1 DEF OneOwner
    <2>2. CASE CallDocuments
      <3>1. PICK u \in User, d \in Document : CreateDocument(u, d)
        BY <2>2 DEF CallDocuments
      <3> QED
        BY <3>1, RepositoryConstants DEF CreateDocument, OneOwner, RepoTypeOK
    <2>3. CASE CallGrant
      <3>1. PICK grantor \in User, grantee \in User, d \in Document,
                 level \in {Read, Edit, Owner} : GrantAccess(grantor, d, grantee, level)
        BY <2>3 DEF CallGrant
      <3>2. UNCHANGED owner
        BY <2>3 DEF CallGrant
      <3> QED
        BY <3>1, <3>2 DEF GrantAccess, OneOwner, RepoTypeOK
    <2> QED
      BY <2>1, <2>2, <2>3
         DEF RepoNext, CallUsers, CallVersions, CallComments, CallCreateRun,
             CallSetRunStatus, CallEvents, CallHandoffs, repoVars, accessVars
  <1> QED
    BY <1>1, <1>2, RepoTypeCorrect, PTL DEF RepoSpec

-----------------------------------------------------------------------------
(* Version numbers *)

(* The versions of a document stay numbered 1, 2, ..., n: a number presented *)
(* by a client that had read a stale latest version is refused.            *)
THEOREM NumbersAreContiguous == RepoSpec => []VersionsContiguous
  <1>1. RepoInit => VersionsContiguous
    BY DEF RepoInit, VersionsContiguous
  <1>2. RepoTypeOK /\ VersionsContiguous /\ [RepoNext]_repoVars => VersionsContiguous'
    <2> SUFFICES ASSUME RepoTypeOK, VersionsContiguous, [RepoNext]_repoVars
                 PROVE  VersionsContiguous'
      OBVIOUS
    <2>1. CASE UNCHANGED versions
      BY <2>1 DEF VersionsContiguous, Ref
    <2>2. CASE CallVersions
      <3>1. PICK u \in User, d \in Document, n \in Number, c \in Content,
                 author \in User \cup {NoUser}, id \in RunId \cup {NoRun} :
                CreateVersion(u, [document |-> d, number |-> n, content |-> c,
                                  author |-> author, run |-> id])
        BY <2>2 DEF CallVersions
      <3> DEFINE row == [document |-> d, number |-> n, content |-> c,
                         author |-> author, run |-> id]
      <3>2. versions' = versions \cup {row} /\ IsNextNumber(d, n)
        BY <3>1 DEF CreateVersion, CanCreateVersion
      <3>3. \A v \in versions : v.number \in Nat
        BY DEF RepoTypeOK, VersionRow
      <3>4. n \in Nat
        BY RepositoryConstants
      <3>5. \A v \in versions : Ref(v) # Ref(row)
        BY <3>2, <3>3, <3>4 DEF IsNextNumber, Ref
      <3>6. \A v, w \in versions' : Ref(v) = Ref(w) => v = w
        BY <3>2, <3>5 DEF VersionsContiguous
      <3>7. \A v \in versions' : v.number > 1 =>
                \E w \in versions' : w.document = v.document /\ w.number = v.number - 1
        BY <3>2, <3>4 DEF VersionsContiguous, IsNextNumber
      <3> QED
        BY <3>6, <3>7 DEF VersionsContiguous, Ref
    <2> QED
      BY <2>1, <2>2
         DEF RepoNext, CallUsers, CallDocuments, CallGrant, CallComments,
             CallCreateRun, CallSetRunStatus, CallEvents, CallHandoffs, repoVars
  <1> QED
    BY <1>1, <1>2, RepoTypeCorrect, PTL DEF RepoSpec

-----------------------------------------------------------------------------
(* Scope of a run *)

(* Who may read a document may read it after any step: grants only lower a  *)
(* level to reading, and no user and no document is deleted.                *)
LEMMA AccessIsKept ==
    ASSUME RepoTypeOK, RepoTypeOK', [RepoNext]_repoVars,
           NEW u \in User, NEW d \in Document, HasAccess(u, d, Read)
    PROVE  /\ u \in users'
           /\ owner'[d] # NoUser
           /\ access'[d][u] >= Read
  <1>1. Grows
    BY StepGrows
  <1>2. access[d][u] \in NoAccess .. Owner /\ access'[d][u] \in NoAccess .. Owner
    BY DEF RepoTypeOK
  <1> QED
    BY <1>1, <1>2 DEF Grows, HasAccess, NoAccess, Read, Owner

(* What is recorded for a run stays in the run's scope, although a level may *)
(* be lowered and other clients write between any two of the run's calls.  *)
THEOREM ScopeIsKept == RepoSpec => []RecordsStayInScope
  <1>1. RepoInit => RecordsStayInScope
    BY DEF RepoInit, RecordsStayInScope
  <1>2. RepoTypeOK /\ RepoTypeOK' /\ RecordsStayInScope /\ [RepoNext]_repoVars
            => RecordsStayInScope'
    <2> SUFFICES ASSUME RepoTypeOK, RepoTypeOK', RecordsStayInScope,
                        [RepoNext]_repoVars
                 PROVE  RecordsStayInScope'
      OBVIOUS
    <2>1. Grows
      BY StepGrows
    <2>2. ASSUME NEW row \in events' \cup handoffs'
          PROVE  /\ runs'[row.run] # NoRun
                 /\ VersionResolves(runs[row.run].document, row.version)'
      <3>1. row.run \in RunId
        BY DEF RepoTypeOK, EventRow, HandoffRow
      <3>2. /\ runs[row.run] # NoRun
            /\ VersionResolves(runs[row.run].document, row.version)
        <4>1. CASE row \in events \cup handoffs
          BY <4>1 DEF RecordsStayInScope, VersionResolves
        <4>2. CASE CallEvents /\ row \notin events \cup handoffs
          BY <4>2 DEF CallEvents, AppendEvent, CanAppendEvent, InRunScope
        <4>3. CASE CallHandoffs /\ row \notin events \cup handoffs
          BY <4>3 DEF CallHandoffs, AppendHandoff, CanAppendHandoff, InRunScope
        <4>4. CASE UNCHANGED <<events, handoffs>>
          BY <4>1, <4>4
        <4> QED
          BY <4>1, <4>2, <4>3, <4>4
             DEF RepoNext, CallUsers, CallDocuments, CallGrant, CallVersions,
                 CallComments, CallCreateRun, CallSetRunStatus, repoVars, runTables
      <3>3. runs'[row.run] # NoRun /\ runs'[row.run].document = runs[row.run].document
        BY <2>1, <3>1, <3>2 DEF Grows
      <3>4. VersionResolves(runs[row.run].document, row.version)'
        BY <2>1, <3>2, <3>3 DEF VersionResolves, Ref, Grows
      <3> QED
        BY <3>3, <3>4
    <2>3. ASSUME NEW v \in versions', v.run # NoRun
          PROVE  /\ runs'[v.run] # NoRun
                 /\ runs'[v.run].document = v.document
                 /\ v.author \in {NoUser, runs'[v.run].user}
      <3>1. v.run \in RunId
        BY <2>3 DEF RepoTypeOK, VersionRow
      <3>2. /\ runs[v.run] # NoRun
            /\ runs[v.run].document = v.document
            /\ v.author \in {NoUser, runs[v.run].user}
        <4>1. CASE v \in versions
          BY <2>3, <4>1 DEF RecordsStayInScope
        <4>2. CASE CallVersions /\ v \notin versions
          BY <2>3, <4>2 DEF CallVersions, CreateVersion, CanCreateVersion, InRunScope
        <4>3. CASE UNCHANGED versions
          BY <4>1, <4>3
        <4> QED
          BY <4>1, <4>2, <4>3
             DEF RepoNext, CallUsers, CallDocuments, CallGrant, CallComments,
                 CallCreateRun, CallSetRunStatus, CallEvents, CallHandoffs, repoVars
      <3> QED
        BY <2>1, <3>1, <3>2 DEF Grows
    <2>4. ASSUME NEW id \in RunId, runs'[id] # NoRun
          PROVE  HasAccess(runs[id].user, runs[id].document, Read)'
      <3>1. CASE runs[id] # NoRun
        <4>1. HasAccess(runs[id].user, runs[id].document, Read)
          BY <3>1 DEF RecordsStayInScope
        <4>2. runs[id].user \in User /\ runs[id].document \in Document
          BY <3>1 DEF RepoTypeOK, RunRow
        <4>3. /\ runs[id].user \in users'
              /\ owner'[runs[id].document] # NoUser
              /\ access'[runs[id].document][runs[id].user] >= Read
          BY <4>1, <4>2, AccessIsKept
        <4>4. runs'[id].user = runs[id].user /\ runs'[id].document = runs[id].document
          BY <2>1, <3>1 DEF Grows
        <4> QED
          BY <4>3, <4>4 DEF HasAccess
      <3>2. CASE runs[id] = NoRun
        <4>1. CallCreateRun
          BY <2>4, <3>2
             DEF RepoNext, CallUsers, CallDocuments, CallGrant, CallVersions,
                 CallComments, CallSetRunStatus, SetRunStatus, InRunScope, CallEvents,
                 CallHandoffs, repoVars, runTables, RepoTypeOK
        <4> QED
          BY <2>4, <3>2, <4>1
             DEF CallCreateRun, CreateRun, CanCreateRun, HasAccess, accessVars,
                 RepoTypeOK
      <3> QED
        BY <3>1, <3>2
    <2> QED
      BY <2>2, <2>3, <2>4 DEF RecordsStayInScope, VersionResolves, Ref
  <1> QED
    BY <1>1, <1>2, RepoTypeCorrect, PTL DEF RepoSpec
=============================================================================
