---------------------------- MODULE DomainRepository ----------------------------
(***************************************************************************)
(* The SQLite tables of the editorial system and the operations of         *)
(* SQLiteDomainRepository on them (domain_repository.py).  One operation   *)
(* is one transaction of sqlite_database.py: it either commits as a whole  *)
(* or raises and leaves every table as it was, so an operation is one      *)
(* atomic action, and a refused operation is an action that is not         *)
(* enabled.  The guard of each operation has a name of its own (CanX), so  *)
(* that a caller can also be modelled when it is refused.                  *)
(*                                                                         *)
(* Rows are records, tables are sets of rows.  A version is identified by  *)
(* its document and number, which the table keeps unique; the random       *)
(* identifiers of the rows carry no further information.                   *)
(***************************************************************************)
EXTENDS Integers, FiniteSets

CONSTANTS
    User,       \* user identifiers
    Document,   \* document identifiers
    RunId,      \* workflow-run identifiers, chosen by the caller
    Content,    \* the texts a version may hold
    CommentId,  \* shared-comment identifiers
    EventType,  \* the closed vocabulary of run events
    Detail,     \* what an event's payload tells apart
    Role,       \* the actors a handoff goes between
    NoUser,     \* NULL in created_by_user_id, and the owner of no document
    NoRun,      \* NULL in run_id, and the row of a run that does not exist
    NoVersion,  \* NULL in document_version_id
    Number      \* the version, sequence and round numbers clients present

VersionRef == Document \X (Nat \ {0})

ASSUME RepositoryConstants ==
    /\ NoUser \notin User
    /\ NoRun \notin RunId
    /\ NoVersion \notin VersionRef
    /\ Number \subseteq Nat \ {0}

(* AccessLevel and its ranking _ACCESS_RANK; 0 is the absence of a row. *)
NoAccess == 0
Read     == 1
Edit     == 2
Owner    == 3

Terminal == {"completed", "blocked", "failed"}
RunStatus == {"pending", "running", "awaiting_approval"} \cup Terminal

RunRow ==
    [user : User, document : Document, status : RunStatus, completedAt : BOOLEAN]
VersionRow ==
    [document : Document, number : Nat \ {0}, content : Content,
     author : User \cup {NoUser}, run : RunId \cup {NoRun}]
EventRow ==
    [run : RunId, sequence : Nat \ {0}, type : EventType,
     version : VersionRef \cup {NoVersion}, detail : Detail]
HandoffRow ==
    [run : RunId, sequence : Nat \ {0}, round : Nat, from : Role, to : Role,
     version : VersionRef \cup {NoVersion}]
CommentRow == [id : CommentId, document : Document, author : User]

ASSUME NoRunIsNoRow == NoRun \notin RunRow

VARIABLES
    users,      \* table users
    owner,      \* table documents: the owner of each existing document
    access,     \* table document_access
    versions,   \* table document_versions
    comments,   \* table shared_comments
    runs,       \* table workflow_runs
    events,     \* table run_events
    handoffs    \* table agent_handoffs

accessVars == <<users, owner, access>>
runTables == <<runs, events, handoffs>>
repoVars == <<users, owner, access, versions, comments, runs, events, handoffs>>

-----------------------------------------------------------------------------
(* Authorization *)

(* _require_access: the user and the document exist and the level suffices. *)
HasAccess(u, d, minimum) ==
    /\ u \in users
    /\ owner[d] # NoUser
    /\ access[d][u] >= minimum

(* _require_run_scope: access, and the run is this user's on this document. *)
InRunScope(id, u, d) ==
    /\ HasAccess(u, d, Read)
    /\ runs[id] # NoRun
    /\ runs[id].user = u
    /\ runs[id].document = d

Ref(v) == <<v.document, v.number>>

(* Faulty variant: the document of the version is not compared. *)
VersionResolvesAnywhere(d, ref) ==
    \/ ref = NoVersion
    \/ \E v \in versions : Ref(v) = ref

(* _require_version_reference: NULL, or an existing version of the document. *)
VersionResolves(d, ref) ==
    \/ ref = NoVersion
    \/ \E v \in versions : v.document = d /\ Ref(v) = ref

(* COALESCE(MAX(version_number), 0) + 1 *)
IsNextNumber(d, n) ==
    /\ \A v \in versions : v.document = d => v.number < n
    /\ n = 1 \/ \E v \in versions : v.document = d /\ v.number = n - 1

(* get_latest_document_version *)
IsLatest(d, v) ==
    /\ v \in versions
    /\ v.document = d
    /\ \A w \in versions : w.document = d => w.number <= v.number

-----------------------------------------------------------------------------
(* Operations *)

CreateUser(u) ==
    /\ u \notin users
    /\ users' = users \cup {u}

CreateDocument(u, d) ==
    /\ u \in users
    /\ owner[d] = NoUser
    /\ owner' = [owner EXCEPT ![d] = u]
    /\ access' = [access EXCEPT ![d][u] = Owner]

(* Faulty variant: the owner's own row can be upserted. *)
GrantAccessToOwner(grantor, d, grantee, level) ==
    /\ level # Owner
    /\ HasAccess(grantor, d, Owner)
    /\ grantee \in users
    /\ access' = [access EXCEPT ![d][grantee] = level]

(* grant_document_access: an upsert, so it can also lower a level. *)
GrantAccess(grantor, d, grantee, level) ==
    /\ level # Owner
    /\ HasAccess(grantor, d, Owner)
    /\ grantee \in users
    /\ owner[d] # grantee
    /\ access' = [access EXCEPT ![d][grantee] = level]

(* Faulty variant: the number is taken as the client computed it. *)
CanCreateVersionUnchecked(u, row) ==
    /\ row.author \in {NoUser, u}
    /\ HasAccess(u, row.document, Edit)
    /\ row.run # NoRun => InRunScope(row.run, u, row.document)

CanCreateVersion(u, row) ==
    /\ row.author \in {NoUser, u}
    /\ HasAccess(u, row.document, Edit)
    /\ row.run # NoRun => InRunScope(row.run, u, row.document)
    /\ IsNextNumber(row.document, row.number)

CreateVersion(u, row) ==
    /\ CanCreateVersion(u, row)
    /\ versions' = versions \cup {row}

AddSharedComment(u, d, id) ==
    /\ HasAccess(u, d, Read)
    /\ \A c \in comments : c.id # id
    /\ comments' = comments \cup {[id |-> id, document |-> d, author |-> u]}

(* Faulty variant: an existing run is replaced. *)
CanCreateRunAgain(id, u, d) == HasAccess(u, d, Read)

CanCreateRun(id, u, d) ==
    /\ HasAccess(u, d, Read)
    /\ runs[id] = NoRun

CreateRun(id, u, d) ==
    /\ CanCreateRun(id, u, d)
    /\ runs' = [runs EXCEPT ![id] =
                    [user |-> u, document |-> d,
                     status |-> "running", completedAt |-> FALSE]]

(* set_run_status looks neither at the previous status nor at the events. *)
SetRunStatus(id, u, d, status, completedAt) ==
    /\ (status \in Terminal) = completedAt
    /\ InRunScope(id, u, d)
    /\ runs' = [runs EXCEPT ![id].status = status,
                            ![id].completedAt = completedAt]

CanAppendEvent(u, d, row) ==
    /\ InRunScope(row.run, u, d)
    /\ VersionResolves(d, row.version)
    /\ \A e \in events : e.run = row.run => e.sequence # row.sequence

AppendEvent(u, d, row) ==
    /\ CanAppendEvent(u, d, row)
    /\ events' = events \cup {row}

CanAppendHandoff(u, d, row) ==
    /\ InRunScope(row.run, u, d)
    /\ VersionResolves(d, row.version)
    /\ row.from # row.to
    /\ \A h \in handoffs : h.run = row.run => h.sequence # row.sequence

AppendHandoff(u, d, row) ==
    /\ CanAppendHandoff(u, d, row)
    /\ handoffs' = handoffs \cup {row}

-----------------------------------------------------------------------------
(* Any number of clients calling any operation with any arguments *)

RepoInit ==
    /\ users = {}
    /\ owner = [d \in Document |-> NoUser]
    /\ access = [d \in Document |-> [u \in User |-> NoAccess]]
    /\ versions = {}
    /\ comments = {}
    /\ runs = [id \in RunId |-> NoRun]
    /\ events = {}
    /\ handoffs = {}

CallUsers ==
    /\ \E u \in User : CreateUser(u)
    /\ UNCHANGED <<owner, access, versions, comments, runTables>>

CallDocuments ==
    /\ \E u \in User, d \in Document : CreateDocument(u, d)
    /\ UNCHANGED <<users, versions, comments, runTables>>

CallGrant ==
    /\ \E grantor, grantee \in User, d \in Document, level \in {Read, Edit, Owner} :
            GrantAccess(grantor, d, grantee, level)
    /\ UNCHANGED <<users, owner, versions, comments, runTables>>

CallVersions ==
    /\ \E u \in User, d \in Document, n \in Number, c \in Content,
          author \in User \cup {NoUser}, id \in RunId \cup {NoRun} :
            CreateVersion(u, [document |-> d, number |-> n, content |-> c,
                              author |-> author, run |-> id])
    /\ UNCHANGED <<accessVars, comments, runTables>>

CallComments ==
    /\ \E u \in User, d \in Document, id \in CommentId : AddSharedComment(u, d, id)
    /\ UNCHANGED <<accessVars, versions, runTables>>

CallCreateRun ==
    /\ \E u \in User, d \in Document, id \in RunId : CreateRun(id, u, d)
    /\ UNCHANGED <<accessVars, versions, comments, events, handoffs>>

CallSetRunStatus ==
    /\ \E u \in User, d \in Document, id \in RunId,
          status \in RunStatus, completedAt \in BOOLEAN :
            SetRunStatus(id, u, d, status, completedAt)
    /\ UNCHANGED <<accessVars, versions, comments, events, handoffs>>

CallEvents ==
    /\ \E u \in User, d \in Document, id \in RunId, s \in Number, t \in EventType,
          ref \in (Document \X Number) \cup {NoVersion}, x \in Detail :
            AppendEvent(u, d, [run |-> id, sequence |-> s, type |-> t,
                               version |-> ref, detail |-> x])
    /\ UNCHANGED <<accessVars, versions, comments, runs, handoffs>>

CallHandoffs ==
    /\ \E u \in User, d \in Document, id \in RunId, s, round \in Number,
          from, to \in Role, ref \in (Document \X Number) \cup {NoVersion} :
            AppendHandoff(u, d, [run |-> id, sequence |-> s, round |-> round,
                                 from |-> from, to |-> to, version |-> ref])
    /\ UNCHANGED <<accessVars, versions, comments, runs, events>>

RepoNext ==
    \/ CallUsers
    \/ CallDocuments
    \/ CallGrant
    \/ CallVersions
    \/ CallComments
    \/ CallCreateRun
    \/ CallSetRunStatus
    \/ CallEvents
    \/ CallHandoffs

RepoSpec == RepoInit /\ [][RepoNext]_repoVars

-----------------------------------------------------------------------------
(* Invariants *)

RepoTypeOK ==
    /\ users \subseteq User
    /\ owner \in [Document -> User \cup {NoUser}]
    /\ access \in [Document -> [User -> NoAccess .. Owner]]
    /\ versions \subseteq VersionRow
    /\ comments \subseteq CommentRow
    /\ runs \in [RunId -> RunRow \cup {NoRun}]
    /\ events \subseteq EventRow
    /\ handoffs \subseteq HandoffRow

(* The versions of a document are numbered 1, 2, ... without a gap, and no *)
(* number is used twice, whatever numbers concurrent clients computed from *)
(* the latest version they had read.                                       *)
VersionsContiguous ==
    /\ \A v, w \in versions : Ref(v) = Ref(w) => v = w
    /\ \A v \in versions : v.number > 1 =>
            \E w \in versions : w.document = v.document /\ w.number = v.number - 1

(* Every document has exactly one owner: the user in documents holds the   *)
(* owner level in document_access and nobody else does, although grants    *)
(* upsert that table.                                                      *)
OneOwner ==
    \A d \in Document, u \in User : access[d][u] = Owner <=> owner[d] = u

(* Nothing recorded for a run leaves the run's scope: its events and       *)
(* handoffs refer to versions of the run's own document, its versions are  *)
(* versions of that document by the run's own user (or by none), and the   *)
(* user still may read the document.                                       *)
RecordsStayInScope ==
    /\ \A r \in events \cup handoffs :
            /\ runs[r.run] # NoRun
            /\ r.version # NoVersion =>
                \E v \in versions :
                    v.document = runs[r.run].document /\ Ref(v) = r.version
    /\ \A v \in versions : v.run # NoRun =>
            /\ runs[v.run] # NoRun
            /\ runs[v.run].document = v.document
            /\ v.author \in {NoUser, runs[v.run].user}
    /\ \A id \in RunId : runs[id] # NoRun =>
            HasAccess(runs[id].user, runs[id].document, Read)

(* A row of the history tables is immutable ("never overwrites earlier     *)
(* content"), a run keeps its user and document, and access once given is  *)
(* lowered at most to reading.                                             *)
HistoryImmutable ==
    [][ /\ versions \subseteq versions'
        /\ events \subseteq events'
        /\ handoffs \subseteq handoffs'
        /\ \A id \in RunId : runs[id] # NoRun =>
                /\ runs'[id] # NoRun
                /\ runs'[id].user = runs[id].user
                /\ runs'[id].document = runs[id].document
        /\ \A d \in Document, u \in User :
                access[d][u] # NoAccess => access'[d][u] # NoAccess
      ]_repoVars
=============================================================================
