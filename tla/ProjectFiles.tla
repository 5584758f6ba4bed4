------------------------------ MODULE ProjectFiles ------------------------------
(***************************************************************************)
(* The files of one project of the alpha: its saved drafts (storage.py)    *)
(* and its posts in the publication outbox (publication.py), and the file  *)
(* system calls by which save_linkedin_draft and publish_linkedin_post     *)
(* change them.  Each call is a step: nothing locks the directories, so    *)
(* other processes, failures and interrupts come between any two.          *)
(*                                                                         *)
(* A draft's file is named by its version and stage, a post's by its       *)
(* version and visibility.  A file is created before it is written, so     *)
(* for a moment, or for good, its content is cut.                          *)
(***************************************************************************)
EXTENDS Integers

CONSTANTS
    Process,     \* invocations of the command line
    Stage,       \* the stages of a draft, "final" among them
    Visibility,  \* the visibilities of a post
    Text,        \* contents
    Cut,         \* the content of a file that is not written out
    None,        \* a field of a call that is not known yet
    MaxFaults    \* bound: file system calls that fail

ASSUME FileConstants ==
    /\ "final" \in Stage
    /\ Cut \notin Text
    /\ None \notin Stage \cup Visibility \cup Text \cup {Cut}
    /\ MaxFaults \in Nat

VARIABLES
    drafts,  \* the files of the linkedin directory
    posts,   \* the files of the outbox
    at,      \* what each process does next
    call,    \* the tool call each process executes
    saved,   \* the drafts whose save returned ok
    faults

fileVars == <<drafts, posts, at, call, saved, faults>>

Content == Text \cup {Cut}
Draft == [version : Nat \ {0}, stage : Stage, text : Content]
Post == [version : Nat \ {0}, visibility : Visibility, text : Content]

SaveSteps == {"number", "check", "open", "write"}
PublishSteps == {"find", "read", "outbox", "create", "copy"}
FileSteps == SaveSteps \cup PublishSteps

NoCall == [version |-> 0, stage |-> None, visibility |-> None, text |-> None]

SaveCall(s, t) == [version |-> 0, stage |-> s, visibility |-> None, text |-> t]
PublishCall(v, vis) == [version |-> v, stage |-> None, visibility |-> vis, text |-> None]

Moves(p, from, to) ==
    /\ at[p] = from
    /\ at' = [at EXCEPT ![p] = to]

(* The tool returns, with data or an error, to the loop over the calls. *)
Returns(p) ==
    /\ at' = [at EXCEPT ![p] = "loop"]
    /\ call' = [call EXCEPT ![p] = NoCall]

DraftsOf(v) == {d \in drafts : d.version = v}
PostsOf(v) == {m \in posts : m.version = v}

IsFileOf(d, c) == d.version = c.version /\ d.stage = c.stage
IsPostOf(m, c) == m.version = c.version /\ m.visibility = c.visibility

-----------------------------------------------------------------------------
(* save_linkedin_draft *)

(* Faulty variant: files that were left cut do not count. *)
IsNextOfWhole(v) ==
    LET whole == {d \in drafts : d.text # Cut}
    IN  /\ \A d \in whole : d.version < v
        /\ v = 1 \/ \E d \in whole : d.version = v - 1

IsNext(v) ==
    /\ \A d \in drafts : d.version < v
    /\ v = 1 \/ \E d \in drafts : d.version = v - 1

TakeNumber(p, v) ==
    /\ Moves(p, "number", "check")
    /\ IsNext(v)
    /\ call' = [call EXCEPT ![p].version = v]
    /\ UNCHANGED <<drafts, posts, saved, faults>>

FindFree(p) ==
    /\ Moves(p, "check", "open")
    /\ \A d \in drafts : ~ IsFileOf(d, call[p])
    /\ UNCHANGED <<drafts, posts, call, saved, faults>>

FindTaken(p) ==
    /\ at[p] = "check"
    /\ \E d \in drafts : IsFileOf(d, call[p])
    /\ Returns(p)
    /\ UNCHANGED <<drafts, posts, saved, faults>>

(* The draft's file gets the content t, whatever it had. *)
PutDraft(c, t) ==
    drafts' = {d \in drafts : ~ IsFileOf(d, c)}
        \cup {[version |-> c.version, stage |-> c.stage, text |-> t]}

OpenDraft(p) ==
    /\ Moves(p, "open", "write")
    /\ PutDraft(call[p], Cut)
    /\ UNCHANGED <<posts, call, saved, faults>>

WriteDraft(p) ==
    /\ at[p] = "write"
    /\ PutDraft(call[p], call[p].text)
    /\ saved' = saved \cup
        {[version |-> call[p].version, stage |-> call[p].stage, text |-> call[p].text]}
    /\ Returns(p)
    /\ UNCHANGED <<posts, faults>>

-----------------------------------------------------------------------------
(* publish_linkedin_post *)

(* Of several files of the version, the directory's order decides. *)
FindDraft(p) ==
    /\ Moves(p, "find", "read")
    /\ call[p].visibility \in Visibility
    /\ \E d \in DraftsOf(call[p].version) : call' = [call EXCEPT ![p].stage = d.stage]
    /\ UNCHANGED <<drafts, posts, saved, faults>>

RefusePublish(p) ==
    /\ at[p] = "find"
    /\ call[p].visibility \notin Visibility \/ DraftsOf(call[p].version) = {}
    /\ Returns(p)
    /\ UNCHANGED <<drafts, posts, saved, faults>>

(* Faulty variant: the stage is not looked at. *)
ReadAny(p) ==
    /\ Moves(p, "read", "outbox")
    /\ \E d \in drafts : IsFileOf(d, call[p]) /\ call' = [call EXCEPT ![p].text = d.text]
    /\ UNCHANGED <<drafts, posts, saved, faults>>

ReadFinal(p) ==
    /\ Moves(p, "read", "outbox")
    /\ call[p].stage = "final"
    /\ \E d \in drafts : IsFileOf(d, call[p]) /\ call' = [call EXCEPT ![p].text = d.text]
    /\ UNCHANGED <<drafts, posts, saved, faults>>

RefuseStage(p) ==
    /\ at[p] = "read"
    /\ call[p].stage # "final"
    /\ Returns(p)
    /\ UNCHANGED <<drafts, posts, saved, faults>>

(* Faulty variant: only the post's own file name is looked for. *)
SeeNoSuchPost(p) ==
    /\ Moves(p, "outbox", "create")
    /\ \A m \in posts : ~ IsPostOf(m, call[p])
    /\ UNCHANGED <<drafts, posts, call, saved, faults>>

SeeUnpublished(p) ==
    /\ Moves(p, "outbox", "create")
    /\ PostsOf(call[p].version) = {}
    /\ UNCHANGED <<drafts, posts, call, saved, faults>>

(* Faulty variant: the older post makes room for the new one. *)
SeeReplaceable(p) ==
    /\ Moves(p, "outbox", "create")
    /\ PostsOf(call[p].version) # {}
    /\ posts' = posts \ PostsOf(call[p].version)
    /\ UNCHANGED <<drafts, call, saved, faults>>

SeePublished(p) ==
    /\ at[p] = "outbox"
    /\ PostsOf(call[p].version) # {}
    /\ Returns(p)
    /\ UNCHANGED <<drafts, posts, saved, faults>>

PostWith(c, t) == [version |-> c.version, visibility |-> c.visibility, text |-> t]

(* open(mode="x") creates the file ... *)
CreatePost(p) ==
    /\ Moves(p, "create", "copy")
    /\ \A m \in posts : ~ IsPostOf(m, call[p])
    /\ posts' = posts \cup {PostWith(call[p], Cut)}
    /\ UNCHANGED <<drafts, call, saved, faults>>

(* ... or finds that it exists. *)
FindPost(p) ==
    /\ at[p] = "create"
    /\ \E m \in posts : IsPostOf(m, call[p])
    /\ Returns(p)
    /\ UNCHANGED <<drafts, posts, saved, faults>>

CopyText(p) ==
    /\ at[p] = "copy"
    /\ posts' = {m \in posts : ~ IsPostOf(m, call[p])} \cup {PostWith(call[p], call[p].text)}
    /\ Returns(p)
    /\ UNCHANGED <<drafts, saved, faults>>

-----------------------------------------------------------------------------
(* A file system call raises: the tool returns an error, and a file it has *)
(* created stays as it is.                                                 *)
FileFails(p) ==
    /\ faults < MaxFaults
    /\ faults' = faults + 1
    /\ at[p] \in FileSteps
    /\ Returns(p)
    /\ UNCHANGED <<drafts, posts, saved>>

FileStep(p) ==
    \/ FindFree(p) \/ FindTaken(p) \/ OpenDraft(p) \/ WriteDraft(p)
    \/ FindDraft(p) \/ RefusePublish(p) \/ ReadFinal(p) \/ RefuseStage(p)
    \/ SeeUnpublished(p) \/ SeePublished(p)
    \/ CreatePost(p) \/ FindPost(p) \/ CopyText(p)

-----------------------------------------------------------------------------
(* A version number names one draft, and the versions are 1, 2, ... with   *)
(* no gap: the number is all a call to read or to publish gives.           *)
DraftsNumbered ==
    /\ \A d, e \in drafts : d.version = e.version => d = e
    /\ \A d \in drafts : \A v \in 1 .. d.version : DraftsOf(v) # {}

(* A draft whose save was acknowledged keeps its content and its number for *)
(* good ("Save a new LinkedIn draft version without overwriting old         *)
(* versions"): no other file takes the number, not even one left cut.       *)
SavedKept == \A d \in saved : DraftsOf(d.version) = {d}

(* Only drafts marked as final reach the outbox. *)
PublishedIsFinal == \A m \in posts : \E d \in DraftsOf(m.version) : d.stage = "final"

(* A version is published once, whatever the visibility. *)
OncePerVersion == \A m, n \in posts : m.version = n.version => m = n

(* A post that is written out is never changed nor removed. *)
PostsKept == [][\A m \in posts : m.text # Cut => m \in posts']_fileVars
=============================================================================
