------------------------------- MODULE AlphaProofs -------------------------------
(***************************************************************************)
(* Theorems about AlphaAgent: what holds of the drafts and the outbox      *)
(* however many runs are under way, and what holds when runs come one      *)
(* after another.  A run takes a bounded number of steps, and what its     *)
(* next call needs is there.                                               *)
(***************************************************************************)
EXTENDS AlphaAgent, TLAPS, FiniteSetTheorems

(* The calls of the loop and the file system calls of the tools, one by    *)
(* one: what a proof by cases over the next step distinguishes.            *)
SaveStep(p) ==
    \/ FindFree(p) \/ FindTaken(p) \/ OpenDraft(p) \/ WriteDraft(p)
    \/ \E v \in 1 .. MaxSaves : TakeNumber(p, v)

PublishStep(p) ==
    \/ FindDraft(p) \/ RefusePublish(p) \/ ReadFinal(p) \/ RefuseStage(p)
    \/ SeeUnpublished(p) \/ SeePublished(p)
    \/ CreatePost(p) \/ FindPost(p) \/ CopyText(p)

(* A process that is not in the middle of a file system call. *)
LoopStep(p) ==
    \/ RefuseRequest(p) \/ Begin(p)
    \/ ModelFails(p) \/ ModelAnswers(p) \/ ModelCalls(p) \/ CallOther(p)
    \/ \E s \in Stage, t \in Text : CallSave(p, s, t)
    \/ \E v \in 1 .. MaxSaves, vis \in Visibility \cup {None} : CallPublish(p, v, vis)
    \/ Approve(p) \/ Decline(p) \/ InputEnds(p)
    \/ NextTurn(p) \/ OutOfTurns(p) \/ Interrupt(p)

(* Every step is one of the loop, of a save, of a publication, or fails. *)
LEMMA StepCases ==
    ASSUME NEW p \in Process, Proceed(p) \/ Human(p)
    PROVE  \/ LoopStep(p)
           \/ SaveStep(p) /\ UNCHANGED <<loopVars, approved, saves>>
           \/ PublishStep(p) /\ UNCHANGED <<loopVars, approved, saves>>
           \/ FileFails(p) /\ UNCHANGED <<loopVars, approved, saves>>
  BY Zenon DEF Proceed, Human, UseFiles, FileStep, LoopStep, SaveStep, PublishStep

-----------------------------------------------------------------------------
(* The arguments of the call that each process executes. *)
ArgsOK(p) ==
    /\ at[p] \in SaveSteps => call[p].stage \in Stage /\ call[p].text \in Text
    /\ at[p] \in SaveSteps \ {"number"} => call[p].version \in Nat \ {0}
    /\ at[p] \in PublishSteps \cup {"ask"} => call[p].version \in Nat \ {0}
    /\ at[p] \in PublishSteps \ {"find"} =>
            call[p].visibility \in Visibility /\ call[p].stage \in Stage
    /\ at[p] \in {"outbox", "create", "copy"} => call[p].text \in Content

TypeInv == AlphaTypeOK /\ \A p \in Process : ArgsOK(p)

(* Where a process stands when no tool call is under way. *)
Quiet == Idle \cup {"model", "loop"}

(* What a step does when it leaves the files alone. *)
MovesTo(p, l, c) ==
    /\ at' = [at EXCEPT ![p] = l]
    /\ call' = [call EXCEPT ![p] = c]
    /\ UNCHANGED <<drafts, posts, saved>>
    /\ approved \subseteq approved'
    /\ OneAtATime /\ at[p] \in Idle /\ l \notin Idle => \A q \in Process : at[q] \in Idle

(* Ways into a tool call, by what its arguments are. *)
Enters(p, l, c) ==
    \/ l \in Quiet
    \/ l = "number" /\ c.stage \in Stage /\ c.text \in Text
    \/ l = "ask" /\ c.version \in Nat \ {0}
    \/ /\ l = "find" /\ at[p] = "ask" /\ c = call[p]
       /\ \A d \in DraftsOf(c.version) : PostWith(c, d.text) \in approved'

QuietStep(p) == \E l \in Points, c \in Call : MovesTo(p, l, c) /\ Enters(p, l, c)

USE AgentConstants, FileConstants

(* A call with no arguments is a call. *)
LEMMA NoCallIsCall == NoCall \in Call
  BY DEF NoCall, Call

(* A step of the loop, a refusal and a failure leave the files alone. *)
LEMMA LoopIsQuiet ==
    ASSUME TypeInv, NEW p \in Process,
           \/ LoopStep(p)
           \/ /\ \/ FileFails(p) \/ FindTaken(p) \/ RefusePublish(p)
                 \/ RefuseStage(p) \/ SeePublished(p) \/ FindPost(p)
              /\ UNCHANGED approved
    PROVE  QuietStep(p)
  <1> USE NoCallIsCall DEF QuietStep, MovesTo, Enters, Quiet, Idle, Points, FileSteps
  <1>0. at \in [Process -> Points] /\ call \in [Process -> Call]
    BY DEF TypeInv, AlphaTypeOK
  <1>1. CASE \/ RefuseRequest(p) \/ ModelFails(p) \/ ModelAnswers(p) \/ InputEnds(p)
             \/ OutOfTurns(p) \/ Interrupt(p)
    BY <1>0, <1>1 DEF RefuseRequest, ModelFails, ModelAnswers, InputEnds, OutOfTurns,
       Interrupt, Exits
  <1>2. CASE Begin(p) \/ ModelCalls(p) \/ CallOther(p) \/ NextTurn(p)
    <2>1. call' = [call EXCEPT ![p] = call[p]] /\ UNCHANGED <<drafts, posts, saved, approved>>
      BY <1>0, <1>2 DEF Begin, ModelCalls, CallOther, NextTurn, TakesCall
    <2>2. \E l \in Quiet :
             /\ at' = [at EXCEPT ![p] = l]
             /\ OneAtATime /\ at[p] \in Idle /\ l \notin Idle =>
                    \A q \in Process : at[q] \in Idle
      BY <1>0, <1>2 DEF Begin, ModelCalls, CallOther, NextTurn, Moves
    <2>3. call[p] \in Call
      BY <1>0
    <2> QED
      BY <2>1, <2>2, <2>3
  <1>3. ASSUME NEW s \in Stage, NEW t \in Text, CallSave(p, s, t)
        PROVE  QuietStep(p)
    <2> DEFINE c == SaveCall(s, t)
    <2>1. c \in Call /\ c.stage = s /\ c.text = t
      BY DEF SaveCall, Call, Content
    <2>2. MovesTo(p, "number", c)
      BY <1>3 DEF CallSave, TakesCall, Moves
    <2>3. Enters(p, "number", c)
      BY <2>1
    <2> HIDE DEF c
    <2> QED
      BY <2>1, <2>2, <2>3 DEF SaveSteps
  <1>4. ASSUME NEW v \in 1 .. MaxSaves, NEW vis \in Visibility \cup {None},
               CallPublish(p, v, vis)
        PROVE  QuietStep(p)
    <2> DEFINE c == PublishCall(v, vis)
    <2>1. c \in Call /\ c.version \in Nat \ {0}
      BY DEF PublishCall, Call
    <2>2. MovesTo(p, "ask", c)
      BY <1>4 DEF CallPublish, TakesCall, Moves
    <2>3. Enters(p, "ask", c)
      BY <2>1
    <2> HIDE DEF c
    <2> QED
      BY <2>1, <2>2, <2>3
  <1>5. CASE Approve(p)
    <2>1. MovesTo(p, "find", call[p]) /\ at[p] = "ask"
      BY <1>0, <1>5 DEF Approve, Moves
    <2>2. \A d \in DraftsOf(call[p].version) : PostWith(call[p], d.text) \in approved'
      BY <1>5 DEF Approve
    <2>3. Enters(p, "find", call[p])
      BY <2>1, <2>2 DEF Enters
    <2>4. "find" \in Points /\ call[p] \in Call
      BY <1>0 DEF Points, FileSteps, PublishSteps
    <2> HIDE DEF MovesTo, Enters
    <2> QED
      BY <2>1, <2>3, <2>4
  <1>6. CASE \/ Decline(p)
             \/ /\ \/ FileFails(p) \/ FindTaken(p) \/ RefusePublish(p)
                   \/ RefuseStage(p) \/ SeePublished(p) \/ FindPost(p)
                /\ UNCHANGED approved
    BY <1>0, <1>6 DEF Decline, FileFails, FindTaken, RefusePublish, RefuseStage,
       SeePublished, FindPost, Returns, SaveSteps, PublishSteps
  <1> QED
    BY <1>1, <1>2, <1>3, <1>4, <1>5, <1>6 DEF LoopStep

(* The process of a step ends up with arguments that are in order, and the *)
(* other processes keep theirs.                                            *)
LEMMA OthersKeepArgs ==
    ASSUME TypeInv, NEW p \in Process, NEW l \in Points, NEW c \in Call,
           at' = [at EXCEPT ![p] = l], call' = [call EXCEPT ![p] = c],
           ArgsOK(p)'
    PROVE  (\A q \in Process : ArgsOK(q)') /\ at' \in [Process -> Points]
           /\ call' \in [Process -> Call]
  BY DEF TypeInv, AlphaTypeOK, ArgsOK

(* Types, and the arguments of every call under way. *)
THEOREM TypeInvariant == AgentSpec => []TypeInv
  <1>1. AgentInit => TypeInv
    BY NoCallIsCall
       DEF AgentInit, TypeInv, AlphaTypeOK, ArgsOK, Points, Idle, SaveSteps, PublishSteps,
           FileSteps
  <1>2. TypeInv /\ [AgentNext]_agentVars => TypeInv'
    <2> SUFFICES ASSUME TypeInv, [AgentNext]_agentVars PROVE TypeInv'
      OBVIOUS
    <2>1. CASE UNCHANGED agentVars
      BY <2>1 DEF agentVars, fileVars, loopVars, TypeInv, AlphaTypeOK, ArgsOK
    <2> SUFFICES ASSUME NEW p \in Process, Proceed(p) \/ Human(p) PROVE TypeInv'
      BY <2>1 DEF AgentNext
    <2>2. /\ turn' \in [Process -> 0 .. MaxSteps]
          /\ handled' \in [Process -> 0 .. MaxCalls]
          /\ saves' \in Nat /\ faults' \in Nat
      <3>1. CASE \/ RefuseRequest(p) \/ ModelFails(p) \/ ModelAnswers(p) \/ InputEnds(p)
                 \/ OutOfTurns(p) \/ Interrupt(p)
        BY <3>1 DEF RefuseRequest, ModelFails, ModelAnswers, InputEnds, OutOfTurns,
           Interrupt, Exits, TypeInv, AlphaTypeOK
      <3>2. CASE Begin(p) \/ ModelCalls(p) \/ CallOther(p) \/ NextTurn(p)
        BY <3>2 DEF Begin, ModelCalls, CallOther, NextTurn, TakesCall, TypeInv, AlphaTypeOK
      <3>3. CASE \/ \E s \in Stage, t \in Text : CallSave(p, s, t)
                 \/ \E v \in 1 .. MaxSaves, vis \in Visibility \cup {None} : CallPublish(p, v, vis)
        BY <3>3 DEF CallSave, CallPublish, TakesCall, TypeInv, AlphaTypeOK
      <3>4. CASE Approve(p) \/ Decline(p)
        BY <3>4 DEF Approve, Decline, loopVars, TypeInv, AlphaTypeOK
      <3>5. CASE (SaveStep(p) \/ PublishStep(p)) /\ UNCHANGED <<loopVars, approved, saves>>
        <4>1. UNCHANGED faults
          BY <3>5 DEF SaveStep, PublishStep, FindFree, FindTaken, OpenDraft, WriteDraft,
             TakeNumber, FindDraft, RefusePublish, ReadFinal, RefuseStage, SeeUnpublished,
             SeePublished, CreatePost, FindPost, CopyText
        <4> QED
          BY <3>5, <4>1 DEF loopVars, TypeInv, AlphaTypeOK
      <3>6. CASE FileFails(p) /\ UNCHANGED <<loopVars, approved, saves>>
        BY <3>6 DEF FileFails, loopVars, TypeInv, AlphaTypeOK
      <3> QED
        BY StepCases, <3>1, <3>2, <3>3, <3>4, <3>5, <3>6 DEF LoopStep
    <2>3. ASSUME /\ drafts' \subseteq Draft /\ saved' \subseteq Draft /\ posts' \subseteq Post
                 /\ \A q \in Process : ArgsOK(q)'
                 /\ at' \in [Process -> Points] /\ call' \in [Process -> Call]
          PROVE  TypeInv'
      BY <2>2, <2>3 DEF TypeInv, AlphaTypeOK
    <2>0. /\ at \in [Process -> Points] /\ call \in [Process -> Call]
          /\ call[p] \in Call /\ ArgsOK(p)
          /\ drafts \subseteq Draft /\ saved \subseteq Draft /\ posts \subseteq Post
      BY DEF TypeInv, AlphaTypeOK
    <2>4. CASE QuietStep(p)
      <3>1. PICK l \in Points, c \in Call : MovesTo(p, l, c) /\ Enters(p, l, c)
        BY <2>4 DEF QuietStep
      <3>2. ArgsOK(p)'
        BY <2>0, <3>1 DEF MovesTo, Enters, ArgsOK, Quiet, Idle, SaveSteps, PublishSteps
      <3> QED
        BY <2>0, <2>3, <3>1, <3>2, OthersKeepArgs DEF MovesTo
    <2>5. ASSUME NEW v \in 1 .. MaxSaves, TakeNumber(p, v) PROVE TypeInv'
      <3> DEFINE c == [call[p] EXCEPT !.version = v]
      <3>1. c \in Call
        BY <2>0 DEF Call
      <3>2. at' = [at EXCEPT ![p] = "check"] /\ call' = [call EXCEPT ![p] = c]
            /\ UNCHANGED <<drafts, posts, saved>>
        BY <2>0, <2>5 DEF TakeNumber, Moves
      <3>3. ArgsOK(p)'
        BY <2>0, <2>5, <3>2 DEF TakeNumber, Moves, ArgsOK, SaveSteps, PublishSteps, Call
      <3>4. "check" \in Points
        BY DEF Points, FileSteps, SaveSteps
      <3> HIDE DEF c
      <3> QED
        BY <2>0, <2>3, <3>1, <3>2, <3>3, <3>4, OthersKeepArgs
    <2>6. ASSUME /\ FindFree(p) \/ OpenDraft(p) \/ SeeUnpublished(p) \/ CreatePost(p)
          PROVE  TypeInv'
      <3>1. \E l \in {"open", "write", "create", "copy"} :
                /\ at' = [at EXCEPT ![p] = l]
                /\ \/ at[p] \in SaveSteps \ {"number"} /\ l \in {"open", "write"}
                   \/ at[p] \in {"outbox", "create"} /\ l \in {"create", "copy"}
        BY <2>6 DEF FindFree, OpenDraft, SeeUnpublished, CreatePost, Moves, SaveSteps
      <3>2. call' = [call EXCEPT ![p] = call[p]]
        BY <2>0, <2>6 DEF FindFree, OpenDraft, SeeUnpublished, CreatePost
      <3>3. ArgsOK(p)'
        BY <2>0, <3>1, <3>2 DEF ArgsOK, SaveSteps, PublishSteps
      <3>4. \A l \in {"open", "write", "create", "copy"} : l \in Points
        BY DEF Points, FileSteps, SaveSteps, PublishSteps
      <3>5. drafts' \subseteq Draft /\ saved' \subseteq Draft /\ posts' \subseteq Post
        BY <2>0, <2>6 DEF FindFree, OpenDraft, SeeUnpublished, CreatePost, Moves, ArgsOK,
           PutDraft, PostWith, Draft, Post, Content, SaveSteps, PublishSteps
      <3> QED
        BY <2>0, <2>3, <3>1, <3>2, <3>3, <3>4, <3>5, OthersKeepArgs
    <2>7. CASE FindDraft(p)
      <3>1. PICK d \in DraftsOf(call[p].version) : call' = [call EXCEPT ![p].stage = d.stage]
        BY <2>7 DEF FindDraft
      <3> DEFINE c == [call[p] EXCEPT !.stage = d.stage]
      <3>2. d \in Draft
        BY <2>0, <3>1 DEF DraftsOf
      <3>3. c \in Call /\ c.stage \in Stage
        BY <2>0, <3>2 DEF Call, Draft
      <3>4. at' = [at EXCEPT ![p] = "read"] /\ call' = [call EXCEPT ![p] = c]
            /\ UNCHANGED <<drafts, posts, saved>>
        BY <2>0, <2>7, <3>1 DEF FindDraft, Moves
      <3>5. c.version = call[p].version /\ c.visibility = call[p].visibility
        BY <2>0 DEF Call
      <3> HIDE DEF c
      <3>6. ArgsOK(p)'
        BY <2>0, <2>7, <3>3, <3>4, <3>5 DEF FindDraft, Moves, ArgsOK, SaveSteps, PublishSteps
      <3>7. "read" \in Points
        BY DEF Points, FileSteps, PublishSteps
      <3> QED
        BY <2>0, <2>3, <3>3, <3>4, <3>6, <3>7, OthersKeepArgs
    <2>8. CASE ReadFinal(p)
      <3>1. PICK d \in drafts : call' = [call EXCEPT ![p].text = d.text]
        BY <2>8 DEF ReadFinal
      <3> DEFINE c == [call[p] EXCEPT !.text = d.text]
      <3>2. c \in Call /\ c.text \in Content
        BY <2>0, <3>1 DEF Call, Draft
      <3>3. at' = [at EXCEPT ![p] = "outbox"] /\ call' = [call EXCEPT ![p] = c]
            /\ UNCHANGED <<drafts, posts, saved>>
        BY <2>0, <2>8, <3>1 DEF ReadFinal, Moves
      <3>4. /\ c.version = call[p].version /\ c.visibility = call[p].visibility
            /\ c.stage = call[p].stage
        BY <2>0 DEF Call
      <3> HIDE DEF c
      <3>5. ArgsOK(p)'
        BY <2>0, <2>8, <3>2, <3>3, <3>4 DEF ReadFinal, Moves, ArgsOK, SaveSteps, PublishSteps
      <3>6. "outbox" \in Points
        BY DEF Points, FileSteps, PublishSteps
      <3> QED
        BY <2>0, <2>3, <3>2, <3>3, <3>5, <3>6, OthersKeepArgs
    <2>9. CASE WriteDraft(p) \/ CopyText(p)
      <3>1. at' = [at EXCEPT ![p] = "loop"] /\ call' = [call EXCEPT ![p] = NoCall]
        BY <2>9 DEF WriteDraft, CopyText, Returns
      <3>2. ArgsOK(p)' /\ "loop" \in Points
        BY <2>0, <3>1 DEF ArgsOK, SaveSteps, PublishSteps, Points
      <3>3. drafts' \subseteq Draft /\ saved' \subseteq Draft /\ posts' \subseteq Post
        BY <2>0, <2>9 DEF WriteDraft, CopyText, ArgsOK, PutDraft, PostWith, Draft, Post,
           Content, SaveSteps, PublishSteps
      <3> QED
        BY <2>3, <3>1, <3>2, <3>3, NoCallIsCall, OthersKeepArgs
    <2> QED
      BY StepCases, LoopIsQuiet, <2>4, <2>5, <2>6, <2>7, <2>8, <2>9
         DEF SaveStep, PublishStep
  <1> QED
    BY <1>1, <1>2, PTL DEF AgentSpec

(* Every variable keeps its type, for any number of runs of any length. *)
THEOREM AlphaTypeCorrect == AgentSpec => []AlphaTypeOK
  BY TypeInvariant, PTL DEF TypeInv

-----------------------------------------------------------------------------
(* What a publication under way has found: a draft of its version, a final *)
(* one once it was read, and, when it writes, its own post, cut.           *)
PublisherOK(p) ==
    /\ at[p] \in {"read", "outbox", "create", "copy"} =>
            \E d \in drafts : IsFileOf(d, call[p])
    /\ at[p] \in {"outbox", "create", "copy"} => call[p].stage = "final"
    /\ at[p] = "copy" => PostWith(call[p], Cut) \in posts

NamesUnique ==
    \A m, n \in posts : m.version = n.version /\ m.visibility = n.visibility => m = n

(* No two processes write the same post. *)
OneCopier ==
    \A p, q \in Process :
        /\ at[p] = "copy" /\ at[q] = "copy"
        /\ call[p].version = call[q].version /\ call[p].visibility = call[q].visibility
        => p = q

OutboxInv ==
    /\ \A p \in Process : PublisherOK(p)
    /\ NamesUnique
    /\ OneCopier
    /\ PublishedIsFinal

WrittenPostsStay == \A m \in posts : m.text # Cut => m \in posts'

(* A file of a draft may get another content but never goes. *)
FilesStay == \A d \in drafts : \E e \in drafts' : e.version = d.version /\ e.stage = d.stage

(* A step that leaves the outbox alone. *)
LEMMA OutboxAlone ==
    ASSUME TypeInv, OutboxInv, NEW p \in Process, NEW l, NEW c,
           at' = [at EXCEPT ![p] = l], call' = [call EXCEPT ![p] = c],
           UNCHANGED posts, FilesStay, l # "copy", PublisherOK(p)'
    PROVE  OutboxInv' /\ WrittenPostsStay
  <1>0. at \in [Process -> Points] /\ call \in [Process -> Call]
    BY DEF TypeInv, AlphaTypeOK
  <1>1. \A q \in Process : PublisherOK(q)'
    <2> SUFFICES ASSUME NEW q \in Process, q # p PROVE PublisherOK(q)'
      OBVIOUS
    <2>1. at'[q] = at[q] /\ call'[q] = call[q]
      BY <1>0
    <2>2. PublisherOK(q)
      BY DEF OutboxInv
    <2> QED
      BY <2>1, <2>2 DEF PublisherOK, FilesStay, IsFileOf, PostWith
  <1>2. OneCopier'
    BY <1>0 DEF OutboxInv, OneCopier
  <1>3. PublishedIsFinal'
    BY DEF OutboxInv, PublishedIsFinal, FilesStay, DraftsOf
  <1>4. NamesUnique' /\ WrittenPostsStay
    BY DEF OutboxInv, NamesUnique, WrittenPostsStay
  <1> QED
    BY <1>1, <1>2, <1>3, <1>4 DEF OutboxInv

(* One step keeps the outbox in order. *)
LEMMA OutboxStep ==
    ASSUME TypeInv, OutboxInv, NEW p \in Process, Proceed(p) \/ Human(p)
    PROVE  OutboxInv' /\ WrittenPostsStay
  <1>0. /\ at \in [Process -> Points] /\ call \in [Process -> Call]
        /\ call[p] \in Call /\ ArgsOK(p) /\ PublisherOK(p)
    BY DEF TypeInv, AlphaTypeOK, OutboxInv
  <1>1. CASE QuietStep(p)
    <2>1. PICK l \in Points, c \in Call : MovesTo(p, l, c) /\ Enters(p, l, c)
      BY <1>1 DEF QuietStep
    <2>2. at'[p] \notin {"read", "outbox", "create", "copy"} /\ l # "copy"
      BY <1>0, <2>1 DEF MovesTo, Enters, Quiet, Idle
    <2>3. PublisherOK(p)' /\ FilesStay
      BY <2>1, <2>2 DEF PublisherOK, MovesTo, FilesStay
    <2> QED
      BY <2>1, <2>2, <2>3, OutboxAlone DEF MovesTo
  <1>2. CASE SaveStep(p) /\ ~ FindTaken(p)
    <2>1. PICK l \in {"check", "open", "write", "loop"} : at' = [at EXCEPT ![p] = l]
      BY <1>2 DEF SaveStep, TakeNumber, FindFree, OpenDraft, WriteDraft, Moves, Returns
    <2>2. \E c : call' = [call EXCEPT ![p] = c]
      <3>1. CASE FindFree(p) \/ OpenDraft(p)
        BY <1>0, <3>1 DEF FindFree, OpenDraft
      <3>2. CASE WriteDraft(p)
        BY <3>2 DEF WriteDraft, Returns
      <3>3. CASE \E v \in 1 .. MaxSaves : TakeNumber(p, v)
        BY <3>3 DEF TakeNumber
      <3> QED
        BY <1>2, <3>1, <3>2, <3>3 DEF SaveStep
    <2>3. UNCHANGED posts
      BY <1>2 DEF SaveStep, TakeNumber, FindFree, OpenDraft, WriteDraft
    <2>4. FilesStay
      <3>1. CASE UNCHANGED drafts
        BY <3>1 DEF FilesStay
      <3>2. ASSUME NEW t, PutDraft(call[p], t) PROVE FilesStay
        <4> DEFINE new == [version |-> call[p].version, stage |-> call[p].stage, text |-> t]
        <4>1. drafts' = {d \in drafts : ~ IsFileOf(d, call[p])} \cup {new}
              /\ new.version = call[p].version /\ new.stage = call[p].stage
          BY <3>2 DEF PutDraft
        <4> HIDE DEF new
        <4> QED
          BY <4>1 DEF FilesStay, IsFileOf
      <3> QED
        BY <1>2, <3>1, <3>2 DEF SaveStep, TakeNumber, FindFree, OpenDraft, WriteDraft
    <2>5. PublisherOK(p)'
      BY <1>0, <2>1 DEF PublisherOK
    <2> QED
      BY <2>1, <2>2, <2>3, <2>4, <2>5, OutboxAlone
  <1>3. CASE FindDraft(p)
    <2>1. PICK d \in DraftsOf(call[p].version) : call' = [call EXCEPT ![p].stage = d.stage]
      BY <1>3 DEF FindDraft
    <2> DEFINE c == [call[p] EXCEPT !.stage = d.stage]
    <2>2. at' = [at EXCEPT ![p] = "read"] /\ call' = [call EXCEPT ![p] = c]
          /\ UNCHANGED <<drafts, posts>>
      BY <1>0, <1>3, <2>1 DEF FindDraft, Moves
    <2>3. c.version = call[p].version /\ c.stage = d.stage
      BY <1>0 DEF Call
    <2> HIDE DEF c
    <2>4. PublisherOK(p)' /\ FilesStay
      BY <1>0, <2>1, <2>2, <2>3 DEF PublisherOK, FilesStay, DraftsOf, IsFileOf
    <2> QED
      BY <2>2, <2>4, OutboxAlone
  <1>4. CASE ReadFinal(p)
    <2>1. PICK d \in drafts : IsFileOf(d, call[p]) /\ call' = [call EXCEPT ![p].text = d.text]
      BY <1>4 DEF ReadFinal
    <2> DEFINE c == [call[p] EXCEPT !.text = d.text]
    <2>2. at' = [at EXCEPT ![p] = "outbox"] /\ call' = [call EXCEPT ![p] = c]
          /\ UNCHANGED <<drafts, posts>> /\ call[p].stage = "final"
      BY <1>0, <1>4, <2>1 DEF ReadFinal, Moves
    <2>3. c.version = call[p].version /\ c.stage = call[p].stage
      BY <1>0 DEF Call
    <2> HIDE DEF c
    <2>4. PublisherOK(p)' /\ FilesStay
      BY <1>0, <2>1, <2>2, <2>3 DEF PublisherOK, FilesStay, IsFileOf
    <2> QED
      BY <2>2, <2>4, OutboxAlone
  <1>5. CASE SeeUnpublished(p)
    <2>1. at' = [at EXCEPT ![p] = "create"] /\ call' = [call EXCEPT ![p] = call[p]]
          /\ UNCHANGED <<drafts, posts>> /\ at[p] = "outbox"
      BY <1>0, <1>5 DEF SeeUnpublished, Moves
    <2>2. PublisherOK(p)' /\ FilesStay
      BY <1>0, <2>1 DEF PublisherOK, FilesStay, IsFileOf
    <2> QED
      BY <2>1, <2>2, OutboxAlone
  <1>6. CASE CreatePost(p)
    <2> DEFINE new == PostWith(call[p], Cut)
    <2>1. /\ at' = [at EXCEPT ![p] = "copy"] /\ at[p] = "create"
          /\ UNCHANGED <<drafts, call>>
          /\ posts' = posts \cup {new}
          /\ \A m \in posts : ~ IsPostOf(m, call[p])
      BY <1>6 DEF CreatePost, Moves
    <2>2. new.version = call[p].version /\ new.visibility = call[p].visibility
      BY DEF PostWith
    <2>3. \A q \in Process : PublisherOK(q)'
      BY <1>0, <2>1 DEF OutboxInv, PublisherOK, IsFileOf, PostWith
    <2>4. OneCopier'
      <3> SUFFICES ASSUME NEW q \in Process, q # p, at[q] = "copy",
                          call[p].version = call[q].version,
                          call[p].visibility = call[q].visibility
                   PROVE  FALSE
        BY <1>0, <2>1 DEF OutboxInv, OneCopier
      <3>1. PostWith(call[q], Cut) \in posts
        BY DEF OutboxInv, PublisherOK
      <3> QED
        BY <2>1, <3>1 DEF IsPostOf, PostWith
    <2> HIDE DEF new
    <2>5. NamesUnique'
      BY <2>1, <2>2 DEF OutboxInv, NamesUnique, IsPostOf
    <2>6. PublishedIsFinal'
      BY <1>0, <2>1, <2>2 DEF OutboxInv, PublisherOK, PublishedIsFinal, DraftsOf, IsFileOf
    <2> QED
      BY <2>1, <2>3, <2>4, <2>5, <2>6 DEF OutboxInv, WrittenPostsStay
  <1>7. CASE CopyText(p)
    <2> DEFINE new == PostWith(call[p], call[p].text)
               cut == PostWith(call[p], Cut)
    <2>1. /\ at' = [at EXCEPT ![p] = "loop"] /\ at[p] = "copy"
          /\ call' = [call EXCEPT ![p] = NoCall] /\ UNCHANGED drafts
          /\ posts' = {m \in posts : ~ IsPostOf(m, call[p])} \cup {new}
      BY <1>7 DEF CopyText, Returns
    <2>2. new.version = call[p].version /\ new.visibility = call[p].visibility
      BY DEF PostWith
    <2>3. /\ cut \in posts /\ cut.version = call[p].version
          /\ cut.visibility = call[p].visibility /\ cut.text = Cut
      BY <1>0, <2>1 DEF PublisherOK, PostWith
    <2>4. \A q \in Process : PublisherOK(q)'
      <3>1. PublisherOK(p)'
        BY <1>0, <2>1 DEF PublisherOK
      <3> SUFFICES ASSUME NEW q \in Process, q # p PROVE PublisherOK(q)'
        BY <3>1
      <3>2. at'[q] = at[q] /\ call'[q] = call[q] /\ PublisherOK(q)
        BY <1>0, <2>1 DEF OutboxInv
      <3>3. ASSUME at[q] = "copy" PROVE PostWith(call[q], Cut) \in posts'
        <4>1. ~ IsPostOf(PostWith(call[q], Cut), call[p])
          BY <2>1, <3>3 DEF OutboxInv, OneCopier, IsPostOf, PostWith
        <4> QED
          BY <2>1, <3>2, <3>3, <4>1 DEF PublisherOK
      <3> QED
        BY <2>1, <3>2, <3>3 DEF PublisherOK, IsFileOf, PostWith
    <2> HIDE DEF new, cut
    <2>5. OneCopier'
      BY <1>0, <2>1 DEF OutboxInv, OneCopier
    <2>6. NamesUnique'
      BY <2>1, <2>2 DEF OutboxInv, NamesUnique, IsPostOf
    <2>7. PublishedIsFinal'
      BY <1>0, <2>1, <2>2 DEF OutboxInv, PublisherOK, PublishedIsFinal, DraftsOf, IsFileOf
    <2>8. WrittenPostsStay
      BY <2>1, <2>3 DEF OutboxInv, NamesUnique, IsPostOf, WrittenPostsStay
    <2> QED
      BY <2>4, <2>5, <2>6, <2>7, <2>8 DEF OutboxInv
  <1> QED
    BY StepCases, LoopIsQuiet, <1>1, <1>2, <1>3, <1>4, <1>5, <1>6, <1>7 DEF PublishStep

(* The outbox is in order, and stays so. *)
THEOREM OutboxInvariant == AgentSpec => []OutboxInv
  <1>1. AgentInit => OutboxInv
    BY DEF AgentInit, OutboxInv, PublisherOK, NamesUnique, OneCopier, PublishedIsFinal
  <1>2. TypeInv /\ OutboxInv /\ [AgentNext]_agentVars => OutboxInv'
    <2> SUFFICES ASSUME TypeInv, OutboxInv, [AgentNext]_agentVars PROVE OutboxInv'
      OBVIOUS
    <2>1. CASE UNCHANGED agentVars
      BY <2>1 DEF agentVars, fileVars, OutboxInv, PublisherOK, NamesUnique, OneCopier,
         PublishedIsFinal, DraftsOf, IsFileOf, PostWith
    <2>2. CASE AgentNext
      BY <2>2, OutboxStep DEF AgentNext
    <2> QED
      BY <2>1, <2>2
  <1> QED
    BY <1>1, <1>2, TypeInvariant, PTL DEF AgentSpec

(* Only final drafts reach the outbox, whatever other runs do meanwhile. *)
THEOREM OnlyFinalsPublished == AgentSpec => []PublishedIsFinal
  BY OutboxInvariant, PTL DEF OutboxInv

(* A post that is written out stays as it is, whatever other runs do. *)
THEOREM PostsAreKept == AgentSpec => PostsKept
  <1>1. TypeInv /\ OutboxInv /\ [AgentNext]_agentVars => [WrittenPostsStay]_fileVars
    <2> SUFFICES ASSUME TypeInv, OutboxInv, AgentNext PROVE WrittenPostsStay
      BY DEF agentVars
    <2> QED
      BY OutboxStep DEF AgentNext
  <1> QED
    BY <1>1, TypeInvariant, OutboxInvariant, PTL DEF AgentSpec, PostsKept, WrittenPostsStay

-----------------------------------------------------------------------------
(* Runs that come one after another. *)

Alone == \A p, q \in Process : at[p] \notin Idle /\ at[q] \notin Idle => p = q

CutDraft(c) == [version |-> c.version, stage |-> c.stage, text |-> Cut]

(* A save still has a version of its own, and then its file, cut. *)
SaverOK(p) ==
    /\ at[p] \in {"check", "open"} => IsNext(call[p].version)
    /\ at[p] = "write" => CutDraft(call[p]) \in drafts

(* What the human approved is still what the version holds. *)
ApprovalOK(p) ==
    /\ at[p] \in PublishSteps =>
            \A d \in DraftsOf(call[p].version) : PostWith(call[p], d.text) \in approved
    /\ at[p] \in {"outbox", "create", "copy"} =>
            \E d \in DraftsOf(call[p].version) : d.text = call[p].text
    /\ at[p] = "create" => PostsOf(call[p].version) = {}

SavesStand == saved \subseteq drafts

SequentialInv ==
    /\ Alone
    /\ \A p \in Process : SaverOK(p) /\ ApprovalOK(p)
    /\ DraftsNumbered
    /\ SavesStand
    /\ \A d \in saved : d.text # Cut
    /\ OncePerVersion
    /\ PublishedAsApproved

(* While a process is at work the others are not. *)
LEMMA OthersRest ==
    ASSUME TypeInv, SequentialInv, NEW p \in Process, at[p] \notin Idle, NEW l,
           at' = [at EXCEPT ![p] = l]
    PROVE  /\ Alone'
           /\ \A q \in Process : q # p => (SaverOK(q) /\ ApprovalOK(q))'
  <1>1. \A q \in Process : q # p => at'[q] \in Idle
    BY DEF TypeInv, AlphaTypeOK, SequentialInv, Alone
  <1>2. Alone'
    BY <1>1 DEF Alone
  <1>3. \A q \in Process : at'[q] \in Idle => (SaverOK(q) /\ ApprovalOK(q))'
    BY DEF SaverOK, ApprovalOK, Idle, PublishSteps
  <1> QED
    BY <1>1, <1>2, <1>3

(* A step that leaves the files alone. *)
LEMMA FilesAlone ==
    ASSUME TypeInv, SequentialInv, NEW p \in Process, NEW l,
           at[p] \notin Idle, at' = [at EXCEPT ![p] = l],
           UNCHANGED <<drafts, posts, saved, approved>>,
           SaverOK(p)', ApprovalOK(p)'
    PROVE  SequentialInv'
  <1>1. Alone' /\ \A q \in Process : (SaverOK(q) /\ ApprovalOK(q))'
    BY OthersRest
  <1>2. (DraftsNumbered /\ SavesStand /\ OncePerVersion /\ PublishedAsApproved)'
    BY DEF SequentialInv, DraftsNumbered, DraftsOf, SavesStand, OncePerVersion,
       PublishedAsApproved
  <1> QED
    BY <1>1, <1>2 DEF SequentialInv

(* The next version is new, and its draft closes the row. *)
LEMMA NextNumbered ==
    ASSUME DraftsNumbered, drafts \subseteq Draft, NEW d \in Draft, IsNext(d.version),
           drafts' = drafts \cup {d}
    PROVE  DraftsNumbered'
  <1>1. \A e \in drafts : e.version # d.version
    BY DEF IsNext, Draft
  <1>2. \A e, f \in drafts' : e.version = f.version => e = f
    BY <1>1 DEF DraftsNumbered
  <1>3. \A v : DraftsOf(v) # {} => DraftsOf(v)' # {}
    BY DEF DraftsOf
  <1>4. ASSUME NEW v \in 1 .. d.version PROVE DraftsOf(v)' # {}
    <2>1. CASE v = d.version
      BY <2>1 DEF DraftsOf
    <2>2. CASE v # d.version
      <3>1. PICK e \in drafts : e.version = d.version - 1
        BY <2>2 DEF IsNext, Draft
      <3>2. v \in 1 .. e.version
        BY <2>2, <3>1 DEF Draft
      <3> QED
        BY <1>3, <3>2 DEF DraftsNumbered
    <2> QED
      BY <2>1, <2>2
  <1>5. \A e \in drafts : \A v \in 1 .. e.version : DraftsOf(v)' # {}
    BY <1>3 DEF DraftsNumbered
  <1> QED
    BY <1>2, <1>4, <1>5 DEF DraftsNumbered

(* One step of runs that come one after another. *)
LEMMA SequentialStep ==
    ASSUME OneAtATime, TypeInv, OutboxInv, SequentialInv,
           NEW p \in Process, Proceed(p) \/ Human(p)
    PROVE  SequentialInv'
  <1>0. /\ at \in [Process -> Points] /\ call \in [Process -> Call]
        /\ call[p] \in Call /\ ArgsOK(p) /\ PublisherOK(p) /\ SaverOK(p) /\ ApprovalOK(p)
        /\ drafts \subseteq Draft /\ saved \subseteq Draft /\ posts \subseteq Post
    BY DEF TypeInv, AlphaTypeOK, OutboxInv, SequentialInv
  <1> USE DEF Idle
  <1>1. CASE QuietStep(p)
    <2>1. PICK l \in Points, c \in Call : MovesTo(p, l, c) /\ Enters(p, l, c)
      BY <1>1 DEF QuietStep
    <2>2. (SaverOK(p) /\ ApprovalOK(p))'
      BY <1>0, <2>1 DEF MovesTo, Enters, Quiet, SaverOK, ApprovalOK, PublishSteps, DraftsOf
    <2>3. \A q \in Process : (SaverOK(q) /\ ApprovalOK(q))'
      <3> SUFFICES ASSUME NEW q \in Process, q # p PROVE (SaverOK(q) /\ ApprovalOK(q))'
        BY <2>2
      <3>1. at'[q] = at[q] /\ call'[q] = call[q] /\ SaverOK(q) /\ ApprovalOK(q)
        BY <1>0, <2>1 DEF MovesTo, SequentialInv
      <3> QED
        BY <2>1, <3>1 DEF MovesTo, SaverOK, ApprovalOK, IsNext, DraftsOf, PostsOf
    <2>4. Alone'
      BY <1>0, <2>1 DEF MovesTo, SequentialInv, Alone
    <2>5. (DraftsNumbered /\ SavesStand /\ OncePerVersion /\ PublishedAsApproved)'
      BY <2>1 DEF MovesTo, SequentialInv, DraftsNumbered, DraftsOf, SavesStand,
         OncePerVersion, PublishedAsApproved
    <2> QED
      BY <2>1, <2>3, <2>4, <2>5 DEF MovesTo, SequentialInv
  <1>2. ASSUME NEW v \in 1 .. MaxSaves, TakeNumber(p, v), UNCHANGED approved
        PROVE  SequentialInv'
    <2>1. /\ at' = [at EXCEPT ![p] = "check"] /\ at[p] = "number"
          /\ UNCHANGED <<drafts, posts, saved>> /\ IsNext(v)
          /\ call'[p].version = v
      BY <1>0, <1>2 DEF TakeNumber, Moves, Call
    <2>2. at'[p] = "check" /\ SaverOK(p)' /\ ApprovalOK(p)'
      BY <1>0, <2>1 DEF SaverOK, ApprovalOK, IsNext, PublishSteps
    <2> QED
      BY <1>2, <2>1, <2>2, FilesAlone
  <1>3. CASE FindFree(p) /\ UNCHANGED approved
    <2>1. /\ at' = [at EXCEPT ![p] = "open"] /\ at[p] = "check"
          /\ UNCHANGED <<drafts, posts, saved, call>>
      BY <1>3 DEF FindFree, Moves
    <2>2. at'[p] = "open" /\ SaverOK(p)' /\ ApprovalOK(p)'
      BY <1>0, <2>1 DEF SaverOK, ApprovalOK, IsNext, PublishSteps
    <2> QED
      BY <1>3, <2>1, <2>2, FilesAlone
  <1>4. CASE OpenDraft(p) /\ UNCHANGED approved
    <2> DEFINE new == CutDraft(call[p])
    <2>1. /\ at' = [at EXCEPT ![p] = "write"] /\ at[p] = "open"
          /\ UNCHANGED <<posts, saved, call>> /\ PutDraft(call[p], Cut)
      BY <1>4 DEF OpenDraft, Moves
    <2>2. new \in Draft /\ new.version = call[p].version /\ IsNext(new.version)
      BY <1>0, <2>1 DEF ArgsOK, SaveSteps, CutDraft, Draft, Content, SaverOK
    <2>3. \A d \in drafts : ~ IsFileOf(d, call[p])
      BY <1>0, <2>2 DEF IsNext, IsFileOf, Draft
    <2>4. drafts' = drafts \cup {new}
      BY <2>1, <2>3 DEF PutDraft, CutDraft
    <2>5. at'[p] = "write" /\ SaverOK(p)' /\ ApprovalOK(p)'
      BY <1>0, <2>1, <2>4 DEF SaverOK, ApprovalOK, PublishSteps, CutDraft
    <2> HIDE DEF new
    <2>6. DraftsNumbered'
      BY <1>0, <2>2, <2>4, NextNumbered DEF SequentialInv
    <2>7. Alone' /\ \A q \in Process : (SaverOK(q) /\ ApprovalOK(q))'
      BY <2>1, <2>5, OthersRest
    <2>8. (SavesStand /\ OncePerVersion /\ PublishedAsApproved)'
      BY <1>4, <2>1, <2>4 DEF SequentialInv, SavesStand, OncePerVersion, PublishedAsApproved
    <2> QED
      BY <2>1, <2>6, <2>7, <2>8 DEF SequentialInv
  <1>5. CASE WriteDraft(p) /\ UNCHANGED approved
    <2> DEFINE cut == CutDraft(call[p])
               new == [version |-> call[p].version, stage |-> call[p].stage,
                       text |-> call[p].text]
    <2>1. /\ at' = [at EXCEPT ![p] = "loop"] /\ at[p] = "write"
          /\ UNCHANGED posts /\ PutDraft(call[p], call[p].text)
          /\ saved' = saved \cup {new}
      BY <1>5 DEF WriteDraft, Returns
    <2>2. cut \in drafts /\ cut.version = call[p].version /\ cut.stage = call[p].stage
          /\ cut.text = Cut
      BY <1>0, <2>1 DEF SaverOK, CutDraft
    <2>3. new.version = call[p].version /\ new.text \in Text
      BY <1>0, <2>1 DEF ArgsOK, SaveSteps
    <2>4. drafts' = {d \in drafts : ~ IsFileOf(d, call[p])} \cup {new}
      BY <2>1 DEF PutDraft
    <2> HIDE DEF cut, new
    <2>5. \A d \in drafts : IsFileOf(d, call[p]) <=> d.version = call[p].version
      BY <2>2 DEF SequentialInv, DraftsNumbered, IsFileOf
    <2>6. DraftsNumbered'
      <3>1. \A d, e \in drafts' : d.version = e.version => d = e
        BY <2>3, <2>4, <2>5 DEF SequentialInv, DraftsNumbered
      <3>2. \A v : DraftsOf(v) # {} => DraftsOf(v)' # {}
        BY <2>3, <2>4, <2>5 DEF DraftsOf
      <3>3. \A d \in drafts' : \E e \in drafts : e.version = d.version
        BY <2>2, <2>3, <2>4
      <3> QED
        BY <3>1, <3>2, <3>3 DEF SequentialInv, DraftsNumbered
    <2>7. SavesStand'
      <3>1. \A s \in saved : ~ IsFileOf(s, call[p])
        BY <2>2, <2>5 DEF SequentialInv, SavesStand, DraftsNumbered
      <3> QED
        BY <2>1, <2>4, <3>1 DEF SequentialInv, SavesStand
    <2>8. at'[p] = "loop" /\ SaverOK(p)' /\ ApprovalOK(p)'
      BY <1>0, <2>1 DEF SaverOK, ApprovalOK, PublishSteps
    <2>9. Alone' /\ \A q \in Process : (SaverOK(q) /\ ApprovalOK(q))'
      BY <2>1, <2>8, OthersRest
    <2>10. (OncePerVersion /\ PublishedAsApproved)'
      BY <1>5, <2>1 DEF SequentialInv, OncePerVersion, PublishedAsApproved
    <2>11. \A d \in saved' : d.text # Cut
      BY <2>1, <2>3 DEF SequentialInv
    <2> QED
      BY <2>6, <2>7, <2>9, <2>10, <2>11 DEF SequentialInv
  <1>6. CASE FindDraft(p) /\ UNCHANGED approved
    <2>1. /\ at' = [at EXCEPT ![p] = "read"] /\ at[p] = "find"
          /\ UNCHANGED <<drafts, posts, saved>>
          /\ call'[p].version = call[p].version /\ call'[p].visibility = call[p].visibility
      BY <1>0, <1>6 DEF FindDraft, Moves, Call
    <2>2. at'[p] = "read" /\ SaverOK(p)' /\ ApprovalOK(p)'
      BY <1>0, <1>6, <2>1 DEF SaverOK, ApprovalOK, DraftsOf, PublishSteps, PostWith
    <2> QED
      BY <1>6, <2>1, <2>2, FilesAlone
  <1>7. CASE ReadFinal(p) /\ UNCHANGED approved
    <2>1. PICK d \in drafts : IsFileOf(d, call[p]) /\ call' = [call EXCEPT ![p].text = d.text]
      BY <1>7 DEF ReadFinal
    <2>2. /\ at' = [at EXCEPT ![p] = "outbox"] /\ at[p] = "read"
          /\ UNCHANGED <<drafts, posts, saved>>
          /\ call'[p].version = call[p].version /\ call'[p].visibility = call[p].visibility
          /\ call'[p].text = d.text
      BY <1>0, <1>7, <2>1 DEF ReadFinal, Moves, Call
    <2>3. d \in DraftsOf(call[p].version)
      BY <2>1 DEF DraftsOf, IsFileOf
    <2>4. at'[p] = "outbox" /\ SaverOK(p)' /\ ApprovalOK(p)'
      BY <1>0, <1>7, <2>2, <2>3 DEF SaverOK, ApprovalOK, DraftsOf, PublishSteps, PostWith
    <2> QED
      BY <1>7, <2>2, <2>4, FilesAlone
  <1>8. CASE SeeUnpublished(p) /\ UNCHANGED approved
    <2>1. /\ at' = [at EXCEPT ![p] = "create"] /\ at[p] = "outbox"
          /\ UNCHANGED <<drafts, posts, saved, call>> /\ PostsOf(call[p].version) = {}
      BY <1>8 DEF SeeUnpublished, Moves
    <2>2. at'[p] = "create" /\ SaverOK(p)' /\ ApprovalOK(p)'
      BY <1>0, <1>8, <2>1 DEF SaverOK, ApprovalOK, DraftsOf, PostsOf, PublishSteps
    <2> QED
      BY <1>8, <2>1, <2>2, FilesAlone
  <1>9. CASE CreatePost(p) /\ UNCHANGED approved
    <2> DEFINE new == PostWith(call[p], Cut)
    <2>1. /\ at' = [at EXCEPT ![p] = "copy"] /\ at[p] = "create"
          /\ UNCHANGED <<drafts, saved, call>> /\ posts' = posts \cup {new}
      BY <1>9 DEF CreatePost, Moves
    <2>2. at'[p] = "copy" /\ SaverOK(p)' /\ ApprovalOK(p)'
      BY <1>0, <1>9, <2>1 DEF SaverOK, ApprovalOK, DraftsOf, PublishSteps
    <2>3. PostsOf(call[p].version) = {}
      BY <1>0, <2>1 DEF ApprovalOK
    <2>4. new.version = call[p].version /\ new.text = Cut
      BY DEF PostWith
    <2> HIDE DEF new
    <2>5. (OncePerVersion /\ PublishedAsApproved)'
      BY <1>9, <2>1, <2>3, <2>4
         DEF SequentialInv, OncePerVersion, PublishedAsApproved, PostsOf
    <2>6. Alone' /\ \A q \in Process : (SaverOK(q) /\ ApprovalOK(q))'
      BY <2>1, <2>2, OthersRest
    <2>7. (DraftsNumbered /\ SavesStand)'
      BY <2>1 DEF SequentialInv, DraftsNumbered, DraftsOf, SavesStand
    <2> QED
      BY <2>1, <2>5, <2>6, <2>7 DEF SequentialInv
  <1>10. CASE CopyText(p) /\ UNCHANGED approved
    <2> DEFINE new == PostWith(call[p], call[p].text)
    <2>1. /\ at' = [at EXCEPT ![p] = "loop"] /\ at[p] = "copy"
          /\ UNCHANGED <<drafts, saved>>
          /\ posts' = {m \in posts : ~ IsPostOf(m, call[p])} \cup {new}
      BY <1>10 DEF CopyText, Returns
    <2>2. new \in approved
      BY <1>0, <2>1 DEF ApprovalOK, PublishSteps
    <2>3. new.version = call[p].version /\ new.visibility = call[p].visibility
      BY DEF PostWith
    <2> HIDE DEF new
    <2>4. \A m \in posts : m.version = call[p].version => IsPostOf(m, call[p])
      <3>1. PostWith(call[p], Cut) \in posts
        BY <1>0, <2>1 DEF PublisherOK
      <3> QED
        BY <3>1 DEF SequentialInv, OncePerVersion, IsPostOf, PostWith
    <2>5. (OncePerVersion /\ PublishedAsApproved)'
      BY <1>10, <2>1, <2>2, <2>3, <2>4
         DEF SequentialInv, OncePerVersion, PublishedAsApproved
    <2>6. at'[p] = "loop" /\ SaverOK(p)' /\ ApprovalOK(p)'
      BY <1>0, <2>1 DEF SaverOK, ApprovalOK, PublishSteps
    <2>7. Alone' /\ \A q \in Process : (SaverOK(q) /\ ApprovalOK(q))'
      BY <2>1, <2>6, OthersRest
    <2>8. (DraftsNumbered /\ SavesStand)'
      BY <2>1 DEF SequentialInv, DraftsNumbered, DraftsOf, SavesStand
    <2> QED
      BY <2>1, <2>5, <2>7, <2>8 DEF SequentialInv
  <1> QED
    BY StepCases, LoopIsQuiet, <1>1, <1>2, <1>3, <1>4, <1>5, <1>6, <1>7, <1>8, <1>9, <1>10
       DEF SaveStep, PublishStep

(* Everything that holds of runs that come one after another. *)
THEOREM SequentialInvariant == OneAtATime /\ AgentSpec => []SequentialInv
  <1>1. AgentInit => SequentialInv
    BY DEF AgentInit, SequentialInv, Alone, SaverOK, ApprovalOK, Idle, PublishSteps,
       DraftsNumbered, SavesStand, OncePerVersion, PublishedAsApproved
  <1>2. OneAtATime /\ TypeInv /\ OutboxInv /\ SequentialInv /\ [AgentNext]_agentVars
            => SequentialInv'
    <2> SUFFICES ASSUME OneAtATime, TypeInv, OutboxInv, SequentialInv,
                        [AgentNext]_agentVars
                 PROVE  SequentialInv'
      OBVIOUS
    <2>1. CASE UNCHANGED agentVars
      <3>1. UNCHANGED <<drafts, posts, at, call, saved, approved>>
        BY <2>1 DEF agentVars, fileVars
      <3>2. Alone' /\ \A q \in Process : (SaverOK(q) /\ ApprovalOK(q))'
        BY <3>1 DEF SequentialInv, Alone, SaverOK, ApprovalOK, IsNext, DraftsOf, PostsOf
      <3>3. (DraftsNumbered /\ SavesStand /\ OncePerVersion /\ PublishedAsApproved)'
        BY <3>1 DEF SequentialInv, DraftsNumbered, DraftsOf, SavesStand, OncePerVersion,
           PublishedAsApproved
      <3> QED
        BY <3>1, <3>2, <3>3 DEF SequentialInv
    <2>2. CASE AgentNext
      BY <2>2, SequentialStep DEF AgentNext
    <2> QED
      BY <2>1, <2>2
  <1>3. SUFFICES ASSUME OneAtATime PROVE AgentSpec => []SequentialInv
    OBVIOUS
  <1> QED
    BY <1>1, <1>2, <1>3, TypeInvariant, OutboxInvariant, PTL DEF AgentSpec

(* What is published is what the human approved, as it was approved. *)
THEOREM ApprovedIsPublished == OneAtATime /\ AgentSpec => []PublishedAsApproved
  BY SequentialInvariant, PTL DEF SequentialInv

(* No version is published twice. *)
THEOREM PublishedOnce == OneAtATime /\ AgentSpec => []OncePerVersion
  BY SequentialInvariant, PTL DEF SequentialInv

(* Versions are 1, 2, ... and name one draft each, and a save that was       *)
(* acknowledged keeps its content and its number, whatever fails or is      *)
(* interrupted.                                                             *)
THEOREM SavesAreKept == OneAtATime /\ AgentSpec => [](DraftsNumbered /\ SavedKept)
  <1>1. SequentialInv => DraftsNumbered /\ SavedKept
    BY DEF SequentialInv, DraftsNumbered, SavesStand, SavedKept, DraftsOf
  <1> QED
    BY <1>1, SequentialInvariant, PTL

-----------------------------------------------------------------------------
(* Progress.  A run has a number of steps to go, which every step of its own *)
(* lowers and no step of another run changes; and only the human can keep it *)
(* waiting.                                                                  *)

CallLength == 7

InCall ==
    [ask |-> 6, find |-> 5, read |-> 4, outbox |-> 3, create |-> 2, copy |-> 1,
     number |-> 4, check |-> 3, open |-> 2, write |-> 1, loop |-> 0]

TurnLength == (MaxCalls + 1) * CallLength + 2
RunLength == MaxSteps * TurnLength + 1

(* What is left at a point of a turn, with so many calls taken up. *)
LeftInTurn(point, taken) ==
    IF point = "model" THEN TurnLength - 1
    ELSE (MaxCalls - taken) * CallLength + InCall[point]

LeftAt(point, t, taken) ==
    IF point = "off" THEN RunLength
    ELSE IF point = "over" THEN 0
    ELSE (MaxSteps - t) * TurnLength + LeftInTurn(point, taken) + 1

StepsLeft(p) == LeftAt(at[p], turn[p], handled[p])

RunsBounded == \A p \in Process : StepsLeft(p) \in 0 .. RunLength

RunsShorten ==
    [][\A p \in Process :
        StepsLeft(p)' < StepsLeft(p) \/ UNCHANGED <<at[p], turn[p], handled[p]>>]_agentVars

(* Runs that are about to take a number for a draft; each of them has been   *)
(* counted as a save, and no number was taken for it yet.                    *)
Numbering == {p \in Process : at[p] = "number"}

NumberInv ==
    /\ saves <= MaxSaves
    /\ IsFiniteSet(Numbering)
    /\ \A d \in drafts : d.version + Cardinality(Numbering) <= saves
    /\ \A p \in Process : at[p] \in {"check", "open", "write"} =>
            call[p].version + Cardinality(Numbering) <= saves
    /\ Cardinality(Numbering) <= saves
    /\ \E v \in 1 .. MaxSaves + 1 : IsNext(v)

(* What the next call of a run needs. *)
CanGoOn(p) ==
    /\ at[p] = "number" => \E v \in 1 .. MaxSaves : IsNext(v)
    /\ at[p] = "read" => \E d \in drafts : IsFileOf(d, call[p])

TurnInv == \A p \in Process : at[p] \notin Idle => turn[p] >= 1

CallPoints == DOMAIN InCall

(* The steps of a run, by where they lead. *)
LeadsOn(p) ==
    \/ at[p] # "over" /\ at'[p] = "over"
    \/ at[p] = "off" /\ at'[p] = "model" /\ turn'[p] = 1
    \/ at[p] = "model" /\ at'[p] = "loop" /\ handled'[p] = 0 /\ turn'[p] = turn[p]
    \/ /\ at[p] = "loop" /\ at'[p] \in {"loop", "number", "ask"}
       /\ handled[p] < MaxCalls /\ handled'[p] = handled[p] + 1 /\ turn'[p] = turn[p]
    \/ /\ at[p] \in CallPoints /\ at'[p] \in CallPoints
       /\ InCall[at'[p]] < InCall[at[p]]
       /\ handled'[p] = handled[p] /\ turn'[p] = turn[p]
    \/ at[p] = "loop" /\ at'[p] = "model" /\ turn[p] < MaxSteps /\ turn'[p] = turn[p] + 1

LEMMA CallPointsAre ==
    /\ CallPoints = {"ask", "loop"} \cup FileSteps
    /\ Points = {"off", "over", "model"} \cup CallPoints
    /\ \A l \in CallPoints : InCall[l] \in 0 .. CallLength - 1
    /\ \A l \in CallPoints \ {"loop"} : InCall["loop"] < InCall[l]
  BY DEF CallPoints, InCall, FileSteps, SaveSteps, PublishSteps, Points, Idle, CallLength

LEMMA StepsLead ==
    ASSUME TypeInv, NEW p \in Process, Proceed(p) \/ Human(p)
    PROVE  /\ LeadsOn(p)
           /\ \A q \in Process : q # p =>
                    at'[q] = at[q] /\ turn'[q] = turn[q] /\ handled'[q] = handled[q]
  <1>0. /\ at \in [Process -> Points] /\ turn \in [Process -> 0 .. MaxSteps]
        /\ handled \in [Process -> 0 .. MaxCalls]
    BY DEF TypeInv, AlphaTypeOK
  <1> DEFINE Still ==
        \A q \in Process : q # p =>
            at'[q] = at[q] /\ turn'[q] = turn[q] /\ handled'[q] = handled[q]
  <1>1. CASE LoopStep(p)
    <2>1. CASE \/ RefuseRequest(p) \/ ModelFails(p) \/ ModelAnswers(p) \/ InputEnds(p)
               \/ OutOfTurns(p) \/ Interrupt(p)
      BY <1>0, <2>1 DEF RefuseRequest, ModelFails, ModelAnswers, InputEnds, OutOfTurns,
         Interrupt, Exits, Idle, LeadsOn
    <2>2. CASE Begin(p) \/ ModelCalls(p) \/ NextTurn(p)
      BY <1>0, <2>2 DEF Begin, ModelCalls, NextTurn, Moves, LeadsOn
    <2>3. CASE \/ CallOther(p)
               \/ \E s \in Stage, t \in Text : CallSave(p, s, t)
               \/ \E v \in 1 .. MaxSaves, vis \in Visibility \cup {None} : CallPublish(p, v, vis)
      BY <1>0, <2>3 DEF CallOther, CallSave, CallPublish, TakesCall, Moves, LeadsOn
    <2>4. CASE Approve(p)
      <3>1. at[p] = "ask" /\ at' = [at EXCEPT ![p] = "find"] /\ UNCHANGED loopVars
        BY <2>4 DEF Approve, Moves
      <3>2. {"ask", "find"} \subseteq CallPoints /\ InCall["find"] < InCall["ask"]
        BY DEF CallPoints, InCall
      <3> QED
        BY <1>0, <3>1, <3>2 DEF LeadsOn, loopVars
    <2>5. CASE Decline(p)
      <3>1. at[p] = "ask" /\ at' = [at EXCEPT ![p] = "loop"] /\ UNCHANGED loopVars
        BY <2>5 DEF Decline, Returns
      <3>2. {"ask", "loop"} \subseteq CallPoints /\ InCall["loop"] < InCall["ask"]
        BY DEF CallPoints, InCall
      <3> QED
        BY <1>0, <3>1, <3>2 DEF LeadsOn, loopVars
    <2> QED
      BY <1>1, <2>1, <2>2, <2>3, <2>4, <2>5 DEF LoopStep
  <1>2. CASE /\ SaveStep(p) \/ PublishStep(p) \/ FileFails(p)
             /\ UNCHANGED <<loopVars, approved, saves>>
    <2>1. \E l \in CallPoints :
            /\ at' = [at EXCEPT ![p] = l]
            /\ at[p] \in CallPoints
            /\ InCall[l] < InCall[at[p]]
      <3>1. CASE \/ FindTaken(p) \/ WriteDraft(p) \/ RefusePublish(p) \/ RefuseStage(p)
                 \/ SeePublished(p) \/ FindPost(p) \/ CopyText(p) \/ FileFails(p)
        <4>1. at[p] \in FileSteps /\ at' = [at EXCEPT ![p] = "loop"]
          BY <3>1 DEF FindTaken, WriteDraft, RefusePublish, RefuseStage, SeePublished, FindPost,
             CopyText, FileFails, Returns, FileSteps, SaveSteps, PublishSteps
        <4>2. at[p] \in CallPoints \ {"loop"} /\ "loop" \in CallPoints
          BY <4>1, CallPointsAre DEF FileSteps, SaveSteps, PublishSteps
        <4> QED
          BY <4>1, <4>2, CallPointsAre
      <3>2. CASE \/ \E v \in 1 .. MaxSaves : TakeNumber(p, v)
                 \/ FindFree(p) \/ OpenDraft(p)
                 \/ FindDraft(p) \/ ReadFinal(p) \/ SeeUnpublished(p) \/ CreatePost(p)
        BY <3>2 DEF TakeNumber, FindFree, OpenDraft, FindDraft, ReadFinal, SeeUnpublished,
           CreatePost, Moves, CallPoints, InCall
      <3> QED
        BY <1>2, <3>1, <3>2 DEF SaveStep, PublishStep
    <2> QED
      BY <1>0, <1>2, <2>1 DEF LeadsOn, loopVars
  <1> QED
    BY StepCases, <1>1, <1>2

(* The turns that are left, as a number of steps. *)
LEMMA TurnsLeft ==
    ASSUME NEW t \in 1 .. MaxSteps
    PROVE  /\ (MaxSteps - t) * TurnLength \in Nat
           /\ (MaxSteps - t) * TurnLength <= RunLength - 1 - TurnLength
           /\ (MaxSteps - (t + 1)) * TurnLength = (MaxSteps - t) * TurnLength - TurnLength
           /\ TurnLength \in Nat /\ RunLength \in Nat
           /\ TurnLength = MaxCalls * 7 + 9
  <1>1. TurnLength \in Nat /\ TurnLength = MaxCalls * 7 + 9
    BY DEF TurnLength, CallLength
  <1>2. \A n, l \in Nat : n * l \in Nat
    OBVIOUS
  <1>3. \A n, l \in Int : (n - 1) * l = n * l - l
    OBVIOUS
  <1>4. \A m, n, l \in Int : (m - n) * l = m * l - n * l
    OBVIOUS
  <1>5. MaxSteps - t \in Nat /\ t - 1 \in Nat /\ MaxSteps \in Nat /\ t \in Int
    OBVIOUS
  <1>6. (MaxSteps - t) * TurnLength \in Nat /\ (t - 1) * TurnLength \in Nat
        /\ MaxSteps * TurnLength \in Nat
    BY <1>1, <1>2, <1>5
  <1>7. (MaxSteps - t) * TurnLength = MaxSteps * TurnLength - t * TurnLength
        /\ (t - 1) * TurnLength = t * TurnLength - TurnLength /\ t * TurnLength \in Int
    BY <1>1, <1>3, <1>4, <1>5
  <1>8. (MaxSteps - (t + 1)) * TurnLength = (MaxSteps - t) * TurnLength - TurnLength
    <2>1. MaxSteps - (t + 1) = (MaxSteps - t) - 1
      OBVIOUS
    <2> QED
      BY <1>1, <1>3, <1>5, <2>1
  <1>9. RunLength = MaxSteps * TurnLength + 1
    BY DEF RunLength
  <1> QED
    BY <1>1, <1>6, <1>7, <1>8, <1>9

(* What is left at each point of a turn. *)
LEMMA LeftThere ==
    ASSUME NEW l \in Points \ Idle, NEW t \in 1 .. MaxSteps, NEW h \in 0 .. MaxCalls
    PROVE  /\ LeftAt(l, t, h) = (MaxSteps - t) * TurnLength + LeftInTurn(l, h) + 1
           /\ LeftInTurn(l, h) \in 0 .. TurnLength - 1
           /\ l = "model" => LeftInTurn(l, h) = TurnLength - 1
           /\ l \in CallPoints =>
                /\ LeftInTurn(l, h) = (MaxCalls - h) * 7 + InCall[l]
                /\ InCall[l] \in 0 .. 6
  <1>2. TurnLength = MaxCalls * 7 + 9 /\ TurnLength \in Nat
    BY DEF TurnLength, CallLength
  <1>3. LeftAt(l, t, h) = (MaxSteps - t) * TurnLength + LeftInTurn(l, h) + 1
    BY DEF LeftAt, Idle
  <1>4. CASE l = "model"
    <2>1. l \notin CallPoints
      BY <1>4, CallPointsAre DEF FileSteps, SaveSteps, PublishSteps
    <2>2. LeftInTurn(l, h) = TurnLength - 1
      BY <1>4 DEF LeftInTurn
    <2> QED
      BY <1>2, <1>3, <2>1, <2>2
  <1>5. CASE l # "model"
    <2>1. l \in CallPoints
      BY <1>5, CallPointsAre DEF Idle
    <2>2. InCall[l] \in 0 .. CallLength - 1
      BY <2>1, CallPointsAre
    <2>3. InCall[l] \in 0 .. 6
      BY <2>2 DEF CallLength
    <2>4. LeftInTurn(l, h) = (MaxCalls - h) * 7 + InCall[l]
      BY <1>5 DEF LeftInTurn, CallLength
    <2>5. LeftInTurn(l, h) \in 0 .. TurnLength - 1
      BY <1>2, <2>3, <2>4
    <2> QED
      BY <1>3, <1>5, <2>3, <2>4, <2>5
  <1> QED
    BY <1>4, <1>5

LEMMA LeftInBounds ==
    ASSUME NEW l \in Points, NEW t \in 0 .. MaxSteps, NEW h \in 0 .. MaxCalls,
           l \notin Idle => t >= 1
    PROVE  /\ LeftAt(l, t, h) \in 0 .. RunLength
           /\ l # "over" => LeftAt(l, t, h) > 0
  <1>1. RunLength \in Nat /\ RunLength > 0
    BY TurnsLeft
  <1>2. CASE l \in Idle
    BY <1>1, <1>2 DEF LeftAt, Idle
  <1>3. CASE l \notin Idle
    <2>1. t \in 1 .. MaxSteps
      BY <1>3
    <2>2. /\ LeftAt(l, t, h) = (MaxSteps - t) * TurnLength + LeftInTurn(l, h) + 1
          /\ LeftInTurn(l, h) \in 0 .. TurnLength - 1
      BY <1>3, <2>1, LeftThere
    <2> DEFINE turns == (MaxSteps - t) * TurnLength
    <2>3. turns \in Nat /\ turns <= RunLength - 1 - TurnLength /\ TurnLength \in Nat
      BY <2>1, TurnsLeft
    <2> HIDE DEF turns
    <2> QED
      BY <1>1, <2>2, <2>3 DEF turns
  <1> QED
    BY <1>2, <1>3

LEMMA TurnStep ==
    ASSUME TypeInv, TurnInv, [AgentNext]_agentVars
    PROVE  TurnInv'
  <1>1. CASE UNCHANGED agentVars
    BY <1>1 DEF agentVars, fileVars, loopVars, TurnInv
  <1>2. CASE AgentNext
    <2>1. PICK p \in Process : Proceed(p) \/ Human(p)
      BY <1>2 DEF AgentNext
    <2>2. turn \in [Process -> 0 .. MaxSteps]
      BY DEF TypeInv, AlphaTypeOK
    <2>3. at'[p] \notin Idle => turn'[p] >= 1
      BY <2>1, <2>2, StepsLead, CallPointsAre DEF LeadsOn, TurnInv, Idle, FileSteps, SaveSteps,
         PublishSteps
    <2> QED
      BY <2>1, <2>3, StepsLead DEF TurnInv
  <1> QED
    BY <1>1, <1>2

LEMMA LeadingShortens ==
    ASSUME TypeInv, TurnInv, TypeInv', TurnInv', NEW p \in Process, LeadsOn(p)
    PROVE  StepsLeft(p)' < StepsLeft(p)
  <1> DEFINE l == at[p]  t == turn[p]  h == handled[p]
             m == at'[p] u == turn'[p] k == handled'[p]
  <1>0. /\ TurnLength \in Nat /\ RunLength \in Nat /\ TurnLength = MaxCalls * 7 + 9
        /\ RunLength >= TurnLength + 1
    BY TurnsLeft
  <1>1. /\ l \in Points /\ t \in 0 .. MaxSteps /\ h \in 0 .. MaxCalls
        /\ m \in Points /\ u \in 0 .. MaxSteps /\ k \in 0 .. MaxCalls
        /\ l \notin Idle => t >= 1
        /\ m \notin Idle => u >= 1
    BY DEF TypeInv, AlphaTypeOK, TurnInv
  <1>2. \/ l # "over" /\ m = "over"
        \/ l = "off" /\ m = "model" /\ u = 1
        \/ l = "model" /\ m = "loop" /\ k = 0 /\ u = t
        \/ /\ l = "loop" /\ m \in {"loop", "number", "ask"}
           /\ h < MaxCalls /\ k = h + 1 /\ u = t
        \/ /\ l \in CallPoints /\ m \in CallPoints
           /\ InCall[m] < InCall[l]
           /\ k = h /\ u = t
        \/ l = "loop" /\ m = "model" /\ t < MaxSteps /\ u = t + 1
    BY DEF LeadsOn
  <1> SUFFICES LeftAt(m, u, k) < LeftAt(l, t, h)
    BY DEF StepsLeft
  <1> HIDE DEF l, t, h, m, u, k
  <1>3. CASE l # "over" /\ m = "over"
    <2>1. LeftAt(m, u, k) = 0
      BY <1>3 DEF LeftAt
    <2> QED
      BY <1>1, <1>3, <2>1, LeftInBounds
  <1>4. CASE l = "off" /\ m = "model" /\ u = 1
    <2>1. LeftAt(l, t, h) = RunLength
      BY <1>4 DEF LeftAt
    <2>2. m \in Points \ Idle /\ u \in 1 .. MaxSteps
      BY <1>1, <1>4 DEF Idle
    <2>3. LeftAt(m, u, k) = (MaxSteps - u) * TurnLength + TurnLength
      BY <1>0, <1>1, <1>4, <2>2, LeftThere, TurnsLeft
    <2> DEFINE turns == (MaxSteps - u) * TurnLength
    <2>4. turns \in Nat /\ turns <= RunLength - 1 - TurnLength
      BY <2>2, TurnsLeft
    <2> HIDE DEF turns
    <2> QED
      BY <1>0, <2>1, <2>3, <2>4 DEF turns
  <1>5. CASE l \notin Idle /\ m \notin Idle /\ u = t /\ LeftInTurn(m, k) < LeftInTurn(l, h)
    <2>1. /\ LeftAt(l, t, h) = (MaxSteps - t) * TurnLength + LeftInTurn(l, h) + 1
          /\ LeftInTurn(l, h) \in Nat
          /\ LeftAt(m, t, k) = (MaxSteps - t) * TurnLength + LeftInTurn(m, k) + 1
          /\ LeftInTurn(m, k) \in Nat
      BY <1>0, <1>1, <1>5, LeftThere
    <2>2. (MaxSteps - t) * TurnLength \in Nat
      BY <1>1, <1>5, TurnsLeft
    <2> QED
      BY <1>5, <2>1, <2>2
  <1>6. CASE l = "loop" /\ m = "model" /\ t < MaxSteps /\ u = t + 1
    <2>1. l \in Points \ Idle /\ m \in Points \ Idle /\ t \in 1 .. MaxSteps /\ u \in 1 .. MaxSteps
      BY <1>1, <1>6 DEF Idle
    <2>2. /\ LeftAt(l, t, h) = (MaxSteps - t) * TurnLength + LeftInTurn(l, h) + 1
          /\ LeftInTurn(l, h) \in Nat
          /\ LeftAt(m, u, k) = (MaxSteps - u) * TurnLength + LeftInTurn(m, k) + 1
          /\ LeftInTurn(m, k) = TurnLength - 1
      BY <1>0, <1>1, <1>6, <2>1, LeftThere
    <2>3. /\ (MaxSteps - t) * TurnLength \in Nat
          /\ (MaxSteps - u) * TurnLength = (MaxSteps - t) * TurnLength - TurnLength
      BY <1>6, <2>1, TurnsLeft
    <2> QED
      BY <1>0, <2>2, <2>3
  <1>7. ASSUME l \in CallPoints \cup {"model"}, m \in CallPoints
        PROVE  /\ l \in Points \ Idle /\ m \in Points \ Idle
               /\ t \in 1 .. MaxSteps /\ u \in 1 .. MaxSteps
               /\ LeftInTurn(m, k) = (MaxCalls - k) * 7 + InCall[m]
               /\ l \in CallPoints => LeftInTurn(l, h) = (MaxCalls - h) * 7 + InCall[l]
               /\ l = "model" => LeftInTurn(l, h) = TurnLength - 1
               /\ InCall[m] \in 0 .. 6
               /\ l \in CallPoints => InCall[l] \in 0 .. 6
    <2>1. l \in Points \ Idle /\ m \in Points \ Idle
      BY <1>1, <1>7, CallPointsAre DEF Idle, FileSteps, SaveSteps, PublishSteps
    <2>2. t \in 1 .. MaxSteps /\ u \in 1 .. MaxSteps
      BY <1>1, <2>1
    <2> QED
      BY <1>1, <1>7, <2>1, <2>2, LeftThere
  <1>8. {"loop", "number", "ask"} \subseteq CallPoints /\ InCall["loop"] = 0
    BY DEF CallPoints, InCall
  <1>9. CASE l = "model" /\ m = "loop" /\ k = 0 /\ u = t
    BY <1>0, <1>5, <1>7, <1>8, <1>9
  <1>10. CASE l = "loop" /\ m \in {"loop", "number", "ask"} /\ h < MaxCalls /\ k = h + 1 /\ u = t
    <2>1. LeftInTurn(m, k) < LeftInTurn(l, h)
      BY <1>1, <1>7, <1>8, <1>10
    <2> QED
      BY <1>5, <1>7, <1>8, <1>10, <2>1
  <1>11. CASE l \in CallPoints /\ m \in CallPoints /\ InCall[m] < InCall[l] /\ k = h /\ u = t
    <2>1. LeftInTurn(m, k) < LeftInTurn(l, h)
      BY <1>1, <1>7, <1>11
    <2> QED
      BY <1>5, <1>7, <1>11, <2>1
  <1> QED
    BY <1>2, <1>3, <1>4, <1>6, <1>9, <1>10, <1>11

(* A run takes a bounded number of steps, whatever the model answers, the    *)
(* tools return and other runs do: at most MaxSteps turns of MaxCalls calls  *)
(* of seven steps.                                                           *)
THEOREM RunsAreShort == AgentSpec => []RunsBounded /\ RunsShorten
  <1>1. AgentInit => TurnInv
    BY DEF AgentInit, TurnInv, Idle
  <1>2. TypeInv /\ TurnInv /\ [AgentNext]_agentVars => TurnInv'
    BY TurnStep
  <1>3. TypeInv /\ TurnInv => RunsBounded
    BY LeftInBounds DEF TypeInv, AlphaTypeOK, TurnInv, RunsBounded, StepsLeft
  <1>4. TypeInv /\ TurnInv /\ TypeInv' /\ TurnInv' /\ [AgentNext]_agentVars =>
            [\A p \in Process :
                StepsLeft(p)' < StepsLeft(p)
                \/ UNCHANGED <<at[p], turn[p], handled[p]>>]_agentVars
    <2> SUFFICES ASSUME TypeInv, TurnInv, TypeInv', TurnInv', AgentNext, NEW q \in Process
                 PROVE  StepsLeft(q)' < StepsLeft(q)
                        \/ UNCHANGED <<at[q], turn[q], handled[q]>>
      OBVIOUS
    <2>1. PICK p \in Process : Proceed(p) \/ Human(p)
      BY DEF AgentNext
    <2> QED
      BY <2>1, StepsLead, LeadingShortens
  <1> QED
    BY <1>1, <1>2, <1>3, <1>4, TypeInvariant, PTL DEF AgentSpec, RunsShorten

-----------------------------------------------------------------------------
(* Numbers.  The next number is there whenever a save asks for it.           *)

Numbered == {"check", "open", "write"}

(* What a step does to drafts and to the saves under way. *)
SaveEffects(p, l) ==
    /\ at' = [at EXCEPT ![p] = l]
    /\ \A q \in Process : q # p => call'[q] = call[q]
    /\ \/ UNCHANGED drafts
       \/ at[p] \in Numbered /\ \E t : PutDraft(call[p], t)
    /\ \/ UNCHANGED saves /\ l # "number"
       \/ at[p] = "loop" /\ l = "number" /\ saves < MaxSaves /\ saves' = saves + 1
    /\ \/ l \notin Numbered
       \/ at[p] \in Numbered /\ call'[p].version = call[p].version
       \/ at[p] = "number" /\ l = "check" /\ IsNext(call'[p].version)

LEMMA StepSaves ==
    ASSUME TypeInv, NEW p \in Process, Proceed(p) \/ Human(p)
    PROVE  \E l : SaveEffects(p, l)
  <1>0. /\ at \in [Process -> Points] /\ call \in [Process -> Call]
        /\ at = [at EXCEPT ![p] = at[p]]
    BY DEF TypeInv, AlphaTypeOK
  <1> USE DEF Numbered
  <1>1. CASE \/ RefuseRequest(p) \/ ModelFails(p) \/ ModelAnswers(p) \/ InputEnds(p)
             \/ OutOfTurns(p) \/ Interrupt(p)
    <2>1. SaveEffects(p, "over")
      BY <1>0, <1>1 DEF RefuseRequest, ModelFails, ModelAnswers, InputEnds, OutOfTurns,
         Interrupt, Exits, SaveEffects
    <2> QED
      BY <2>1
  <1>2. CASE Begin(p) \/ ModelCalls(p) \/ NextTurn(p) \/ Approve(p)
    <2>1. \E l \in {"model", "loop", "find"} : SaveEffects(p, l)
      BY <1>0, <1>2 DEF Begin, ModelCalls, NextTurn, Approve, Moves, SaveEffects
    <2> QED
      BY <2>1
  <1>3. CASE CallOther(p)
    <2>1. SaveEffects(p, "loop")
      BY <1>0, <1>3 DEF CallOther, TakesCall, SaveEffects
    <2> QED
      BY <2>1
  <1>4. CASE \E s \in Stage, t \in Text : CallSave(p, s, t)
    <2>1. SaveEffects(p, "number")
      BY <1>0, <1>4 DEF CallSave, TakesCall, Moves, SaveEffects
    <2> QED
      BY <2>1
  <1>5. CASE \E v \in 1 .. MaxSaves, vis \in Visibility \cup {None} : CallPublish(p, v, vis)
    <2>1. SaveEffects(p, "ask")
      BY <1>0, <1>5 DEF CallPublish, TakesCall, Moves, SaveEffects
    <2> QED
      BY <2>1
  <1>6. CASE Decline(p)
    <2>1. SaveEffects(p, "loop")
      BY <1>0, <1>6 DEF Decline, Returns, SaveEffects
    <2> QED
      BY <2>1
  <1>7. ASSUME UNCHANGED saves, SaveStep(p) PROVE \E l : SaveEffects(p, l)
    <2>1. CASE FindFree(p)
      <3>1. SaveEffects(p, "open")
        BY <1>0, <1>7, <2>1 DEF FindFree, Moves, SaveEffects
      <3> QED
        BY <3>1
    <2>2. CASE OpenDraft(p)
      <3>1. SaveEffects(p, "write")
        BY <1>0, <1>7, <2>2 DEF OpenDraft, Moves, SaveEffects
      <3> QED
        BY <3>1
    <2>3. CASE FindTaken(p) \/ WriteDraft(p)
      <3>1. SaveEffects(p, "loop")
        BY <1>0, <1>7, <2>3 DEF FindTaken, WriteDraft, Returns, SaveEffects
      <3> QED
        BY <3>1
    <2>4. ASSUME NEW v \in 1 .. MaxSaves, TakeNumber(p, v) PROVE SaveEffects(p, "check")
      <3>1. call'[p].version = v
        BY <1>0, <2>4 DEF TakeNumber, Call
      <3> QED
        BY <1>0, <1>7, <2>4, <3>1 DEF TakeNumber, Moves, SaveEffects
    <2> QED
      BY <1>7, <2>1, <2>2, <2>3, <2>4 DEF SaveStep
  <1>8. ASSUME UNCHANGED saves, PublishStep(p) \/ FileFails(p) PROVE \E l : SaveEffects(p, l)
    <2>1. CASE FindDraft(p) \/ ReadFinal(p) \/ SeeUnpublished(p) \/ CreatePost(p)
      <3>1. \E l \in {"read", "outbox", "create", "copy"} : SaveEffects(p, l)
        BY <1>0, <1>8, <2>1 DEF FindDraft, ReadFinal, SeeUnpublished, CreatePost, Moves,
           SaveEffects
      <3> QED
        BY <3>1
    <2>2. CASE \/ RefusePublish(p) \/ RefuseStage(p) \/ SeePublished(p) \/ FindPost(p)
               \/ CopyText(p) \/ FileFails(p)
      <3>1. SaveEffects(p, "loop")
        BY <1>0, <1>8, <2>2 DEF RefusePublish, RefuseStage, SeePublished, FindPost, CopyText,
           FileFails, Returns, SaveEffects
      <3> QED
        BY <3>1
    <2> QED
      BY <1>8, <2>1, <2>2 DEF PublishStep
  <1> QED
    BY StepCases, <1>1, <1>2, <1>3, <1>4, <1>5, <1>6, <1>7, <1>8 DEF LoopStep

(* How many runs are about to take a number after a step. *)
LEMMA NumberingCounts ==
    ASSUME TypeInv, IsFiniteSet(Numbering), NEW p \in Process, NEW l,
           at' = [at EXCEPT ![p] = l]
    PROVE  /\ IsFiniteSet(Numbering)' /\ Cardinality(Numbering) \in Nat
           /\ Cardinality(Numbering)' \in Nat
           /\ at[p] # "number" /\ l = "number" =>
                    Cardinality(Numbering)' = Cardinality(Numbering) + 1
           /\ at[p] # "number" /\ l # "number" =>
                    Cardinality(Numbering)' = Cardinality(Numbering)
           /\ at[p] = "number" /\ l # "number" =>
                    Cardinality(Numbering)' = Cardinality(Numbering) - 1
           /\ at[p] = "number" => Cardinality(Numbering) > 0
  <1>0. at \in [Process -> Points]
    BY DEF TypeInv, AlphaTypeOK
  <1>1. at[p] = "number" <=> p \in Numbering
    BY DEF Numbering
  <1>2. Cardinality(Numbering) \in Nat
    BY FS_CardinalityType
  <1>3. CASE l = "number"
    <2>1. Numbering' = Numbering \cup {p}
      BY <1>0, <1>3 DEF Numbering
    <2> QED
      BY <1>1, <1>2, <1>3, <2>1, FS_AddElement, FS_RemoveElement, FS_CardinalityType, FS_EmptySet
  <1>4. CASE l # "number"
    <2>1. Numbering' = Numbering \ {p}
      BY <1>0, <1>4 DEF Numbering
    <2> QED
      BY <1>1, <1>2, <1>4, <2>1, FS_RemoveElement, FS_CardinalityType
  <1> QED
    BY <1>3, <1>4

(* Writing a draft adds its version to those that exist, and there is a next *)
(* one again.                                                                *)
LEMMA NextAfter ==
    ASSUME drafts \subseteq Draft, NEW c, c.version \in Nat \ {0}, NEW t, PutDraft(c, t),
           NEW v \in Nat \ {0}, IsNext(v)
    PROVE  /\ \A d \in drafts' : d.version = c.version \/ \E e \in drafts : e.version = d.version
           /\ IsNext(v)' \/ (c.version >= v /\ IsNext(c.version + 1)')
  <1> DEFINE new == [version |-> c.version, stage |-> c.stage, text |-> t]
  <1>1. drafts' = {d \in drafts : ~ IsFileOf(d, c)} \cup {new} /\ new.version = c.version
    BY DEF PutDraft
  <1> HIDE DEF new
  <1>2. \A d \in drafts : d.version \in Nat \ {0}
    BY DEF Draft
  <1>3. \A d \in drafts : \E e \in drafts' : e.version = d.version
    BY <1>1 DEF IsFileOf
  <1>4. \A d \in drafts' : d.version = c.version \/ \E e \in drafts : e.version = d.version
    BY <1>1
  <1>5. \A d \in drafts : d.version < v
    BY DEF IsNext
  <1>6. CASE c.version < v
    <2>1. \A d \in drafts' : d.version < v
      BY <1>4, <1>5, <1>6
    <2>2. v = 1 \/ \E d \in drafts' : d.version = v - 1
      BY <1>3 DEF IsNext
    <2>3. IsNext(v)'
      BY <2>1, <2>2 DEF IsNext
    <2> QED
      BY <1>4, <2>3
  <1>7. CASE c.version >= v
    <2>1. \A d \in drafts' : d.version < c.version + 1
      BY <1>2, <1>4, <1>5, <1>7
    <2>2. \E d \in drafts' : d.version = (c.version + 1) - 1
      BY <1>1
    <2>3. IsNext(c.version + 1)'
      BY <2>1, <2>2 DEF IsNext
    <2> QED
      BY <1>4, <1>7, <2>3
  <1> QED
    BY <1>6, <1>7

LEMMA NumberStep ==
    ASSUME TypeInv, TypeInv', NumberInv, NEW p \in Process, Proceed(p) \/ Human(p)
    PROVE  NumberInv'
  <1> DEFINE n == Cardinality(Numbering)
  <1>0. /\ at \in [Process -> Points] /\ drafts \subseteq Draft /\ saves \in Nat
        /\ ArgsOK(p)
    BY DEF TypeInv, AlphaTypeOK
  <1>1. PICK l : SaveEffects(p, l)
    BY StepSaves
  <1>2. at' = [at EXCEPT ![p] = l] /\ at'[p] = l
    BY <1>0, <1>1 DEF SaveEffects
  <1>3. /\ IsFiniteSet(Numbering)' /\ n \in Nat /\ n' \in Nat
        /\ at[p] # "number" /\ l = "number" => n' = n + 1
        /\ at[p] # "number" /\ l # "number" => n' = n
        /\ at[p] = "number" /\ l # "number" => n' = n - 1
        /\ at[p] = "number" => n > 0
    BY <1>2, NumberingCounts DEF NumberInv
  <1>4. n <= saves /\ saves <= MaxSaves
    BY DEF NumberInv
  <1> HIDE DEF n
  <1>5. saves' \in Nat /\ saves' <= MaxSaves /\ n' <= saves' /\ saves - n <= saves' - n'
    BY <1>0, <1>1, <1>3, <1>4 DEF SaveEffects
  <1>6. at[p] \in Numbered => call[p].version \in Nat \ {0} /\ call[p].version + n <= saves
    BY <1>0 DEF ArgsOK, NumberInv, Numbered, SaveSteps, n
  <1>7. \A d \in drafts' : d.version \in Nat /\ d.version + n' <= saves'
    <2>1. \A d \in drafts : d.version \in Nat /\ d.version + n <= saves
      BY <1>0 DEF NumberInv, Draft, n
    <2>2. \A d \in drafts' : \/ d.version = call[p].version /\ at[p] \in Numbered
                            \/ \E e \in drafts : e.version = d.version
      <3>1. CASE UNCHANGED drafts
        BY <3>1
      <3>2. CASE at[p] \in Numbered /\ \E t : PutDraft(call[p], t)
        BY <3>2 DEF PutDraft
      <3> QED
        BY <1>1, <3>1, <3>2 DEF SaveEffects
    <2> QED
      BY <1>0, <1>3, <1>5, <1>6, <2>1, <2>2
  <1>8. \E v \in 1 .. MaxSaves + 1 : IsNext(v)'
    <2>1. PICK v \in 1 .. MaxSaves + 1 : IsNext(v)
      BY DEF NumberInv
    <2>2. CASE UNCHANGED drafts
      BY <2>1, <2>2 DEF IsNext
    <2>3. CASE at[p] \in Numbered /\ \E t : PutDraft(call[p], t)
      <3>0. PICK c : c = call[p]
        OBVIOUS
      <3>1. IsNext(v)' \/ IsNext(c.version + 1)'
        BY <1>0, <1>6, <2>1, <2>3, <3>0, NextAfter
      <3>2. c.version + 1 \in 1 .. MaxSaves + 1
        BY <1>0, <1>3, <1>4, <1>6, <2>3, <3>0
      <3> QED
        BY <2>1, <3>1, <3>2
    <2> QED
      BY <1>1, <2>2, <2>3 DEF SaveEffects
  <1>9. ASSUME NEW q \in Process, at'[q] \in Numbered
        PROVE  call'[q].version + n' <= saves'
    <2>1. CASE q # p
      <3>1. at[q] \in Numbered /\ call'[q] = call[q] /\ ArgsOK(q)
        BY <1>0, <1>1, <1>2, <1>9, <2>1 DEF SaveEffects, TypeInv
      <3>2. call[q].version \in Nat /\ call[q].version + n <= saves
        BY <3>1 DEF ArgsOK, NumberInv, Numbered, SaveSteps, n
      <3>3. call'[q].version \in Nat /\ call'[q].version + n <= saves
        BY <3>1, <3>2
      <3> QED
        BY <1>0, <1>3, <1>5, <3>3
    <2>2. CASE q = p /\ at[p] \in Numbered /\ call'[p].version = call[p].version
      <3>1. call[p].version \in Nat /\ call[p].version + n <= saves
        BY <1>6, <2>2
      <3>2. call'[q].version \in Nat /\ call'[q].version + n <= saves
        BY <2>2, <3>1
      <3> QED
        BY <1>0, <1>3, <1>5, <3>2
    <2>3. CASE q = p /\ at[p] = "number" /\ l = "check" /\ IsNext(call'[p].version)
      <3> DEFINE v == call'[p].version
      <3>1. saves' = saves /\ n' = n - 1
        BY <1>1, <1>3, <2>3 DEF SaveEffects
      <3>2. v = 1 \/ \E d \in drafts : d.version = v - 1
        BY <2>3 DEF IsNext
      <3>3. CASE v = 1
        BY <1>0, <1>3, <1>4, <2>3, <3>1, <3>3
      <3>4. ASSUME NEW d \in drafts, d.version = v - 1 PROVE v + n' <= saves'
        <4>1. d.version \in Nat /\ d.version + n <= saves
          BY <1>0 DEF NumberInv, Draft, n
        <4>2. ArgsOK(p)' /\ at'[p] \in SaveSteps \ {"number"}
          BY <1>2, <2>3 DEF TypeInv, SaveSteps
        <4>3. v \in Nat
          BY <4>2 DEF ArgsOK
        <4> HIDE DEF v
        <4> QED
          BY <1>0, <1>3, <3>1, <3>4, <4>1, <4>3
      <3> QED
        BY <2>3, <3>2, <3>3, <3>4
    <2> QED
      BY <1>1, <1>2, <1>9, <2>1, <2>2, <2>3 DEF SaveEffects
  <1> QED
    BY <1>3, <1>5, <1>7, <1>8, <1>9 DEF NumberInv, Numbered, n

LEMMA NumberInit == AgentInit => NumberInv
  <1> SUFFICES ASSUME AgentInit PROVE NumberInv
    OBVIOUS
  <1>1. Numbering = {}
    BY DEF AgentInit, Numbering
  <1>2. IsFiniteSet(Numbering) /\ Cardinality(Numbering) = 0
    BY <1>1, FS_EmptySet
  <1>3. 1 \in 1 .. MaxSaves + 1 /\ IsNext(1)
    BY DEF AgentInit, IsNext
  <1> QED
    BY <1>2, <1>3 DEF AgentInit, NumberInv

(* A save that asks for the next number finds one within the saves that      *)
(* were begun, and a publication that found a draft can still read it,       *)
(* whatever runs overlap, fail or are interrupted: once the human has        *)
(* answered, nothing but the model client can hold a run up.                 *)
THEOREM CallsCanProceed == AgentSpec => [](\A p \in Process : CanGoOn(p))
  <1>1. TypeInv /\ TypeInv' /\ NumberInv /\ [AgentNext]_agentVars => NumberInv'
    <2> SUFFICES ASSUME TypeInv, TypeInv', NumberInv, [AgentNext]_agentVars PROVE NumberInv'
      OBVIOUS
    <2>1. CASE UNCHANGED agentVars
      BY <2>1 DEF agentVars, fileVars, NumberInv, Numbering, IsNext
    <2>2. CASE AgentNext
      BY <2>2, NumberStep DEF AgentNext
    <2> QED
      BY <2>1, <2>2
  <1>2. TypeInv /\ OutboxInv /\ NumberInv => \A p \in Process : CanGoOn(p)
    <2> SUFFICES ASSUME TypeInv, OutboxInv, NumberInv, NEW p \in Process PROVE CanGoOn(p)
      OBVIOUS
    <2>1. ASSUME at[p] = "number" PROVE \E v \in 1 .. MaxSaves : IsNext(v)
      <3>1. PICK v \in 1 .. MaxSaves + 1 : IsNext(v)
        BY DEF NumberInv
      <3>2. Cardinality(Numbering) \in Nat /\ Cardinality(Numbering) > 0
        <4>1. p \in Numbering
          BY <2>1 DEF Numbering
        <4> QED
          BY <4>1, FS_CardinalityType, FS_EmptySet DEF NumberInv
      <3>3. saves \in Nat /\ saves <= MaxSaves /\ Cardinality(Numbering) <= saves
        BY DEF TypeInv, AlphaTypeOK, NumberInv
      <3>4. CASE v = 1
        BY <3>1, <3>2, <3>3, <3>4
      <3>5. ASSUME NEW d \in drafts, d.version = v - 1 PROVE v \in 1 .. MaxSaves
        <4>1. d.version + Cardinality(Numbering) <= saves
          BY DEF NumberInv
        <4> QED
          BY <3>1, <3>2, <3>3, <3>5, <4>1
      <3> QED
        BY <3>1, <3>4, <3>5 DEF IsNext
    <2> QED
      BY <2>1 DEF CanGoOn, OutboxInv, PublisherOK
  <1> QED
    BY <1>1, <1>2, NumberInit, TypeInvariant, OutboxInvariant, PTL DEF AgentSpec
=============================================================================
