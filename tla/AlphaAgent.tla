------------------------------- MODULE AlphaAgent -------------------------------
(***************************************************************************)
(* Invocations of the alpha's command line on one workspace and outbox:    *)
(* AgentRunner.run (agent.py) with the tools of registry.py and tools.py   *)
(* and the terminal's approval gate, under run_command (cli.py).           *)
(*                                                                         *)
(* The model may answer, fail or call any tools; its tool calls are chosen *)
(* one at a time as the loop comes to them.  The reads, calls of unknown   *)
(* tools and calls with refused arguments change nothing and are one       *)
(* action.  The trace and the exit code are left out: they tell the user   *)
(* which action ended the run, and nothing here reads them.                *)
(***************************************************************************)
EXTENDS ProjectFiles

CONSTANTS
    MaxSteps,    \* max_steps: model turns of a run
    MaxCalls,    \* bound: tool calls in a response
    MaxSaves,    \* bound: saves of all runs
    OneAtATime   \* whether a run begins only when no other is under way

ASSUME AgentConstants ==
    /\ MaxSteps \in Nat \ {0} /\ MaxCalls \in Nat \ {0} /\ MaxSaves \in Nat
    /\ OneAtATime \in BOOLEAN

VARIABLES
    turn,      \* step of each run: the model turn it is in
    handled,   \* calls of the response that the loop has taken up
    approved,  \* ghost: what the human has said YES to, and what it held then
    saves

loopVars == <<turn, handled>>
agentVars == <<fileVars, loopVars, approved, saves>>

Idle == {"off", "over"}
Points == Idle \cup {"model", "loop", "ask"} \cup FileSteps

(* The process ends, and its locals with it. *)
Exits(p) ==
    /\ at' = [at EXCEPT ![p] = "over"]
    /\ call' = [call EXCEPT ![p] = NoCall]
    /\ turn' = [turn EXCEPT ![p] = 0]
    /\ handled' = [handled EXCEPT ![p] = 0]
    /\ UNCHANGED <<drafts, posts, saved, faults, approved, saves>>

-----------------------------------------------------------------------------
(* run_command: a blank request or a bad configuration, or the run begins. *)
RefuseRequest(p) == at[p] = "off" /\ Exits(p)

Begin(p) ==
    /\ Moves(p, "off", "model")
    /\ OneAtATime => \A q \in Process : at[q] \in Idle
    /\ turn' = [turn EXCEPT ![p] = 1]
    /\ UNCHANGED <<drafts, posts, call, saved, faults, handled, approved, saves>>

ModelFails(p) == at[p] = "model" /\ Exits(p)

ModelAnswers(p) == at[p] = "model" /\ Exits(p)

ModelCalls(p) ==
    /\ Moves(p, "model", "loop")
    /\ handled' = [handled EXCEPT ![p] = 0]
    /\ UNCHANGED <<drafts, posts, call, saved, faults, turn, approved, saves>>

(* The loop takes up a tool call of the response. *)
TakesCall(p) ==
    /\ handled[p] < MaxCalls
    /\ handled' = [handled EXCEPT ![p] = @ + 1]
    /\ UNCHANGED <<drafts, posts, saved, faults, turn, approved>>

CallOther(p) ==
    /\ at[p] = "loop"
    /\ TakesCall(p)
    /\ UNCHANGED <<at, call, saves>>

CallSave(p, s, t) ==
    /\ Moves(p, "loop", "number")
    /\ TakesCall(p)
    /\ saves < MaxSaves
    /\ saves' = saves + 1
    /\ call' = [call EXCEPT ![p] = SaveCall(s, t)]

(* Faulty variant: the tool is registered without requires_approval. *)
CallPublishUngated(p, v, vis) ==
    /\ Moves(p, "loop", "find")
    /\ TakesCall(p)
    /\ call' = [call EXCEPT ![p] = PublishCall(v, vis)]
    /\ UNCHANGED saves

CallPublish(p, v, vis) ==
    /\ Moves(p, "loop", "ask")
    /\ TakesCall(p)
    /\ call' = [call EXCEPT ![p] = PublishCall(v, vis)]
    /\ UNCHANGED saves

(* The human is asked before the arguments are checked. *)
Approve(p) ==
    /\ Moves(p, "ask", "find")
    /\ approved' = approved \cup
        {PostWith(call[p], d.text) : d \in DraftsOf(call[p].version)}
    /\ UNCHANGED <<drafts, posts, call, saved, faults, loopVars, saves>>

Decline(p) ==
    /\ at[p] = "ask"
    /\ Returns(p)
    /\ UNCHANGED <<drafts, posts, saved, faults, loopVars, approved, saves>>

InputEnds(p) == at[p] = "ask" /\ Exits(p)

UseFiles(p) ==
    /\ FileStep(p) \/ FileFails(p) \/ \E v \in 1 .. MaxSaves : TakeNumber(p, v)
    /\ UNCHANGED <<loopVars, approved, saves>>

(* Faulty variant: turns are not counted. *)
NextTurnUncounted(p) ==
    /\ Moves(p, "loop", "model")
    /\ handled[p] > 0
    /\ turn[p] < MaxSteps
    /\ UNCHANGED <<drafts, posts, call, saved, faults, loopVars, approved, saves>>

(* The results go back to the model, or no turn is left. *)
NextTurn(p) ==
    /\ Moves(p, "loop", "model")
    /\ handled[p] > 0
    /\ turn[p] < MaxSteps
    /\ turn' = [turn EXCEPT ![p] = @ + 1]
    /\ UNCHANGED <<drafts, posts, call, saved, faults, handled, approved, saves>>

OutOfTurns(p) ==
    /\ at[p] = "loop"
    /\ handled[p] > 0
    /\ turn[p] = MaxSteps
    /\ Exits(p)

(* Control-C, or the process is killed: files stay as they are. *)
Interrupt(p) == at[p] \notin Idle /\ Exits(p)

AgentInit ==
    /\ drafts = {}
    /\ posts = {}
    /\ at = [p \in Process |-> "off"]
    /\ call = [p \in Process |-> NoCall]
    /\ saved = {}
    /\ faults = 0
    /\ turn = [p \in Process |-> 0]
    /\ handled = [p \in Process |-> 0]
    /\ approved = {}
    /\ saves = 0

(* What the program and the model do, and what the human does. *)
Proceed(p) ==
    \/ ModelFails(p) \/ ModelAnswers(p) \/ ModelCalls(p)
    \/ CallOther(p)
    \/ \E s \in Stage, t \in Text : CallSave(p, s, t)
    \/ \E v \in 1 .. MaxSaves, vis \in Visibility \cup {None} : CallPublish(p, v, vis)
    \/ UseFiles(p) \/ NextTurn(p) \/ OutOfTurns(p)

Human(p) ==
    \/ RefuseRequest(p) \/ Begin(p)
    \/ Approve(p) \/ Decline(p) \/ InputEnds(p) \/ Interrupt(p)

AgentNext == \E p \in Process : Proceed(p) \/ Human(p)

AgentSpec == AgentInit /\ [][AgentNext]_agentVars

(* The model client answers or raises; no call of the file system hangs. *)
FairAgentSpec == AgentSpec /\ \A p \in Process : WF_agentVars(Proceed(p))

-----------------------------------------------------------------------------
Call == [version : Nat, stage : Stage \cup {None},
         visibility : Visibility \cup {None}, text : Content \cup {None}]

AlphaTypeOK ==
    /\ drafts \subseteq Draft /\ saved \subseteq Draft
    /\ posts \subseteq Post
    /\ at \in [Process -> Points]
    /\ call \in [Process -> Call]
    /\ turn \in [Process -> 0 .. MaxSteps]
    /\ handled \in [Process -> 0 .. MaxCalls]
    /\ faults \in Nat /\ saves \in Nat

(* Every post that is written out is one the human said YES to, for that   *)
(* version and visibility, and holds what the version held at that moment: *)
(* an approval is neither reused nor outlived by what it approved.         *)
PublishedAsApproved == \A m \in posts : m.text # Cut => m \in approved

(* A run comes to an end unless it waits for the human for ever. *)
RunsEnd == \A p \in Process : <>[](at[p] \in {"off", "ask", "over"})
=============================================================================
