-------------------------------- MODULE RoleAgent --------------------------------
(***************************************************************************)
(* The role turns of one editorial run: RoleAgent.run (role_agents.py) for *)
(* the Executor and the Critic in their rounds, with the retrieval tools   *)
(* (role_tools.py), the strict parser (role_results.py) and the events     *)
(* that the workflow's callbacks record (editorial_workflow.py).           *)
(*                                                                         *)
(* What EditorialWorkflow takes as one event and one reply is here a       *)
(* sequence of model turns, tool calls and answers.  The model may answer  *)
(* and call anything; its calls are chosen as the loop comes to them.      *)
(***************************************************************************)
EXTENDS Naturals, Sequences, FiniteSets

CONSTANTS
    Unknown,   \* a tool the registry does not have
    None,      \* no tool, no result, no reply
    MaxSteps,  \* max_role_steps: model turns of a role
    MaxCalls,  \* bound: tool calls in a response
    MaxRounds  \* bound: Executor and Critic rounds

Facts == "retrieve_private_facts"
Comments == "retrieve_shared_comments"
Registered == {Facts, Comments}
Tool == Registered \cup {Unknown}

ASSUME RoleConstants ==
    /\ Unknown \notin {Facts, Comments}
    /\ None \notin {Facts, Comments, Unknown}
    /\ MaxSteps \in Nat \ {0} /\ MaxCalls \in Nat \ {0} /\ MaxRounds \in Nat \ {0}

VARIABLES
    point,      \* where the run is
    role,       \* the role whose turn it is
    round,
    step,       \* step: the role's model turn
    left,       \* tool calls of the response still to be taken up
    used,       \* used_tools
    call,       \* the tool call under way and whether its result is ok
    retrieved,  \* _executor_retrieved_shared_comments
    log,        \* the run's events
    start,      \* ghost: events of the run before the role began
    reply,      \* the outcome RoleAgent.run returned
    failure     \* the code the run failed with

turnVars == <<step, left, used, call>>
roleVars == <<point, role, round, turnVars, retrieved, log, start, reply, failure>>

NoCall == [tool |-> None, ok |-> FALSE]

At(from, to) == point = from /\ point' = to

Emit(kind) ==
    log' = Append(log, [role |-> role, kind |-> kind, tool |-> call.tool, ok |-> call.ok])

Ends(code) ==
    /\ point' = "over"
    /\ failure' = code
    /\ UNCHANGED <<role, round, turnVars, retrieved, log, start, reply>>

-----------------------------------------------------------------------------
(* The workflow hands a role its prompt, or ends the run for good.          *)
Begins(r) ==
    /\ At("workflow", "model")
    /\ role' = r
    /\ step' = 1 /\ left' = 0 /\ used' = {} /\ call' = NoCall
    /\ start' = Len(log)
    /\ reply' = None
    /\ UNCHANGED <<log, failure>>

(* Faulty variant: the flag is cleared in every round. *)
StartExecutorAfresh ==
    /\ Begins("executor")
    /\ round < MaxRounds
    /\ round' = round + 1
    /\ round > 0 => role = "critic" /\ reply.status = "revise"
    /\ retrieved' = FALSE

StartExecutor ==
    /\ Begins("executor")
    /\ round < MaxRounds
    /\ round' = round + 1
    /\ round > 0 => role = "critic" /\ reply.status = "revise"
    /\ UNCHANGED retrieved

StartCritic ==
    /\ role = "executor" /\ reply # None /\ reply.status = "complete"
    /\ Begins("critic")
    /\ UNCHANGED <<round, retrieved>>

EndRun == point = "workflow" /\ Ends("none")

(* The flag is only set while the Executor runs. *)
RequiredTools ==
    IF role = "executor" THEN {Facts}
    ELSE IF retrieved THEN {Comments} ELSE {}

-----------------------------------------------------------------------------
(* Model turns *)

(* The client raises ModelClientError, or something else. *)
ModelFails ==
    point = "model" /\ (Ends("model_request") \/ Ends("workflow_failure"))

Respond ==
    /\ At("model", "turn")
    /\ left' \in 0 .. MaxCalls
    /\ call' = NoCall
    /\ UNCHANGED <<role, round, step, used, retrieved, log, start, reply, failure>>

EmitModelTurn ==
    /\ At("turn", IF left = 0 THEN "answer" ELSE "loop")
    /\ Emit("model_turn_completed")
    /\ UNCHANGED <<role, round, turnVars, retrieved, start, reply, failure>>

NextTurn ==
    /\ At("loop", "model")
    /\ left = 0 /\ step < MaxSteps
    /\ step' = step + 1
    /\ UNCHANGED <<role, round, left, used, call, retrieved, log, start, reply, failure>>

OutOfTurns ==
    /\ point = "loop" /\ left = 0 /\ step = MaxSteps
    /\ Ends("tool_selection")

-----------------------------------------------------------------------------
(* Tool calls *)

TakeCall(t) ==
    /\ left > 0
    /\ At("loop", IF t = Facts THEN "request_memory" ELSE "request_tool")
    /\ left' = left - 1
    /\ used' = used \cup {t}
    /\ call' = [tool |-> t, ok |-> FALSE]
    /\ UNCHANGED <<role, round, step, retrieved, log, start, reply, failure>>

EmitMemoryRequested ==
    /\ At("request_memory", "request_tool")
    /\ Emit("memory_retrieval_requested")
    /\ UNCHANGED <<role, round, turnVars, retrieved, start, reply, failure>>

EmitToolRequested ==
    /\ At("request_tool", "execute")
    /\ Emit("tool_requested")
    /\ UNCHANGED <<role, round, turnVars, retrieved, start, reply, failure>>

(* A handler returns the facts or comments, ... *)
ToolSucceeds ==
    /\ At("execute", "completed")
    /\ call.tool \in Registered
    /\ call' = [call EXCEPT !.ok = TRUE]
    /\ UNCHANGED <<role, round, step, left, used, retrieved, log, start, reply, failure>>

(* ... an error: unknown tool, refused arguments or a service that refuses, *)
ToolRefuses ==
    /\ At("execute", "completed")
    /\ UNCHANGED <<role, round, turnVars, retrieved, log, start, reply, failure>>

(* ... or raises what _retrieve_... does not catch. *)
ToolRaises ==
    /\ point = "execute" /\ call.tool \in Registered
    /\ Ends("retrieval")

(* Faulty variant: only the generic event is recorded for facts. *)
EmitToolCompletedOnly ==
    /\ At("completed", IF call.tool = Comments THEN "completed_comments" ELSE "check")
    /\ Emit("tool_completed")
    /\ retrieved' = (retrieved \/ (role = "executor" /\ call.tool = Comments))
    /\ UNCHANGED <<role, round, turnVars, start, reply, failure>>

EmitToolCompleted ==
    /\ At("completed", CASE call.tool = Facts -> "completed_memory"
                         [] call.tool = Comments -> "completed_comments"
                         [] OTHER -> "check")
    /\ Emit("tool_completed")
    /\ retrieved' = (retrieved \/ (role = "executor" /\ call.tool = Comments))
    /\ UNCHANGED <<role, round, turnVars, start, reply, failure>>

EmitMemoryCompleted ==
    /\ At("completed_memory", "check")
    /\ Emit("memory_retrieval_completed")
    /\ UNCHANGED <<role, round, turnVars, retrieved, start, reply, failure>>

EmitCommentsRetrieved ==
    /\ At("completed_comments", "check")
    /\ Emit("shared_comments_retrieved")
    /\ UNCHANGED <<role, round, turnVars, retrieved, start, reply, failure>>

(* Faulty variant: the model is shown an error as it is shown a result. *)
KeepAnyResult ==
    /\ At("check", "loop")
    /\ UNCHANGED <<role, round, turnVars, retrieved, log, start, reply, failure>>

KeepResult ==
    /\ At("check", "loop")
    /\ call.ok
    /\ UNCHANGED <<role, round, turnVars, retrieved, log, start, reply, failure>>

RefuseResult == point = "check" /\ ~ call.ok /\ Ends("retrieval")

-----------------------------------------------------------------------------
(* The answer.  A result is one the Executor's parser takes ("draft"), one  *)
(* the Critic's takes, by its verdict, or one that neither takes; for       *)
(* "unlike" the Critic's raises AttributeError: an issue is not an object.  *)
Detail == {None, "given", "wrong"}
Result == {"draft", "accept", "revise", "wrong", "unlike", None}
Status == {"complete", "revise", "blocked", "error"}
Envelope == [status : Status, result : Result, needs_approval : BOOLEAN,
             approval : BOOLEAN, blocked : Detail, error : Detail]

HasResult(e) == e.status \in {"complete", "revise"}

CriticTakes(e) ==
    \/ e.status = "complete" /\ e.result = "accept"
    \/ e.status = "revise" /\ e.result = "revise"

Takes(r, e) ==
    \/ r = "executor" /\ e.status = "complete" /\ e.result = "draft"
    \/ r = "critic" /\ CriticTakes(e)
    \/ e.status = "blocked" /\ e.blocked = "given"
    \/ e.status = "error" /\ e.error = "given"

Parses(r, e) == Takes(r, e) /\ e.needs_approval = e.approval

Escapes(r, e) == r = "critic" /\ HasResult(e) /\ e.result = "unlike"

(* Details that do not belong to the status are ignored, and an error's     *)
(* approval is dropped.                                                     *)
Outcome(e) ==
    [status |-> e.status,
     result |-> IF HasResult(e) THEN e.result ELSE None,
     approval |-> e.approval /\ e.status # "error"]

(* Faulty variant: an answer is parsed whatever was retrieved. *)
AnswerUngrounded(e) ==
    /\ At("answer", "workflow")
    /\ Parses(role, e)
    /\ reply' = Outcome(e)
    /\ UNCHANGED <<role, round, turnVars, retrieved, log, start, failure>>

Answer(e) ==
    /\ At("answer", "workflow")
    /\ RequiredTools \subseteq used
    /\ Parses(role, e)
    /\ reply' = Outcome(e)
    /\ UNCHANGED <<role, round, turnVars, retrieved, log, start, failure>>

AnswerTooEarly ==
    /\ point = "answer" /\ ~ RequiredTools \subseteq used
    /\ Ends("required_tool_missing")

(* Text that is no envelope at all is refused like one that does not parse. *)
AnswerUnparsed(e) ==
    /\ point = "answer" /\ RequiredTools \subseteq used
    /\ ~ Parses(role, e)
    /\ Ends(IF Escapes(role, e) THEN "workflow_failure" ELSE "structured_output")

(* An event cannot be recorded. *)
EmitFails ==
    /\ point \in {"turn", "request_memory", "request_tool", "completed",
                  "completed_memory", "completed_comments"}
    /\ Ends("workflow_service_failure")

RoleInit ==
    /\ point = "workflow" /\ role = "executor" /\ round = 0
    /\ step = 0 /\ left = 0 /\ used = {} /\ call = NoCall
    /\ retrieved = FALSE
    /\ log = <<>> /\ start = 0
    /\ reply = None /\ failure = "none"

RoleNext ==
    \/ StartExecutor \/ StartCritic \/ EndRun
    \/ ModelFails \/ Respond \/ EmitModelTurn \/ NextTurn \/ OutOfTurns
    \/ \E t \in Tool : TakeCall(t)
    \/ EmitMemoryRequested \/ EmitToolRequested
    \/ ToolSucceeds \/ ToolRefuses \/ ToolRaises
    \/ EmitToolCompleted \/ EmitMemoryCompleted \/ EmitCommentsRetrieved
    \/ KeepResult \/ RefuseResult
    \/ \E e \in Envelope : Answer(e) \/ AnswerUnparsed(e)
    \/ AnswerTooEarly \/ EmitFails

RoleSpec == RoleInit /\ [][RoleNext]_roleVars

-----------------------------------------------------------------------------
Role == {"executor", "critic"}

Kind == {"model_turn_completed", "memory_retrieval_requested", "tool_requested",
         "tool_completed", "memory_retrieval_completed", "shared_comments_retrieved"}

Point == {"workflow", "model", "turn", "loop", "request_memory", "request_tool",
          "execute", "completed", "completed_memory", "completed_comments",
          "check", "answer", "over"}

Failure == {"none", "model_request", "required_tool_missing", "structured_output",
            "retrieval", "tool_selection", "workflow_failure", "workflow_service_failure"}

RoleTypeOK ==
    /\ point \in Point /\ role \in Role /\ round \in 0 .. MaxRounds
    /\ step \in 0 .. MaxSteps /\ left \in 0 .. MaxCalls
    /\ used \subseteq Tool
    /\ call \in [tool : Tool \cup {None}, ok : BOOLEAN]
    /\ retrieved \in BOOLEAN
    /\ log \in Seq([role : Role, kind : Kind, tool : Tool \cup {None}, ok : BOOLEAN])
    /\ start \in 0 .. Len(log)
    /\ reply \in {None} \cup [status : Status, result : Result, approval : BOOLEAN]
    /\ failure \in Failure

(* The events of the run, and those of the role since it began. *)
Events == 1 .. Len(log)
Current == start + 1 .. Len(log)

Obtained(t) ==
    \E i \in Current : log[i].kind = "tool_completed" /\ log[i].tool = t /\ log[i].ok

(* An Executor's outcome, in every round, rests on a retrieval of private  *)
(* facts that succeeded in that very turn of the Executor.                 *)
ExecutorGrounded == role = "executor" /\ reply # None => Obtained(Facts)

(* Once the Executor has retrieved shared comments, in this round or an    *)
(* earlier one, no Critic's outcome is taken that did not retrieve them    *)
(* for itself.                                                             *)
CriticRetrievesToo ==
    /\ role = "critic" /\ reply # None
    /\ \E i \in Events : log[i].role = "executor" /\ log[i].kind = "shared_comments_retrieved"
    => Obtained(Comments)

Answers(j, i) ==
    \/ log[i].kind = "tool_requested" /\ log[j].kind = "tool_completed"
        /\ log[j].tool = log[i].tool
    \/ log[i].kind = "memory_retrieval_requested"
        /\ log[j].kind = "memory_retrieval_completed"

(* Every request in the log is answered there before the model's next turn *)
(* and before an outcome is taken, by an event of the same call.           *)
RequestsAnswered ==
    \A i \in Events : log[i].kind \in {"tool_requested", "memory_retrieval_requested"} =>
        \/ \E j \in i + 1 .. Len(log) :
            /\ Answers(j, i)
            /\ \A k \in i + 1 .. j - 1 :
                log[k].kind \notin {log[i].kind, "model_turn_completed"}
        \/ /\ \A k \in i + 1 .. Len(log) : log[k].kind \notin {log[i].kind, "model_turn_completed"}
           /\ point # "workflow"

(* After a tool's error the role neither calls another tool nor is asked   *)
(* again nor answers: no draft or review rests on a failed retrieval.      *)
ErrorEndsRole ==
    \A i \in Events : log[i].kind = "tool_completed" /\ ~ log[i].ok =>
        /\ \A k \in i + 1 .. Len(log) :
            log[k].kind \in {"memory_retrieval_completed", "shared_comments_retrieved"}
        /\ point # "workflow"
=============================================================================
