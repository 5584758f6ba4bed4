----------------------------- MODULE RoleAgentProofs -----------------------------
(***************************************************************************)
(* Theorems about RoleAgent: every variable keeps its type, no outcome is  *)
(* taken that does not rest on the retrievals its role owes, a tool's      *)
(* error ends the role, every request is answered in its turn, and every   *)
(* step lowers what a run has to go, so that its log keeps within a budget. *)
(***************************************************************************)
EXTENDS RoleAgent, SequenceTheorems, TLAPS

(* What one more event does to the log. *)
LEMMA OneMoreEvent ==
    ASSUME RoleTypeOK, NEW k \in Kind, Emit(k)
    PROVE  /\ log' \in Seq([role : Role, kind : Kind, tool : Tool \cup {None}, ok : BOOLEAN])
           /\ Len(log') = Len(log) + 1
           /\ \A i \in 1 .. Len(log) : log'[i] = log[i]
           /\ log'[Len(log) + 1] = [role |-> role, kind |-> k, tool |-> call.tool, ok |-> call.ok]
  <1> DEFINE e == [role |-> role, kind |-> k, tool |-> call.tool, ok |-> call.ok]
             S == [role : Role, kind : Kind, tool : Tool \cup {None}, ok : BOOLEAN]
  <1>1. e \in S /\ log \in Seq(S)
    BY DEF RoleTypeOK
  <1>2. log' = Append(log, e)
    BY DEF Emit
  <1> HIDE DEF e, S
  <1>3. /\ log' \in Seq(S) /\ Len(log') = Len(log) + 1
        /\ \A i \in 1 .. Len(log) : log'[i] = log[i]
        /\ log'[Len(log) + 1] = e
    BY <1>1, <1>2, AppendProperties
  <1> QED
    BY <1>3 DEF e, S

(* Ends changes the point and the code only. *)
LEMMA EndsKeepsType ==
    ASSUME RoleTypeOK, NEW code \in Failure, Ends(code)
    PROVE  RoleTypeOK'
  BY DEF RoleTypeOK, Ends, turnVars, Point

LEMMA EmitKeepsType ==
    ASSUME RoleTypeOK, NEW k \in Kind, Emit(k), point' \in Point, retrieved' \in BOOLEAN,
           UNCHANGED <<role, round, turnVars, start, reply, failure>>
    PROVE  RoleTypeOK'
  <1>1. Len(log) \in Nat /\ start \in 0 .. Len(log)
    BY LenProperties DEF RoleTypeOK
  <1>2. start' = start /\ Len(log') = Len(log) + 1
    BY OneMoreEvent
  <1>3. start' \in 0 .. Len(log')
    BY <1>1, <1>2
  <1> QED
    BY <1>3, OneMoreEvent DEF RoleTypeOK, turnVars

LEMMA OutcomeType ==
    ASSUME NEW e \in Envelope
    PROVE  /\ Outcome(e) \in [status : Status, result : Result, approval : BOOLEAN]
           /\ Outcome(e).status = e.status
  BY DEF Envelope, Outcome, Result

LEMMA StepKeepsType == RoleTypeOK /\ [RoleNext]_roleVars => RoleTypeOK'
  <1> SUFFICES ASSUME RoleTypeOK, [RoleNext]_roleVars
               PROVE  RoleTypeOK'
    OBVIOUS
  <1> USE RoleConstants
  <1>1. ASSUME NEW r \in Role, Begins(r), round' \in 0 .. MaxRounds, retrieved' \in BOOLEAN
        PROVE  RoleTypeOK'
    <2>1. Len(log) \in Nat
      BY DEF RoleTypeOK
    <2> QED
      BY <1>1, <2>1 DEF RoleTypeOK, Begins, At, NoCall, Point
  <1>2. CASE StartExecutor
    BY <1>2, <1>1 DEF StartExecutor, RoleTypeOK, Role
  <1>3. CASE StartCritic
    BY <1>3, <1>1 DEF StartCritic, RoleTypeOK, Role
  <1>4. CASE Respond
    BY <1>4 DEF Respond, At, NoCall, RoleTypeOK, Point
  <1>5. CASE EmitModelTurn
    <2>1. Emit("model_turn_completed") /\ "model_turn_completed" \in Kind /\ point' \in Point
      BY <1>5 DEF EmitModelTurn, At, Point, Kind
    <2> QED
      BY <1>5, <2>1, EmitKeepsType DEF EmitModelTurn, RoleTypeOK
  <1>6. CASE NextTurn
    BY <1>6 DEF NextTurn, At, RoleTypeOK, Point
  <1>7. ASSUME NEW t \in Tool, TakeCall(t)
        PROVE  RoleTypeOK'
    BY <1>7 DEF TakeCall, At, RoleTypeOK, Point
  <1>8. CASE EmitMemoryRequested
    <2>1. Emit("memory_retrieval_requested") /\ "memory_retrieval_requested" \in Kind
            /\ point' \in Point
      BY <1>8 DEF EmitMemoryRequested, At, Point, Kind
    <2> QED
      BY <1>8, <2>1, EmitKeepsType DEF EmitMemoryRequested, RoleTypeOK
  <1>9. CASE EmitToolRequested
    <2>1. Emit("tool_requested") /\ "tool_requested" \in Kind /\ point' \in Point
      BY <1>9 DEF EmitToolRequested, At, Point, Kind
    <2> QED
      BY <1>9, <2>1, EmitKeepsType DEF EmitToolRequested, RoleTypeOK
  <1>10. CASE ToolSucceeds
    BY <1>10 DEF ToolSucceeds, At, RoleTypeOK, Point
  <1>11. CASE ToolRefuses
    BY <1>11 DEF ToolRefuses, At, turnVars, RoleTypeOK, Point
  <1>12. CASE EmitToolCompleted
    <2>1. Emit("tool_completed") /\ "tool_completed" \in Kind /\ point' \in Point
      BY <1>12 DEF EmitToolCompleted, At, Point, Kind
    <2>2. retrieved' \in BOOLEAN
      BY <1>12 DEF EmitToolCompleted, RoleTypeOK
    <2> QED
      BY <1>12, <2>1, <2>2, EmitKeepsType DEF EmitToolCompleted
  <1>13. CASE EmitMemoryCompleted
    <2>1. Emit("memory_retrieval_completed") /\ "memory_retrieval_completed" \in Kind
            /\ point' \in Point
      BY <1>13 DEF EmitMemoryCompleted, At, Point, Kind
    <2> QED
      BY <1>13, <2>1, EmitKeepsType DEF EmitMemoryCompleted, RoleTypeOK
  <1>14. CASE EmitCommentsRetrieved
    <2>1. Emit("shared_comments_retrieved") /\ "shared_comments_retrieved" \in Kind
            /\ point' \in Point
      BY <1>14 DEF EmitCommentsRetrieved, At, Point, Kind
    <2> QED
      BY <1>14, <2>1, EmitKeepsType DEF EmitCommentsRetrieved, RoleTypeOK
  <1>15. CASE KeepResult
    BY <1>15 DEF KeepResult, At, turnVars, RoleTypeOK, Point
  <1>16. ASSUME NEW e \in Envelope, Answer(e)
         PROVE  RoleTypeOK'
    BY <1>16, OutcomeType DEF Answer, At, turnVars, RoleTypeOK, Point
  <1>17. CASE \E code \in Failure : Ends(code)
    BY <1>17, EndsKeepsType
  <1>18. CASE UNCHANGED roleVars
    BY <1>18 DEF RoleTypeOK, roleVars, turnVars
  <1>19. ASSUME \/ EndRun \/ ModelFails \/ OutOfTurns \/ ToolRaises \/ RefuseResult
                \/ (\E e \in Envelope : AnswerUnparsed(e))
                \/ AnswerTooEarly \/ EmitFails
         PROVE  \E code \in Failure : Ends(code)
    BY <1>19 DEF EndRun, ModelFails, OutOfTurns, ToolRaises, RefuseResult, AnswerUnparsed,
                 AnswerTooEarly, EmitFails, Failure
  <1> QED
    BY <1>2, <1>3, <1>4, <1>5, <1>6, <1>7, <1>8, <1>9, <1>10, <1>11, <1>12, <1>13,
       <1>14, <1>15, <1>16, <1>17, <1>18, <1>19 DEF RoleNext

LEMMA InitHasType == RoleInit => RoleTypeOK
  <1> SUFFICES ASSUME RoleInit
               PROVE  RoleTypeOK
    OBVIOUS
  <1>1. log \in Seq([role : Role, kind : Kind, tool : Tool \cup {None}, ok : BOOLEAN])
          /\ start \in 0 .. Len(log)
    BY DEF RoleInit
  <1>2. round \in 0 .. MaxRounds /\ step \in 0 .. MaxSteps /\ left \in 0 .. MaxCalls
    BY RoleConstants DEF RoleInit
  <1>3. point \in Point /\ role \in Role /\ failure \in Failure /\ retrieved \in BOOLEAN
    BY DEF RoleInit, Point, Role, Failure
  <1>4. used \subseteq Tool /\ call \in [tool : Tool \cup {None}, ok : BOOLEAN] /\ reply = None
    BY DEF RoleInit, NoCall
  <1> QED
    BY <1>1, <1>2, <1>3, <1>4 DEF RoleTypeOK

(* Every variable keeps its type: turns, calls and rounds stay in their     *)
(* bounds and every event of the log is of a known kind.                    *)
THEOREM RoleTypeCorrect == RoleSpec => []RoleTypeOK
  BY InitHasType, StepKeepsType, PTL DEF RoleSpec

-----------------------------------------------------------------------------
(* What the role has obtained at each point: outside a call, all the tools *)
(* it used; in a call, all but the one under way; once that one's result   *)
(* is known to be ok, that one too.                                        *)
InCall == {"request_memory", "request_tool", "execute", "completed",
           "completed_memory", "completed_comments", "check"}

Served ==
    /\ point \in {"model", "turn", "loop", "answer"} => \A t \in used : Obtained(t)
    /\ point \in InCall => \A t \in used \ {call.tool} : Obtained(t)
    /\ point \in {"completed_memory", "completed_comments", "check"} /\ call.ok =>
        Obtained(call.tool)

ExecutorTold ==
    \E i \in Events : log[i].role = "executor" /\ log[i].kind = "shared_comments_retrieved"

(* The workflow's flag is what the log tells of the Executor. *)
FlagTells ==
    /\ ExecutorTold => retrieved
    /\ point = "completed_comments" /\ role = "executor" => retrieved

(* A tool's error is the last thing but one event that the log tells. *)
ErrorLast ==
    \A i \in Events : log[i].kind = "tool_completed" /\ ~ log[i].ok =>
        /\ \A k \in i + 1 .. Len(log) :
            log[k].kind \in {"memory_retrieval_completed", "shared_comments_retrieved"}
        /\ point \in {"completed_memory", "completed_comments", "check", "over"}
        /\ point = "over" \/ ~ call.ok

GroundInv ==
    /\ Served /\ FlagTells /\ ErrorLast
    /\ reply # None => point \in {"workflow", "over"}
    /\ ExecutorGrounded /\ CriticRetrievesToo

(* A step that records nothing keeps what was obtained and told. *)
LEMMA QuietStep ==
    ASSUME UNCHANGED <<log, start, role>>
    PROVE  /\ \A t : Obtained(t)' <=> Obtained(t)
           /\ ExecutorTold' <=> ExecutorTold
  BY DEF Obtained, ExecutorTold, Events, Current

(* An event keeps what was obtained, and tells what it is. *)
LEMMA TellingStep ==
    ASSUME RoleTypeOK, NEW k \in Kind, Emit(k), UNCHANGED <<start, role>>
    PROVE  /\ \A t : Obtained(t) => Obtained(t)'
           /\ \A t : k = "tool_completed" /\ call.ok /\ t = call.tool => Obtained(t)'
           /\ ExecutorTold' =>
                ExecutorTold \/ (role = "executor" /\ k = "shared_comments_retrieved")
  <1> DEFINE n == Len(log)
  <1>1. n \in Nat /\ start \in 0 .. n
    BY LenProperties DEF RoleTypeOK
  <1>2. /\ Len(log') = n + 1
        /\ \A i \in 1 .. n : log'[i] = log[i]
        /\ log'[n + 1] = [role |-> role, kind |-> k, tool |-> call.tool, ok |-> call.ok]
    BY OneMoreEvent
  <1>3. start' = start /\ role' = role
    OBVIOUS
  <1> HIDE DEF n
  <1>4. \A t : Obtained(t) => Obtained(t)'
    <2> SUFFICES ASSUME NEW t, Obtained(t)
                 PROVE  Obtained(t)'
      OBVIOUS
    <2>1. PICK i \in start + 1 .. n :
            log[i].kind = "tool_completed" /\ log[i].tool = t /\ log[i].ok
      BY DEF Obtained, Current, n
    <2>2. i \in 1 .. n /\ i \in start' + 1 .. Len(log')
      BY <1>1, <1>2, <1>3, <2>1
    <2>3. log'[i] = log[i]
      BY <1>2, <2>2
    <2> QED
      BY <2>1, <2>2, <2>3 DEF Obtained, Current
  <1>5. \A t : k = "tool_completed" /\ call.ok /\ t = call.tool => Obtained(t)'
    <2> SUFFICES ASSUME NEW t, k = "tool_completed", call.ok, t = call.tool
                 PROVE  Obtained(t)'
      OBVIOUS
    <2>1. n + 1 \in start' + 1 .. Len(log')
      BY <1>1, <1>2, <1>3
    <2>2. log'[n + 1].kind = "tool_completed" /\ log'[n + 1].tool = t /\ log'[n + 1].ok
      BY <1>2
    <2> QED
      BY <2>1, <2>2 DEF Obtained, Current
  <1>6. ASSUME ExecutorTold'
        PROVE  ExecutorTold \/ (role = "executor" /\ k = "shared_comments_retrieved")
    <2>1. PICK i \in 1 .. Len(log') :
            log'[i].role = "executor" /\ log'[i].kind = "shared_comments_retrieved"
      BY <1>6 DEF ExecutorTold, Events
    <2>2. i \in 1 .. n \/ i = n + 1
      BY <1>1, <1>2, <2>1
    <2>3. CASE i \in 1 .. n
      BY <1>2, <2>1, <2>3 DEF ExecutorTold, Events, n
    <2>4. CASE i = n + 1
      BY <1>2, <2>1, <2>4
    <2> QED
      BY <2>2, <2>3, <2>4
  <1> QED
    BY <1>4, <1>5, <1>6

(* An event other than an error, recorded while no error is, or recorded   *)
(* right after one.                                                        *)
LEMMA ErrorsStayLast ==
    ASSUME RoleTypeOK, ErrorLast, NEW k \in Kind, Emit(k), UNCHANGED <<role, call>>,
           \/ point \in {"turn", "request_memory", "request_tool"} /\ k # "tool_completed"
           \/ /\ point = "completed" /\ k = "tool_completed"
              /\ point' \in {"completed_memory", "completed_comments", "check"}
           \/ /\ point \in {"completed_memory", "completed_comments"} /\ point' = "check"
              /\ k \in {"memory_retrieval_completed", "shared_comments_retrieved"}
    PROVE  ErrorLast'
  <1> DEFINE n == Len(log)
  <1>1. n \in Nat
    BY LenProperties DEF RoleTypeOK
  <1>2. /\ Len(log') = n + 1
        /\ \A i \in 1 .. n : log'[i] = log[i]
        /\ log'[n + 1] = [role |-> role, kind |-> k, tool |-> call.tool, ok |-> call.ok]
    BY OneMoreEvent
  <1> SUFFICES ASSUME NEW i \in 1 .. Len(log'), log'[i].kind = "tool_completed", ~ log'[i].ok
               PROVE  /\ \A j \in i + 1 .. Len(log') : log'[j].kind \in
                            {"memory_retrieval_completed", "shared_comments_retrieved"}
                      /\ point' \in {"completed_memory", "completed_comments", "check", "over"}
                      /\ point' = "over" \/ ~ call'.ok
    BY DEF ErrorLast, Events
  <1>3. CASE i \in 1 .. n
    <2>1. log[i].kind = "tool_completed" /\ ~ log[i].ok
      BY <1>2, <1>3
    <2>2. /\ \A j \in i + 1 .. n : log[j].kind \in
                {"memory_retrieval_completed", "shared_comments_retrieved"}
          /\ point \in {"completed_memory", "completed_comments", "check", "over"}
          /\ point = "over" \/ ~ call.ok
      BY <1>3, <2>1 DEF ErrorLast, Events, n
    <2>3. /\ point \in {"completed_memory", "completed_comments"} /\ point' = "check"
          /\ k \in {"memory_retrieval_completed", "shared_comments_retrieved"}
      BY <2>2
    <2>4. ASSUME NEW j \in i + 1 .. Len(log')
          PROVE  log'[j].kind \in {"memory_retrieval_completed", "shared_comments_retrieved"}
      <3>1. (j \in i + 1 .. n /\ j \in 1 .. n) \/ j = n + 1
        BY <1>1, <1>2, <1>3
      <3> QED
        BY <1>2, <2>2, <2>3, <3>1
    <2> QED
      BY <2>2, <2>3, <2>4
  <1>4. CASE i \notin 1 .. n
    <2>1. i = n + 1
      BY <1>1, <1>2, <1>4
    <2>2. k = "tool_completed" /\ ~ call.ok
      BY <1>2, <2>1
    <2>3. i + 1 .. Len(log') = {}
      BY <1>1, <1>2, <2>1
    <2>4. call' = call
      OBVIOUS
    <2> QED
      BY <2>2, <2>3, <2>4
  <1> QED
    BY <1>3, <1>4

(* A step that records nothing, takes no outcome and begins no role.       *)
LEMMA QuietErrors ==
    ASSUME ErrorLast, UNCHANGED log,
           point \notin {"completed_memory", "completed_comments", "check", "over"}
             \/ point' = "over"
    PROVE  ErrorLast'
  BY DEF ErrorLast, Events

LEMMA EndsGround ==
    ASSUME GroundInv, NEW code, Ends(code)
    PROVE  GroundInv'
  <1>1. UNCHANGED <<role, log, start, reply, call, used, retrieved>> /\ point' = "over"
    BY DEF Ends, turnVars
  <1>2. ErrorLast'
    BY <1>1, QuietErrors DEF GroundInv
  <1>3. ExecutorGrounded' /\ CriticRetrievesToo'
    BY <1>1 DEF GroundInv, ExecutorGrounded, CriticRetrievesToo, Obtained, Current, Events
  <1>4. Served' /\ FlagTells'
    BY <1>1, QuietStep DEF GroundInv, Served, FlagTells, InCall
  <1> QED
    BY <1>1, <1>2, <1>3, <1>4 DEF GroundInv

(* A step to a point at which no outcome is there.                         *)
LEMMA NoReplyGround ==
    ASSUME reply' = None
    PROVE  ExecutorGrounded' /\ CriticRetrievesToo'
  BY DEF ExecutorGrounded, CriticRetrievesToo

LEMMA StepGrounds == RoleTypeOK /\ GroundInv /\ [RoleNext]_roleVars => GroundInv'
  <1> SUFFICES ASSUME RoleTypeOK, GroundInv, [RoleNext]_roleVars
               PROVE  GroundInv'
    OBVIOUS
  <1> USE RoleConstants
  <1>0. point \notin {"workflow", "over"} => reply = None
    BY DEF GroundInv
  <1>1. ASSUME NEW r \in Role, Begins(r), ExecutorTold => retrieved'
        PROVE  GroundInv'
    <2>1. point = "workflow" /\ point' = "model" /\ used' = {} /\ reply' = None /\ log' = log
      BY <1>1 DEF Begins, At
    <2>2. Served'
      BY <2>1 DEF Served, InCall
    <2>3. FlagTells'
      BY <1>1, <2>1 DEF FlagTells, ExecutorTold, Events
    <2>4. ErrorLast'
      BY <2>1, QuietErrors DEF GroundInv
    <2> QED
      BY <2>1, <2>2, <2>3, <2>4, NoReplyGround DEF GroundInv
  <1>2. CASE StartExecutor
    BY <1>2, <1>1 DEF StartExecutor, Role, GroundInv, FlagTells
  <1>3. CASE StartCritic
    BY <1>3, <1>1 DEF StartCritic, Role, GroundInv, FlagTells
  <1>4. ASSUME UNCHANGED <<role, retrieved, log, start, reply>>, point' # "over",
               point \notin {"workflow", "over", "completed_comments"},
               point' # "completed_comments",
               ErrorLast', Served'
        PROVE  GroundInv'
    <2>1. FlagTells'
      BY <1>4, QuietStep DEF GroundInv, FlagTells
    <2> QED
      BY <1>0, <1>4, <2>1, NoReplyGround DEF GroundInv
  <1>5. CASE Respond
    <2>1. Served'
      BY <1>5, QuietStep DEF Respond, At, GroundInv, Served, InCall
    <2> QED
      BY <1>4, <1>5, <2>1, QuietErrors DEF Respond, At, GroundInv
  <1>6. CASE NextTurn
    <2>1. Served'
      BY <1>6, QuietStep DEF NextTurn, At, GroundInv, Served, InCall
    <2> QED
      BY <1>4, <1>6, <2>1, QuietErrors DEF NextTurn, At, GroundInv
  <1>7. ASSUME NEW t \in Tool, TakeCall(t)
        PROVE  GroundInv'
    <2>1. Served'
      BY <1>7, QuietStep DEF TakeCall, At, GroundInv, Served, InCall
    <2> QED
      BY <1>4, <1>7, <2>1, QuietErrors DEF TakeCall, At, GroundInv
  <1>8. CASE ToolSucceeds
    <2>1. call'.tool = call.tool
      BY <1>8 DEF ToolSucceeds, RoleTypeOK
    <2>2. Served'
      BY <1>8, <2>1, QuietStep DEF ToolSucceeds, At, GroundInv, Served, InCall
    <2> QED
      BY <1>4, <1>8, <2>2, QuietErrors DEF ToolSucceeds, At, GroundInv
  <1>9. CASE ToolRefuses
    <2>1. Served'
      BY <1>9, QuietStep DEF ToolRefuses, At, turnVars, GroundInv, Served, InCall
    <2> QED
      BY <1>4, <1>9, <2>1, QuietErrors DEF ToolRefuses, At, GroundInv
  <1>10. CASE KeepResult
    <2>1. Served'
      BY <1>10, QuietStep DEF KeepResult, At, turnVars, GroundInv, Served, InCall
    <2>2. ErrorLast'
      BY <1>10 DEF KeepResult, At, GroundInv, ErrorLast, Events
    <2> QED
      BY <1>4, <1>10, <2>1, <2>2 DEF KeepResult, At
  <1>11. ASSUME NEW k \in Kind, Emit(k), UNCHANGED <<role, turnVars, start, reply>>,
                point \notin {"workflow", "over"}, ErrorLast', Served', FlagTells'
         PROVE  GroundInv'
    BY <1>0, <1>11, NoReplyGround DEF GroundInv
  <1>12. CASE EmitModelTurn
    <2>1. Emit("model_turn_completed") /\ "model_turn_completed" \in Kind
      BY <1>12 DEF EmitModelTurn, Kind
    <2>2. Served'
      BY <1>12, <2>1, TellingStep
        DEF EmitModelTurn, At, turnVars, GroundInv, Served, InCall
    <2>3. FlagTells'
      BY <1>12, <2>1, TellingStep DEF EmitModelTurn, At, GroundInv, FlagTells
    <2>4. ErrorLast'
      BY <1>12, <2>1, ErrorsStayLast DEF EmitModelTurn, At, turnVars, GroundInv
    <2> QED
      BY <1>11, <1>12, <2>1, <2>2, <2>3, <2>4 DEF EmitModelTurn, At
  <1>13. CASE EmitMemoryRequested
    <2>1. Emit("memory_retrieval_requested") /\ "memory_retrieval_requested" \in Kind
      BY <1>13 DEF EmitMemoryRequested, Kind
    <2>2. Served'
      BY <1>13, <2>1, TellingStep
        DEF EmitMemoryRequested, At, turnVars, GroundInv, Served, InCall
    <2>3. FlagTells'
      BY <1>13, <2>1, TellingStep DEF EmitMemoryRequested, At, GroundInv, FlagTells
    <2>4. ErrorLast'
      BY <1>13, <2>1, ErrorsStayLast DEF EmitMemoryRequested, At, turnVars, GroundInv
    <2> QED
      BY <1>11, <1>13, <2>1, <2>2, <2>3, <2>4 DEF EmitMemoryRequested, At
  <1>14. CASE EmitToolRequested
    <2>1. Emit("tool_requested") /\ "tool_requested" \in Kind
      BY <1>14 DEF EmitToolRequested, Kind
    <2>2. Served'
      BY <1>14, <2>1, TellingStep
        DEF EmitToolRequested, At, turnVars, GroundInv, Served, InCall
    <2>3. FlagTells'
      BY <1>14, <2>1, TellingStep DEF EmitToolRequested, At, GroundInv, FlagTells
    <2>4. ErrorLast'
      BY <1>14, <2>1, ErrorsStayLast DEF EmitToolRequested, At, turnVars, GroundInv
    <2> QED
      BY <1>11, <1>14, <2>1, <2>2, <2>3, <2>4 DEF EmitToolRequested, At
  <1>15. CASE EmitToolCompleted
    <2>1. Emit("tool_completed") /\ "tool_completed" \in Kind
      BY <1>15 DEF EmitToolCompleted, Kind
    <2>2. point = "completed" /\ point' \in {"completed_memory", "completed_comments", "check"}
      BY <1>15 DEF EmitToolCompleted, At
    <2>3. Served'
      BY <1>15, <2>1, <2>2, TellingStep
        DEF EmitToolCompleted, turnVars, GroundInv, Served, InCall
    <2>4. point' = "completed_comments" => call.tool = Comments
      BY <1>15 DEF EmitToolCompleted, At
    <2>5. FlagTells'
      BY <1>15, <2>1, <2>4, TellingStep DEF EmitToolCompleted, GroundInv, FlagTells
    <2>6. ErrorLast'
      BY <1>15, <2>1, <2>2, ErrorsStayLast DEF EmitToolCompleted, turnVars, GroundInv
    <2> QED
      BY <1>11, <1>15, <2>1, <2>2, <2>3, <2>5, <2>6 DEF EmitToolCompleted
  <1>16. CASE EmitMemoryCompleted
    <2>1. Emit("memory_retrieval_completed") /\ "memory_retrieval_completed" \in Kind
      BY <1>16 DEF EmitMemoryCompleted, Kind
    <2>2. Served'
      BY <1>16, <2>1, TellingStep
        DEF EmitMemoryCompleted, At, turnVars, GroundInv, Served, InCall
    <2>3. FlagTells'
      BY <1>16, <2>1, TellingStep DEF EmitMemoryCompleted, At, GroundInv, FlagTells
    <2>4. ErrorLast'
      BY <1>16, <2>1, ErrorsStayLast DEF EmitMemoryCompleted, At, turnVars, GroundInv
    <2> QED
      BY <1>11, <1>16, <2>1, <2>2, <2>3, <2>4 DEF EmitMemoryCompleted, At
  <1>17. CASE EmitCommentsRetrieved
    <2>1. Emit("shared_comments_retrieved") /\ "shared_comments_retrieved" \in Kind
      BY <1>17 DEF EmitCommentsRetrieved, Kind
    <2>2. Served'
      BY <1>17, <2>1, TellingStep
        DEF EmitCommentsRetrieved, At, turnVars, GroundInv, Served, InCall
    <2>3. FlagTells'
      BY <1>17, <2>1, TellingStep DEF EmitCommentsRetrieved, At, GroundInv, FlagTells
    <2>4. ErrorLast'
      BY <1>17, <2>1, ErrorsStayLast DEF EmitCommentsRetrieved, At, turnVars, GroundInv
    <2> QED
      BY <1>11, <1>17, <2>1, <2>2, <2>3, <2>4 DEF EmitCommentsRetrieved, At
  <1>18. ASSUME NEW e \in Envelope, Answer(e)
         PROVE  GroundInv'
    <2>1. /\ point = "answer" /\ point' = "workflow" /\ RequiredTools \subseteq used
          /\ UNCHANGED <<role, log, start, used, retrieved>>
      BY <1>18 DEF Answer, At, turnVars
    <2>2. \A t \in RequiredTools : Obtained(t)'
      BY <2>1, QuietStep DEF GroundInv, Served
    <2>3. ExecutorGrounded'
      BY <2>1, <2>2 DEF ExecutorGrounded, RequiredTools
    <2>4. ExecutorTold' => retrieved
      BY <2>1, QuietStep DEF GroundInv, FlagTells
    <2>5. CriticRetrievesToo'
      BY <2>1, <2>2, <2>4 DEF CriticRetrievesToo, RequiredTools, ExecutorTold
    <2>6. Served' /\ FlagTells'
      BY <2>1, <2>4 DEF Served, FlagTells, InCall
    <2>7. ErrorLast'
      BY <2>1, QuietErrors DEF GroundInv
    <2> QED
      BY <2>1, <2>3, <2>5, <2>6, <2>7 DEF GroundInv
  <1>19. CASE \/ EndRun \/ ModelFails \/ OutOfTurns \/ ToolRaises \/ RefuseResult
              \/ (\E e \in Envelope : AnswerUnparsed(e))
              \/ AnswerTooEarly \/ EmitFails
    BY <1>19, EndsGround DEF EndRun, ModelFails, OutOfTurns, ToolRaises, RefuseResult,
                             AnswerUnparsed, AnswerTooEarly, EmitFails
  <1>20. CASE UNCHANGED roleVars
    BY <1>20 DEF roleVars, turnVars, GroundInv, Served, FlagTells, ErrorLast, ExecutorTold,
                 ExecutorGrounded, CriticRetrievesToo, Obtained, Current, Events
  <1> QED
    BY <1>2, <1>3, <1>5, <1>6, <1>7, <1>8, <1>9, <1>10, <1>12, <1>13, <1>14, <1>15,
       <1>16, <1>17, <1>18, <1>19, <1>20 DEF RoleNext

LEMMA InitGrounds == RoleInit => GroundInv
  BY DEF RoleInit, GroundInv, Served, FlagTells, ErrorLast, ExecutorTold, Events, InCall,
         ExecutorGrounded, CriticRetrievesToo

LEMMA GroundAlways == RoleSpec => []GroundInv
  BY InitGrounds, InitHasType, StepGrounds, StepKeepsType, PTL DEF RoleSpec

(* Every Executor's outcome rests on private facts it obtained in that      *)
(* turn, for any number of turns, calls and rounds.                         *)
THEOREM ExecutorIsGrounded == RoleSpec => []ExecutorGrounded
  BY GroundAlways, PTL DEF GroundInv

(* Once the Executor retrieved shared comments, every later Critic's        *)
(* outcome rests on a retrieval of its own.                                 *)
THEOREM CriticIsGrounded == RoleSpec => []CriticRetrievesToo
  BY GroundAlways, PTL DEF GroundInv

(* After a tool's error the role takes no step but to record it.            *)
THEOREM ErrorIsFinal == RoleSpec => []ErrorEndsRole
  <1>1. GroundInv => ErrorEndsRole
    BY DEF GroundInv, ErrorLast, ErrorEndsRole
  <1> QED
    BY <1>1, GroundAlways, PTL
-----------------------------------------------------------------------------
(* Requests and their answers: a request without an answer is that of the  *)
(* call under way.                                                         *)
Requests == {"tool_requested", "memory_retrieval_requested"}

Closes(j, i) ==
    /\ Answers(j, i)
    /\ \A k \in i + 1 .. j - 1 : log[k].kind \notin {log[i].kind, "model_turn_completed"}

Unanswered(i) ==
    \A k \in i + 1 .. Len(log) : log[k].kind \notin {log[i].kind, "model_turn_completed"}

InHand(kind, tool) ==
    \/ point = "over"
    \/ kind = "tool_requested" /\ point \in {"execute", "completed"} /\ call.tool = tool
    \/ /\ kind = "memory_retrieval_requested" /\ call.tool = Facts
       /\ point \in {"request_tool", "execute", "completed", "completed_memory"}

AnswerInv ==
    \A i \in Events : log[i].kind \in Requests =>
        \/ \E j \in i + 1 .. Len(log) : Closes(j, i)
        \/ Unanswered(i) /\ InHand(log[i].kind, log[i].tool)

(* Private memory is asked for by the call of its tool. *)
MemoryCall == point = "request_memory" => call.tool = Facts

(* A step that records nothing, while no request is pending or keeping it   *)
(* in hand.                                                                 *)
LEMMA QuietAnswers ==
    ASSUME AnswerInv, UNCHANGED log,
           \A kind \in Requests : \A tool : InHand(kind, tool) => InHand(kind, tool)'
    PROVE  AnswerInv'
  <1> SUFFICES ASSUME NEW i \in Events, log[i].kind \in Requests
               PROVE  \/ (\E j \in i + 1 .. Len(log) : Closes(j, i))'
                      \/ Unanswered(i)' /\ InHand(log[i].kind, log[i].tool)'
    BY DEF AnswerInv, Events
  <1>1. CASE \E j \in i + 1 .. Len(log) : Closes(j, i)
    BY <1>1 DEF Closes, Answers
  <1>2. CASE Unanswered(i) /\ InHand(log[i].kind, log[i].tool)
    BY <1>2 DEF Unanswered
  <1> QED
    BY <1>1, <1>2 DEF AnswerInv

(* An event closes a request in hand, or leaves it in hand, and is itself  *)
(* in hand if it is a request.                                             *)
LEMMA TellingAnswers ==
    ASSUME RoleTypeOK, AnswerInv, NEW kind \in Kind, Emit(kind), UNCHANGED call,
           \A asked \in Requests : \A tool : InHand(asked, tool) =>
                \/ asked = "tool_requested" /\ kind = "tool_completed" /\ tool = call.tool
                \/ asked = "memory_retrieval_requested" /\ kind = "memory_retrieval_completed"
                \/ kind \notin {asked, "model_turn_completed"} /\ InHand(asked, tool)',
           kind \in Requests => InHand(kind, call.tool)'
    PROVE  AnswerInv'
  <1>1. PICK n \in Nat : n = Len(log)
    BY LenProperties DEF RoleTypeOK
  <1>2. /\ Len(log') = n + 1
        /\ \A i \in 1 .. n : log'[i] = log[i]
        /\ log'[n + 1] = [role |-> role, kind |-> kind, tool |-> call.tool, ok |-> call.ok]
    BY <1>1, OneMoreEvent
  <1> SUFFICES ASSUME NEW i \in 1 .. n + 1, log'[i].kind \in Requests
               PROVE  \/ (\E j \in i + 1 .. Len(log) : Closes(j, i))'
                      \/ Unanswered(i)' /\ InHand(log[i].kind, log[i].tool)'
    BY <1>2 DEF AnswerInv, Events
  <1>3. CASE i = n + 1
    <2>1. \A k \in i + 1 .. Len(log') : FALSE
      BY <1>1, <1>2, <1>3
    <2>2. Unanswered(i)'
      BY <2>1 DEF Unanswered
    <2>3. InHand(log[i].kind, log[i].tool)'
      BY <1>2, <1>3 DEF InHand
    <2> QED
      BY <2>2, <2>3
  <1>4. ASSUME i \in 1 .. n, NEW j \in i + 1 .. n, Closes(j, i)
        PROVE  (\E m \in i + 1 .. Len(log) : Closes(m, i))'
    <2>1. j \in i + 1 .. Len(log') /\ j \in 1 .. n /\ \A k \in i + 1 .. j - 1 : k \in 1 .. n
      BY <1>1, <1>2, <1>4
    <2>2. Closes(j, i)'
      BY <1>2, <1>4, <2>1 DEF Closes, Answers
    <2> QED
      BY <2>1, <2>2
  <1>5. ASSUME i \in 1 .. n, Unanswered(i), InHand(log[i].kind, log[i].tool)
        PROVE  \/ (\E j \in i + 1 .. Len(log) : Closes(j, i))'
               \/ Unanswered(i)' /\ InHand(log[i].kind, log[i].tool)'
    <2>1. /\ \A k \in i + 1 .. n : k \in 1 .. n
          /\ n + 1 \in i + 1 .. Len(log')
          /\ \A k \in i + 1 .. Len(log') : k \in i + 1 .. n \/ k = n + 1
          /\ (n + 1) - 1 = n
      BY <1>1, <1>2, <1>5
    <2>2. log'[i] = log[i] /\ log[i].kind \in Requests
      BY <1>2, <1>5
    <2>3. \A k \in i + 1 .. n : log'[k].kind \notin {log'[i].kind, "model_turn_completed"}
      BY <1>1, <1>2, <1>5, <2>1, <2>2 DEF Unanswered
    <2>4. CASE \/ log[i].kind = "tool_requested" /\ kind = "tool_completed"
                    /\ log[i].tool = call.tool
               \/ /\ log[i].kind = "memory_retrieval_requested"
                  /\ kind = "memory_retrieval_completed"
      <3>1. Closes(n + 1, i)'
        BY <1>2, <2>1, <2>2, <2>3, <2>4 DEF Closes, Answers
      <3> QED
        BY <2>1, <3>1
    <2>5. CASE /\ kind \notin {log[i].kind, "model_turn_completed"}
               /\ InHand(log[i].kind, log[i].tool)'
      <3>1. Unanswered(i)'
        BY <1>2, <2>1, <2>2, <2>3, <2>5 DEF Unanswered
      <3>2. InHand(log[i].kind, log[i].tool)'
        BY <2>2, <2>5 DEF InHand
      <3> QED
        BY <3>1, <3>2
    <2> QED
      BY <1>5, <2>2, <2>4, <2>5
  <1>6. i \in 1 .. n \/ i = n + 1
    BY <1>1
  <1>7. ASSUME i \in 1 .. n
        PROVE  log[i].kind \in Requests /\ i \in Events
    BY <1>1, <1>2, <1>7 DEF Events
  <1> QED
    BY <1>1, <1>3, <1>4, <1>5, <1>6, <1>7 DEF AnswerInv

LEMMA StepMemoryCall == MemoryCall /\ [RoleNext]_roleVars => MemoryCall'
  <1> USE DEF MemoryCall
  <1>1. CASE \E t \in Tool : TakeCall(t)
    BY <1>1 DEF TakeCall, At
  <1>2. CASE UNCHANGED roleVars
    BY <1>2 DEF roleVars, turnVars
  <1> QED
    BY <1>1, <1>2
      DEF RoleNext, StartExecutor, StartCritic, Begins, EndRun, ModelFails, Respond,
          EmitModelTurn, NextTurn, OutOfTurns, EmitMemoryRequested, EmitToolRequested,
          ToolSucceeds, ToolRefuses, ToolRaises, EmitToolCompleted, EmitMemoryCompleted,
          EmitCommentsRetrieved, KeepResult, RefuseResult, Answer, AnswerUnparsed,
          AnswerTooEarly, EmitFails, Ends, At

LEMMA StepAnswers ==
    RoleTypeOK /\ MemoryCall /\ AnswerInv /\ [RoleNext]_roleVars => AnswerInv'
  <1> SUFFICES ASSUME RoleTypeOK, MemoryCall, AnswerInv, [RoleNext]_roleVars
               PROVE  AnswerInv'
    OBVIOUS
  <1> USE RoleConstants
  <1>1. CASE \/ StartExecutor \/ StartCritic \/ Respond \/ NextTurn
             \/ (\E t \in Tool : TakeCall(t))
             \/ KeepResult \/ (\E e \in Envelope : Answer(e))
    BY <1>1, QuietAnswers
      DEF StartExecutor, StartCritic, Begins, Respond, NextTurn, TakeCall, KeepResult, Answer,
          At, InHand, Requests
  <1>2. CASE ToolSucceeds \/ ToolRefuses
    <2>1. point = "execute" /\ point' = "completed" /\ call'.tool = call.tool /\ log' = log
      BY <1>2 DEF ToolSucceeds, ToolRefuses, At, turnVars, RoleTypeOK
    <2> QED
      BY <2>1, QuietAnswers DEF InHand, Requests
  <1>3. CASE EmitModelTurn
    <2>1. Emit("model_turn_completed") /\ "model_turn_completed" \in Kind
      BY <1>3 DEF EmitModelTurn, Kind
    <2> QED
      BY <1>3, <2>1, TellingAnswers DEF EmitModelTurn, turnVars, At, InHand, Requests
  <1>4. CASE EmitMemoryRequested
    <2>1. Emit("memory_retrieval_requested") /\ "memory_retrieval_requested" \in Kind
      BY <1>4 DEF EmitMemoryRequested, Kind
    <2>2. call.tool = Facts /\ call' = call /\ point = "request_memory" /\ point' = "request_tool"
      BY <1>4 DEF EmitMemoryRequested, At, turnVars, MemoryCall
    <2> QED
      BY <2>1, <2>2, TellingAnswers DEF InHand, Requests
  <1>5. CASE EmitToolRequested
    <2>1. Emit("tool_requested") /\ "tool_requested" \in Kind
      BY <1>5 DEF EmitToolRequested, Kind
    <2>2. call' = call /\ point = "request_tool" /\ point' = "execute"
      BY <1>5 DEF EmitToolRequested, At, turnVars
    <2> QED
      BY <2>1, <2>2, TellingAnswers DEF InHand, Requests
  <1>6. CASE EmitToolCompleted
    <2>1. Emit("tool_completed") /\ "tool_completed" \in Kind
      BY <1>6 DEF EmitToolCompleted, Kind
    <2>2. /\ call' = call /\ point = "completed"
          /\ call.tool = Facts => point' = "completed_memory"
      BY <1>6 DEF EmitToolCompleted, At, turnVars, Facts, Comments
    <2> QED
      BY <2>1, <2>2, TellingAnswers DEF InHand, Requests
  <1>7. CASE EmitMemoryCompleted
    <2>1. Emit("memory_retrieval_completed") /\ "memory_retrieval_completed" \in Kind
      BY <1>7 DEF EmitMemoryCompleted, Kind
    <2>2. point = "completed_memory" /\ call' = call
      BY <1>7 DEF EmitMemoryCompleted, At, turnVars
    <2> QED
      BY <2>1, <2>2, TellingAnswers DEF InHand, Requests
  <1>8. CASE EmitCommentsRetrieved
    <2>1. Emit("shared_comments_retrieved") /\ "shared_comments_retrieved" \in Kind
      BY <1>8 DEF EmitCommentsRetrieved, Kind
    <2>2. point = "completed_comments" /\ call' = call
      BY <1>8 DEF EmitCommentsRetrieved, At, turnVars
    <2> QED
      BY <2>1, <2>2, TellingAnswers DEF InHand, Requests
  <1>9. CASE \/ EndRun \/ ModelFails \/ OutOfTurns \/ ToolRaises \/ RefuseResult
             \/ (\E e \in Envelope : AnswerUnparsed(e))
             \/ AnswerTooEarly \/ EmitFails
    <2>1. point' = "over" /\ log' = log
      BY <1>9 DEF EndRun, ModelFails, OutOfTurns, ToolRaises, RefuseResult, AnswerUnparsed,
                  AnswerTooEarly, EmitFails, Ends
    <2> QED
      BY <2>1, QuietAnswers DEF InHand
  <1>10. CASE UNCHANGED roleVars
    BY <1>10, QuietAnswers DEF roleVars, turnVars, InHand
  <1> QED
    BY <1>1, <1>2, <1>3, <1>4, <1>5, <1>6, <1>7, <1>8, <1>9, <1>10 DEF RoleNext

(* Every request of a tool or of private memory is answered in the log by  *)
(* an event of its own call before the next one, before the model's next   *)
(* turn and before an outcome is taken, for any number of calls and turns. *)
THEOREM RequestsAreAnswered == RoleSpec => []RequestsAnswered
  <1>1. RoleInit => AnswerInv /\ MemoryCall
    BY DEF RoleInit, AnswerInv, Events, MemoryCall
  <1>2. AnswerInv => RequestsAnswered
    <2> SUFFICES ASSUME AnswerInv, NEW i \in Events, log[i].kind \in Requests
                 PROVE  \/ \E j \in i + 1 .. Len(log) :
                            /\ Answers(j, i)
                            /\ \A k \in i + 1 .. j - 1 :
                                log[k].kind \notin {log[i].kind, "model_turn_completed"}
                        \/ /\ \A k \in i + 1 .. Len(log) :
                                log[k].kind \notin {log[i].kind, "model_turn_completed"}
                           /\ point # "workflow"
      BY DEF RequestsAnswered, Requests
    <2> QED
      BY DEF AnswerInv, Closes, Unanswered, InHand
  <1> QED
    BY <1>1, <1>2, InitHasType, StepKeepsType, StepMemoryCall, StepAnswers, PTL DEF RoleSpec

-----------------------------------------------------------------------------
(* Progress.  Every step of a run lowers the number of steps it has to go,   *)
(* whatever the model answers and calls; the log cannot outgrow it.          *)

USE RoleConstants

CallLength == 7

InTurn ==
    [turn |-> 2, answer |-> 1, request_memory |-> 6, request_tool |-> 5, execute |-> 4,
     completed |-> 3, completed_memory |-> 2, completed_comments |-> 2, check |-> 1,
     loop |-> 0]

TurnLength == (MaxCalls + 1) * CallLength + 2
RoleLength == MaxSteps * TurnLength
RoundLength == 2 * RoleLength + 1
RunLength == MaxRounds * RoundLength + RoleLength + 1

LeftInRole(at, s, calls) ==
    IF at = "workflow" THEN 0
    ELSE (MaxSteps - s) * TurnLength +
            (IF at = "model" THEN TurnLength - 1 ELSE calls * CallLength + InTurn[at])

LeftAt(at, r, n, s, calls) ==
    IF at = "over" THEN 0
    ELSE (MaxRounds - n) * RoundLength + (IF r = "executor" THEN RoleLength ELSE 0) +
            LeftInRole(at, s, calls) + 1

StepsLeft == LeftAt(point, role, round, step, left)

LogWithinBudget == Len(log) + StepsLeft <= RunLength

RunShortens == [][StepsLeft' < StepsLeft]_roleVars

TurnPoints == DOMAIN InTurn

LEMMA TurnPointsAre ==
    /\ TurnPoints = {"turn", "answer", "request_memory", "request_tool", "execute", "completed",
                     "completed_memory", "completed_comments", "check", "loop"}
    /\ Point = {"workflow", "model", "over"} \cup TurnPoints
    /\ \A at \in TurnPoints : InTurn[at] \in 0 .. 6
  BY DEF TurnPoints, InTurn, Point

(* What is left of a loop of m rounds of length l after n of them. *)
LEMMA Multiples ==
    ASSUME NEW m \in Nat, NEW n \in 0 .. m, NEW l \in Nat
    PROVE  /\ (m - n) * l \in Nat
           /\ (m - (n + 1)) * l = (m - n) * l - l
           /\ m * l \in Nat
           /\ (m - 1) * l = m * l - l
  <1>1. \A i, j \in Nat : i * j \in Nat
    OBVIOUS
  <1>2. \A i, j \in Int : (i - 1) * j = i * j - j
    OBVIOUS
  <1>3. m - n \in Nat /\ m - (n + 1) = (m - n) - 1
    OBVIOUS
  <1>4. (m - n) * l \in Nat /\ m * l \in Nat
    BY <1>1, <1>3
  <1>5. ((m - n) - 1) * l = (m - n) * l - l /\ (m - 1) * l = m * l - l
    BY <1>2, <1>3
  <1> QED
    BY <1>3, <1>4, <1>5

LEMMA Lengths ==
    /\ TurnLength = MaxCalls * 7 + 9 /\ TurnLength \in Nat
    /\ RoleLength \in Nat /\ RoundLength \in Nat /\ RunLength \in Nat
    /\ (MaxSteps - 1) * TurnLength = RoleLength - TurnLength
    /\ (MaxSteps - 1) * TurnLength \in Nat
    /\ RoundLength = 2 * RoleLength + 1
  <1>1. TurnLength = MaxCalls * 7 + 9 /\ TurnLength \in Nat
    BY DEF TurnLength, CallLength
  <1>2. 1 \in 0 .. MaxSteps /\ 0 \in 0 .. MaxRounds /\ MaxSteps \in Nat /\ MaxRounds \in Nat
    OBVIOUS
  <1>3. RoleLength \in Nat /\ (MaxSteps - 1) * TurnLength \in Nat
        /\ (MaxSteps - 1) * TurnLength = RoleLength - TurnLength
    BY <1>1, <1>2, Multiples DEF RoleLength
  <1>4. RoundLength \in Nat /\ RoundLength = 2 * RoleLength + 1
    BY <1>3 DEF RoundLength
  <1>5. MaxRounds * RoundLength \in Nat
    BY <1>2, <1>4, Multiples
  <1> QED
    BY <1>1, <1>3, <1>4, <1>5 DEF RunLength

(* What is left of a role at a point of its turn s. *)
LEMMA LeftOfRole ==
    ASSUME NEW at \in Point \ {"workflow", "over"}, NEW s \in 0 .. MaxSteps,
           NEW calls \in 0 .. MaxCalls
    PROVE  /\ LeftInRole(at, s, calls) \in Nat
           /\ at = "model" => LeftInRole(at, s, calls) =
                    (MaxSteps - s) * TurnLength + TurnLength - 1
           /\ at # "model" =>
                /\ LeftInRole(at, s, calls) = (MaxSteps - s) * TurnLength + calls * 7 + InTurn[at]
                /\ InTurn[at] \in 0 .. 6
           /\ (MaxSteps - s) * TurnLength \in Nat
  <1>1. (MaxSteps - s) * TurnLength \in Nat /\ TurnLength \in Nat /\ TurnLength > 0
    BY Lengths, Multiples
  <1>2. CASE at = "model"
    BY <1>1, <1>2 DEF LeftInRole
  <1>3. CASE at # "model"
    <2>1. InTurn[at] \in 0 .. 6
      BY <1>3, TurnPointsAre
    <2>2. LeftInRole(at, s, calls) = (MaxSteps - s) * TurnLength + (calls * 7 + InTurn[at])
      BY <1>3 DEF LeftInRole, CallLength
    <2>3. calls * 7 \in Nat
      OBVIOUS
    <2> QED
      BY <1>1, <1>3, <2>1, <2>2, <2>3
  <1> QED
    BY <1>2, <1>3

LEMMA LeftInAll ==
    ASSUME NEW at \in Point, NEW r \in Role, NEW n \in 0 .. MaxRounds,
           NEW s \in 0 .. MaxSteps, NEW calls \in 0 .. MaxCalls
    PROVE  /\ LeftAt(at, r, n, s, calls) \in Nat
           /\ at # "over" => LeftAt(at, r, n, s, calls) > 0
           /\ LeftInRole("workflow", s, calls) = 0
           /\ (MaxRounds - n) * RoundLength \in Nat
  <1>1. (MaxRounds - n) * RoundLength \in Nat /\ RoleLength \in Nat
    BY Lengths, Multiples
  <1>2. LeftInRole("workflow", s, calls) = 0
    BY DEF LeftInRole
  <1>3. at # "over" => LeftInRole(at, s, calls) \in Nat
    BY <1>2, LeftOfRole
  <1> QED
    BY <1>1, <1>2, <1>3 DEF LeftAt

(* Within a turn. *)
LEMMA TurnShortens ==
    ASSUME NEW at \in Point \ {"workflow", "over"}, NEW to \in TurnPoints,
           NEW s \in 0 .. MaxSteps, NEW a \in 0 .. MaxCalls, NEW b \in 0 .. MaxCalls,
           \/ at = "model" /\ to = "turn"
           \/ at \in TurnPoints /\ a = b /\ InTurn[to] < InTurn[at]
           \/ at = "loop" /\ a = b + 1
    PROVE  LeftInRole(to, s, b) < LeftInRole(at, s, a) /\ LeftInRole(to, s, b) \in Nat
           /\ LeftInRole(at, s, a) \in Nat
  <1>1. to \in Point \ {"workflow", "over"} /\ to # "model"
    BY TurnPointsAre
  <1>2. /\ LeftInRole(to, s, b) = (MaxSteps - s) * TurnLength + b * 7 + InTurn[to]
        /\ InTurn[to] \in 0 .. 6
        /\ (MaxSteps - s) * TurnLength \in Nat
        /\ LeftInRole(to, s, b) \in Nat /\ LeftInRole(at, s, a) \in Nat
    BY <1>1, LeftOfRole
  <1>3. TurnLength = MaxCalls * 7 + 9
    BY Lengths
  <1>4. CASE at = "model" /\ to = "turn"
    <2>1. LeftInRole(at, s, a) = (MaxSteps - s) * TurnLength + TurnLength - 1
      BY <1>4, LeftOfRole
    <2>2. InTurn[to] = 2
      BY <1>4 DEF InTurn
    <2> QED
      BY <1>2, <1>3, <2>1, <2>2
  <1>5. CASE at \in TurnPoints
    <2>1. /\ LeftInRole(at, s, a) = (MaxSteps - s) * TurnLength + a * 7 + InTurn[at]
          /\ InTurn[at] \in 0 .. 6
      BY <1>5, TurnPointsAre, LeftOfRole
    <2> QED
      BY <1>2, <1>5, <2>1, TurnPointsAre
  <1> QED
    BY <1>4, <1>5, TurnPointsAre

LEMMA StepShortens ==
    ASSUME RoleTypeOK, RoleTypeOK', RoleNext
    PROVE  StepsLeft' < StepsLeft
  <1>0. /\ point \in Point /\ role \in Role /\ round \in 0 .. MaxRounds
        /\ step \in 0 .. MaxSteps /\ left \in 0 .. MaxCalls
        /\ point' \in Point /\ role' \in Role /\ round' \in 0 .. MaxRounds
        /\ step' \in 0 .. MaxSteps /\ left' \in 0 .. MaxCalls
    BY DEF RoleTypeOK
  <1>1. CASE point # "over" /\ point' = "over"
    <2>1. StepsLeft' = 0
      BY <1>1 DEF StepsLeft, LeftAt
    <2> QED
      BY <1>0, <1>1, <2>1, LeftInAll DEF StepsLeft
  <1>2. ASSUME point = "workflow", point' = "model", step' = 1
        PROVE  /\ StepsLeft = (MaxRounds - round) * RoundLength +
                        (IF role = "executor" THEN RoleLength ELSE 0) + 0 + 1
               /\ StepsLeft' = (MaxRounds - round') * RoundLength +
                        (IF role' = "executor" THEN RoleLength ELSE 0) + (RoleLength - 1) + 1
    <2>1. LeftInRole(point, step, left) = 0
      BY <1>2 DEF LeftInRole
    <2>2. LeftInRole(point', step', left') = RoleLength - 1
      <3>1. LeftInRole(point', step', left') = (MaxSteps - 1) * TurnLength + TurnLength - 1
        BY <1>0, <1>2, LeftOfRole
      <3> QED
        BY <3>1, Lengths
    <2> QED
      BY <1>2, <2>1, <2>2 DEF StepsLeft, LeftAt
  <1>3. CASE StartExecutor
    <2>1. /\ point = "workflow" /\ point' = "model" /\ step' = 1 /\ role' = "executor"
          /\ round < MaxRounds /\ round' = round + 1
      BY <1>3 DEF StartExecutor, Begins, At
    <2> DEFINE rounds == (MaxRounds - round) * RoundLength
    <2>2. rounds \in Nat /\ (MaxRounds - round') * RoundLength = rounds - RoundLength
      BY <1>0, <2>1, Lengths, Multiples
    <2>3. /\ StepsLeft = rounds + (IF role = "executor" THEN RoleLength ELSE 0) + 0 + 1
          /\ StepsLeft' = (rounds - RoundLength) + RoleLength + (RoleLength - 1) + 1
      BY <1>2, <2>1, <2>2
    <2> HIDE DEF rounds
    <2> QED
      BY <2>2, <2>3, Lengths
  <1>4. CASE StartCritic
    <2>1. /\ point = "workflow" /\ point' = "model" /\ step' = 1
          /\ role = "executor" /\ role' = "critic" /\ round' = round
      BY <1>4 DEF StartCritic, Begins, At
    <2> DEFINE rounds == (MaxRounds - round) * RoundLength
    <2>2. rounds \in Nat
      BY <1>0, LeftInAll
    <2>3. /\ StepsLeft = rounds + RoleLength + 0 + 1
          /\ StepsLeft' = rounds + 0 + (RoleLength - 1) + 1
      BY <1>2, <2>1
    <2> HIDE DEF rounds
    <2> QED
      BY <2>2, <2>3, Lengths
  <1>5. ASSUME point # "over", point' # "over", UNCHANGED <<role, round>>,
               LeftInRole(point', step', left') < LeftInRole(point, step, left),
               LeftInRole(point', step', left') \in Nat, LeftInRole(point, step, left) \in Nat
        PROVE  StepsLeft' < StepsLeft
    <2> DEFINE base == (MaxRounds - round) * RoundLength +
                            (IF role = "executor" THEN RoleLength ELSE 0)
    <2>1. base \in Nat
      BY <1>0, LeftInAll, Lengths
    <2>2. /\ StepsLeft = base + LeftInRole(point, step, left) + 1
          /\ StepsLeft' = base + LeftInRole(point', step', left') + 1
      BY <1>5 DEF StepsLeft, LeftAt
    <2> HIDE DEF base
    <2> QED
      BY <1>5, <2>1, <2>2
  <1>6. ASSUME point \in Point \ {"workflow", "over"}, point' \in TurnPoints,
               UNCHANGED <<role, round, step>>,
               \/ point = "model" /\ point' = "turn"
               \/ point \in TurnPoints /\ left' = left /\ InTurn[point'] < InTurn[point]
               \/ point = "loop" /\ left = left' + 1
        PROVE  StepsLeft' < StepsLeft
    <2>1. /\ LeftInRole(point', step, left') < LeftInRole(point, step, left)
          /\ LeftInRole(point', step, left') \in Nat /\ LeftInRole(point, step, left) \in Nat
      BY <1>0, <1>6, TurnShortens
    <2>2. step' = step /\ point # "over" /\ point' # "over"
      BY <1>6, TurnPointsAre
    <2> QED
      BY <1>5, <1>6, <2>1, <2>2
  <1>7. CASE NextTurn
    <2>1. /\ point = "loop" /\ point' = "model" /\ left = 0 /\ step < MaxSteps
          /\ step' = step + 1 /\ UNCHANGED <<role, round, left>>
      BY <1>7 DEF NextTurn, At
    <2> DEFINE turns == (MaxSteps - step) * TurnLength
    <2>2. turns \in Nat /\ (MaxSteps - step') * TurnLength = turns - TurnLength
          /\ TurnLength \in Nat
      BY <1>0, <2>1, Lengths, Multiples
    <2>3. LeftInRole(point, step, left) = turns
      BY <2>1, <2>2 DEF LeftInRole, InTurn, CallLength
    <2>4. LeftInRole(point', step', left') = turns - 1
      <3>1. LeftInRole(point', step', left') = (MaxSteps - step') * TurnLength + TurnLength - 1
            /\ LeftInRole(point', step', left') \in Nat
        BY <1>0, <2>1, LeftOfRole
      <3> HIDE DEF turns
      <3> QED
        BY <2>2, <3>1
    <2>5. turns - 1 \in Nat
      BY <1>0, <2>1, <2>4, LeftOfRole
    <2> HIDE DEF turns
    <2> QED
      BY <1>5, <2>1, <2>2, <2>3, <2>4, <2>5
  <1>8. CASE \E e \in Envelope : Answer(e)
    <2>1. point = "answer" /\ point' = "workflow" /\ UNCHANGED <<role, round, step, left>>
      BY <1>8 DEF Answer, At, turnVars
    <2>2. LeftInRole(point', step', left') = 0
      BY <2>1 DEF LeftInRole
    <2>3. InTurn[point] = 1
      BY <2>1 DEF InTurn
    <2>4. LeftInRole(point, step, left) \in Nat /\ LeftInRole(point, step, left) > 0
      <3>1. /\ LeftInRole(point, step, left) =
                    (MaxSteps - step) * TurnLength + left * 7 + InTurn[point]
            /\ (MaxSteps - step) * TurnLength \in Nat
        BY <1>0, <2>1, LeftOfRole
      <3> QED
        BY <1>0, <2>3, <3>1
    <2> QED
      BY <1>5, <2>1, <2>2, <2>4
  <1>9. CASE \/ EndRun \/ ModelFails \/ OutOfTurns \/ ToolRaises \/ RefuseResult
             \/ AnswerTooEarly \/ EmitFails \/ \E e \in Envelope : AnswerUnparsed(e)
    BY <1>1, <1>9 DEF EndRun, ModelFails, OutOfTurns, ToolRaises, RefuseResult, AnswerTooEarly,
       EmitFails, AnswerUnparsed, Ends
  <1>10. CASE Respond
    BY <1>0, <1>6, <1>10, TurnPointsAre DEF Respond, At
  <1>11. CASE \E t \in Tool : TakeCall(t)
    <2>1. /\ point = "loop" /\ point' \in {"request_memory", "request_tool"}
          /\ left = left' + 1 /\ UNCHANGED <<role, round, step>>
      BY <1>0, <1>11 DEF TakeCall, At
    <2> QED
      BY <1>6, <2>1, TurnPointsAre
  <1>12. ASSUME point \in TurnPoints, point' \in TurnPoints, InTurn[point'] < InTurn[point],
                UNCHANGED <<role, round, step, left>>
         PROVE  StepsLeft' < StepsLeft
    BY <1>6, <1>12, TurnPointsAre
  <1>13. CASE \/ EmitModelTurn \/ EmitMemoryRequested \/ EmitToolRequested
              \/ ToolSucceeds \/ ToolRefuses
              \/ EmitToolCompleted \/ EmitMemoryCompleted \/ EmitCommentsRetrieved
              \/ KeepResult
    <2>1. UNCHANGED <<role, round, step, left>>
      BY <1>13 DEF EmitModelTurn, EmitMemoryRequested, EmitToolRequested, ToolSucceeds,
         ToolRefuses, EmitToolCompleted, EmitMemoryCompleted, EmitCommentsRetrieved, KeepResult,
         turnVars
    <2>2. \/ point = "turn" /\ point' \in {"answer", "loop"}
          \/ point = "request_memory" /\ point' = "request_tool"
          \/ point = "request_tool" /\ point' = "execute"
          \/ point = "execute" /\ point' = "completed"
          \/ point = "completed" /\ point' \in {"completed_memory", "completed_comments", "check"}
          \/ point \in {"completed_memory", "completed_comments"} /\ point' = "check"
          \/ point = "check" /\ point' = "loop"
      BY <1>13 DEF EmitModelTurn, EmitMemoryRequested, EmitToolRequested, ToolSucceeds,
         ToolRefuses, EmitToolCompleted, EmitMemoryCompleted, EmitCommentsRetrieved, KeepResult,
         At
    <2>3. point \in TurnPoints /\ point' \in TurnPoints /\ InTurn[point'] < InTurn[point]
      BY <2>2 DEF TurnPoints, InTurn
    <2> QED
      BY <1>12, <2>1, <2>3
  <1> QED
    BY <1>3, <1>4, <1>7, <1>8, <1>9, <1>10, <1>11, <1>13 DEF RoleNext

LEMMA LogGrowsByOne ==
    ASSUME RoleTypeOK, RoleNext
    PROVE  Len(log') <= Len(log) + 1 /\ Len(log) \in Nat /\ Len(log') \in Nat
  <1>1. Len(log) \in Nat
    BY LenProperties DEF RoleTypeOK
  <1>2. CASE UNCHANGED log
    BY <1>1, <1>2
  <1>3. CASE \E k \in Kind : Emit(k)
    <2>1. PICK k \in Kind : Emit(k)
      BY <1>3
    <2>2. Len(log') = Len(log) + 1
      BY <2>1, OneMoreEvent
    <2> QED
      BY <1>1, <2>2
  <1>4. UNCHANGED log \/ \E k \in Kind : Emit(k)
    BY DEF RoleNext, StartExecutor, StartCritic, Begins, EndRun, ModelFails, Respond,
       EmitModelTurn, NextTurn, OutOfTurns, TakeCall, EmitMemoryRequested, EmitToolRequested,
       ToolSucceeds, ToolRefuses, ToolRaises, EmitToolCompleted, EmitMemoryCompleted,
       EmitCommentsRetrieved, KeepResult, RefuseResult, Answer, AnswerUnparsed, AnswerTooEarly,
       EmitFails, Ends, Kind
  <1> QED
    BY <1>2, <1>3, <1>4

(* Whatever the model answers and calls, every step of a run lowers the      *)
(* steps it has to go: the roles end within MaxRounds rounds of two roles of *)
(* MaxSteps turns of MaxCalls calls, and the log keeps within that budget.   *)
THEOREM RolesAreBounded == RoleSpec => []LogWithinBudget /\ RunShortens
  <1>1. RoleInit => LogWithinBudget
    <2> SUFFICES ASSUME RoleInit PROVE LogWithinBudget
      OBVIOUS
    <2>1. /\ point = "workflow" /\ role = "executor" /\ round = 0 /\ step = 0 /\ left = 0
          /\ Len(log) = 0
      BY DEF RoleInit
    <2>2. StepsLeft = (MaxRounds - 0) * RoundLength + RoleLength + 0 + 1
      BY <2>1 DEF StepsLeft, LeftAt, LeftInRole
    <2>3. (MaxRounds - 0) * RoundLength = MaxRounds * RoundLength
      OBVIOUS
    <2> QED
      BY <2>1, <2>2, <2>3, Lengths DEF LogWithinBudget, RunLength
  <1>2. RoleTypeOK /\ RoleTypeOK' /\ [RoleNext]_roleVars => [StepsLeft' < StepsLeft]_roleVars
    BY StepShortens
  <1>3. RoleTypeOK /\ RoleTypeOK' /\ LogWithinBudget /\ [RoleNext]_roleVars => LogWithinBudget'
    <2> SUFFICES ASSUME RoleTypeOK, RoleTypeOK', LogWithinBudget, [RoleNext]_roleVars
                 PROVE  LogWithinBudget'
      OBVIOUS
    <2>1. CASE UNCHANGED roleVars
      BY <2>1 DEF roleVars, turnVars, LogWithinBudget, StepsLeft
    <2>2. CASE RoleNext
      <3>1. StepsLeft \in Nat /\ StepsLeft' \in Nat
        BY LeftInAll DEF StepsLeft, RoleTypeOK
      <3> QED
        BY <2>2, <3>1, StepShortens, LogGrowsByOne, Lengths DEF LogWithinBudget
    <2> QED
      BY <2>1, <2>2
  <1> QED
    BY <1>1, <1>2, <1>3, RoleTypeCorrect, PTL DEF RoleSpec, RunShortens
=============================================================================
