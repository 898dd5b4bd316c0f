------------------------------ MODULE RoleLoop ------------------------------
(***************************************************************************)
(* run_role_loop of agent/role_loop.py with the HTTP retries of            *)
(* OllamaClient.chat below it and the role's filtered tool executor: one   *)
(* run of the Planner, the Coder or the Reviewer.                          *)
(***************************************************************************)
EXTENDS Naturals, Sequences

CONSTANTS
    Tools,              \* names a model may call, existing or not
    Allowed,            \* those the role's executor passes on
    MaxCalls,           \* bound of the model: tool calls in one message
    MaxTurns,           \* max_turns: 25, the Coder 40, the Reviewer 15
    MaxResponseRetries, \* max_response_retries
    MaxRetries          \* llm.max_retries, of the HTTP request

ASSUME RoleAssumption ==
    /\ Allowed \subseteq Tools
    /\ {MaxCalls, MaxTurns, MaxResponseRetries, MaxRetries} \subseteq Nat \ {0}

VARIABLES
    at,          \* turn, post, tools or done
    turn,        \* of max_turns
    attempt,     \* of max_response_retries, within the turn
    post,        \* of max_retries, within the attempt
    requests,    \* HTTP requests made so far
    transcript,  \* messages after the system and the first user message
    pending,     \* tool calls of the last message still to be executed
    outcome      \* how run_role_loop ended

vars == <<at, turn, attempt, post, requests, transcript, pending, outcome>>

Says(calls) == [role |-> "assistant", calls |-> calls]
Reply(tool) == [role |-> "tool", calls |-> <<tool>>]
Nudge == [role |-> "user", calls |-> <<>>]

CallLists == UNION {[1..n -> Tools] : n \in 1..MaxCalls}

Init ==
    /\ at = "turn"
    /\ turn = 0
    /\ attempt = 0
    /\ post = 0
    /\ requests = 0
    /\ transcript = <<>>
    /\ pending = <<>>
    /\ outcome = "none"

End(how) == at' = "done" /\ outcome' = how

\* Mutant of BeginTurn: one turn more than max_turns.
BeginTurnTooMany ==
    /\ at = "turn"
    /\ turn <= MaxTurns
    /\ turn' = turn + 1
    /\ attempt' = 1 /\ post' = 1
    /\ at' = "post"
    /\ UNCHANGED <<requests, transcript, pending, outcome>>

BeginTurn ==
    /\ at = "turn"
    /\ turn < MaxTurns
    /\ turn' = turn + 1
    /\ attempt' = 1 /\ post' = 1
    /\ at' = "post"
    /\ UNCHANGED <<requests, transcript, pending, outcome>>

\* Mutant of ExceedMaxTurns: the exceeded limit is logged, the loop goes on.
ReportMaxTurnsOnly ==
    /\ at = "turn"
    /\ turn = MaxTurns
    /\ UNCHANGED vars

ExceedMaxTurns ==
    /\ at = "turn"
    /\ turn = MaxTurns
    /\ End("max_turns")
    /\ UNCHANGED <<turn, attempt, post, requests, transcript, pending>>

\* Mutant of PostFails: the request is repeated without an end.
PostFailsForever ==
    /\ at = "post"
    /\ requests' = requests + 1
    /\ post' = (post % MaxRetries) + 1
    /\ UNCHANGED <<at, turn, attempt, transcript, pending, outcome>>

\* A request that failed or timed out is repeated by the client; when it gives
\* up with LLMError, the loop lets it start over.
PostFails ==
    /\ at = "post"
    /\ requests' = requests + 1
    /\ IF post < MaxRetries
       THEN post' = post + 1 /\ UNCHANGED <<attempt, at, outcome>>
       ELSE IF attempt < MaxResponseRetries
       THEN attempt' = attempt + 1 /\ post' = 1 /\ UNCHANGED <<at, outcome>>
       ELSE End("unreachable") /\ UNCHANGED <<attempt, post>>
    /\ UNCHANGED <<turn, transcript, pending>>

\* JSON that is not shaped like a chat reply, or content that is null: an
\* AttributeError or TypeError that nothing here catches.
PostMisshapen ==
    /\ at = "post"
    /\ requests' = requests + 1
    /\ End("raised")
    /\ UNCHANGED <<turn, attempt, post, transcript, pending>>

\* Tool calls come first: an answer in the same message is not looked at.
CallsTools ==
    /\ at = "post"
    /\ requests' = requests + 1
    /\ \E calls \in CallLists :
          /\ transcript' = Append(transcript, Says(calls))
          /\ pending' = calls
    /\ at' = "tools"
    /\ UNCHANGED <<turn, attempt, post, outcome>>

\* A JSON block, of an object or of anything else.
Answers ==
    /\ at = "post"
    /\ requests' = requests + 1
    /\ transcript' = Append(transcript, Says(<<>>))
    /\ End("answer")
    /\ UNCHANGED <<turn, attempt, post, pending>>

\* Neither: the model is told to answer or to go on, as often as it takes.
Rambles ==
    /\ at = "post"
    /\ requests' = requests + 1
    /\ transcript' = transcript \o <<Says(<<>>), Nudge>>
    /\ at' = "turn"
    /\ UNCHANGED <<turn, attempt, post, pending, outcome>>

\* Mutant of RunTool: a call that is refused gets no reply.
RunAllowedTool ==
    /\ at = "tools"
    /\ transcript' = IF Head(pending) \in Allowed
                     THEN Append(transcript, Reply(Head(pending))) ELSE transcript
    /\ pending' = Tail(pending)
    /\ at' = IF Len(pending) = 1 THEN "turn" ELSE "tools"
    /\ UNCHANGED <<turn, attempt, post, requests, outcome>>

\* Refused, unknown, failed or executed: each call is answered.  (What tools do to
\* the workspace is FileTools.)
RunTool ==
    /\ at = "tools"
    /\ transcript' = Append(transcript, Reply(Head(pending)))
    /\ pending' = Tail(pending)
    /\ at' = IF Len(pending) = 1 THEN "turn" ELSE "tools"
    /\ UNCHANGED <<turn, attempt, post, requests, outcome>>

Next ==
    BeginTurn \/ ExceedMaxTurns \/ PostFails \/ PostMisshapen \/ CallsTools
        \/ Answers \/ Rambles \/ RunTool

Spec == Init /\ [][Next]_vars

\* One thread; each request and each tool has a timeout.
FairSpec == Spec /\ WF_vars(Next)

-----------------------------------------------------------------------------
(* Properties *)

Messages == {Nudge} \cup {Says(c) : c \in CallLists \cup {<<>>}} \cup {Reply(t) : t \in Tools}

\* The shape of the state.
TypeOK ==
    /\ at \in {"turn", "post", "tools", "done"}
    /\ turn \in 0..MaxTurns
    /\ attempt \in 0..MaxResponseRetries
    /\ post \in 0..MaxRetries
    /\ requests \in Nat
    /\ transcript \in Seq(Messages)
    /\ pending \in Seq(Tools)
    /\ outcome \in {"none", "answer", "max_turns", "unreachable", "raised"}

\* The model is never asked, and its answer never taken, with a tool call of
\* its own unanswered: whatever was refused, unknown or failed, the replies
\* follow their message one for one and in order, and nothing else does.
RepliesMatchCalls ==
    at = "post" \/ outcome = "answer" =>
        \A i \in DOMAIN transcript :
            LET calls == transcript[i].calls IN
            transcript[i].role = "assistant" =>
                /\ \A k \in DOMAIN calls :
                      i + k \in DOMAIN transcript /\ transcript[i + k] = Reply(calls[k])
                /\ i + Len(calls) < Len(transcript) =>
                      transcript[i + Len(calls) + 1].role # "tool"

\* Two loops of retries over max_turns: no role asks the model server more
\* often than their product.
RequestsBounded == requests <= MaxTurns * MaxResponseRetries * MaxRetries

\* A role answers or gives up.
LoopEnds == <>(at = "done")
=============================================================================
