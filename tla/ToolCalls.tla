------------------------------ MODULE ToolCalls ------------------------------
(***************************************************************************)
(* One call of a tool by SandboxWorkflow, MCPToolCallWorkflow or           *)
(* SkillExecutionWorkflow, and the hooks in front of it.  The workflow     *)
(* asks the hooks registered for before_tool_call, calls the tool, leaves  *)
(* an audit row and a workspace item, and tells the other hooks.  A skill  *)
(* may retrieve a context first, which asks the hooks a second time.       *)
(*                                                                         *)
(* Activities are tried once.  Only the answer of a hook, the call and the *)
(* retrieval decide anything: every other activity may be lost.            *)
(***************************************************************************)
EXTENDS Sequences, SequencesExt

CONSTANTS
    Registrations,   \* hooks that may be registered
    MaxHooks         \* bound: hooks registered for before_tool_call

\* What a filter asks for: nothing, a tool_type, or a key no event carries.
\* tool_types is one of these: the events say tool_type.
Tools    == {"sandbox_execution", "mcp", "skill"}
Filters  == Tools \union {"none", "rag_retrieval", "tool_types"}
HookType == [blocking: BOOLEAN, filter: Filters, handler: {"allow", "deny", "http", "unknown"}]

ASSUME ToolAssumption == Registrations \subseteq HookType

VARIABLES
    tool,        \* whose workflow runs
    hooks,       \* the hooks of before_tool_call, in the order of registration
    hookConfig,  \* BlockingEnabled, BlockingFailClosed
    retrieving,  \* retrieve_context, of the input or of its parameters
    parameters,  \* there is a map of parameters to put the context in
    step,        \* the next activity
    answers,     \* what each hook said to the call and to the retrieval
    context,     \* the skill gets a context
    called,      \* the activity of the tool was scheduled
    success,     \* Success of its result
    record,      \* Success of the audit row, "none" without one
    auditID,     \* the result names the audit row
    item,        \* the workspace item is in the stream of the task
    told         \* the other events emitted

toolVars == <<tool, hooks, hookConfig, retrieving, parameters, step, answers, context, called, success,
              record, auditID, item, told>>
callConfig == <<tool, hooks, hookConfig, retrieving, parameters>>
callVars   == <<called, success>>
traceVars  == <<record, auditID, item, told>>

Unasked == [i \in DOMAIN hooks |-> "unasked"]

ToolInit ==
    /\ tool \in Tools /\ hooks \in SeqOf(Registrations, MaxHooks)
    /\ hookConfig \in [blocking: BOOLEAN, failClosed: BOOLEAN]
    /\ retrieving \in BOOLEAN /\ parameters \in BOOLEAN
    /\ (retrieving => tool = "skill") /\ (~parameters => retrieving)
    /\ step = "before" /\ answers = [call |-> Unasked, rag |-> Unasked]
    /\ context = FALSE /\ called = FALSE /\ success = FALSE
    /\ record = "none" /\ auditID = FALSE /\ item = FALSE /\ told = {}

-----------------------------------------------------------------------------
(* HookRuntime *)

\* HookFilter.Match
Match(h, subject) == h.filter \in {"none", subject}

\* executeHandler.  "broken" is a handler that is unknown to the runtime.
Says(h) ==
    CASE h.handler = "allow"   -> {"continue"}
      [] h.handler = "deny"    -> {"refuse"}
      [] h.handler = "http"    -> {"continue", "refuse", "failed"}
      [] h.handler = "unknown" -> {"broken"}

\* EmitAndExecute and the activity around it: the answers the workflow hears.  No
\* hook is asked when their list cannot be read, and none is heard when the
\* activity is lost.
Heard(subject) ==
    {Unasked} \union
    {said \in [DOMAIN hooks -> {"continue", "refuse", "failed", "broken", "unasked"}] :
        \A i \in DOMAIN hooks :
            said[i] \in IF Match(hooks[i], subject) THEN Says(hooks[i]) ELSE {"unasked"}}

\* applyBlockingDecision and applyBlockingFailure: a broken handler enforces nothing.
Enforced(h, said) ==
    /\ h.blocking /\ hookConfig.blocking
    /\ said = "refuse" \/ (said = "failed" /\ hookConfig.failClosed)

\* Mutant: the verdict of the last handler replaces the one before.
DeniedByLast(said) == hooks # <<>> /\ Enforced(Last(hooks), Last(said))

Denied(said) == \E i \in DOMAIN hooks : Enforced(hooks[i], said[i])

-----------------------------------------------------------------------------
(* The workflows *)

BeforeToolCall == \E said \in Heard(tool) :
    /\ step = "before"
    /\ answers' = [answers EXCEPT !.call = said]
    /\ step' = IF Denied(said) THEN "ended" ELSE IF retrieving THEN "rag_hook" ELSE "call"
    /\ UNCHANGED <<callConfig, context, callVars, traceVars>>

\* A denied retrieval is left out.
BeforeRetrieval == \E said \in Heard("rag_retrieval") :
    /\ step = "rag_hook"
    /\ answers' = [answers EXCEPT !.rag = said]
    /\ step' = IF Denied(said) THEN "call" ELSE "search"
    /\ UNCHANGED <<callConfig, context, callVars, traceVars>>

\* EmbedAndSearchChunks, FetchChunkContent and PackContext: each finds something
\* for the next, finds nothing, or is lost.  The context is put into the map of the
\* parameters: without one the workflow task panics, at every attempt.
RetrieveContext ==
    /\ step \in {"search", "fetch", "pack"}
    /\ \/ /\ step # "pack" /\ step' = (IF step = "search" THEN "fetch" ELSE "pack")
          /\ UNCHANGED <<context, told>>
       \/ /\ step = "pack" /\ ~parameters /\ step' = "panic"
          /\ UNCHANGED <<context, told>>
       \/ /\ step = "pack" /\ parameters /\ step' = "call" /\ context' = TRUE
          /\ told' = told \union {"rag_after"}
       \/ step' = "call" /\ UNCHANGED <<context, told>>
       \/ step' = "call" /\ told' = told \union {"rag_error"} /\ UNCHANGED context
    /\ UNCHANGED <<callConfig, answers, callVars, record, auditID, item>>

Trail == IF tool = "skill" THEN <<"audit", "workspace", "after">>
         ELSE <<"workspace", "audit", "after">>
Following(s) == Trail[CHOOSE i \in 2..3 : Trail[i - 1] = s]

\* The router asks the sandbox for the language "auto", which no runner has.
Successes == IF tool = "sandbox_execution" THEN {FALSE} ELSE BOOLEAN

\* A lost activity counts as a failure; a skill then goes no further than its audit.
CallTool ==
    /\ step = "call" /\ called' = TRUE
    /\ \/ success' \in Successes /\ step' = Head(Trail)
       \/ success' = FALSE /\ step' = IF tool = "skill" THEN "audit_lost" ELSE Head(Trail)
    /\ UNCHANGED <<callConfig, answers, context, traceVars>>

\* The activity ignores the error of the stream.
AppendWorkspace ==
    /\ step = "workspace" /\ step' = Following(step)
    /\ IF success \/ tool = "sandbox_execution" THEN item' \in BOOLEAN ELSE UNCHANGED item
    /\ UNCHANGED <<callConfig, answers, context, callVars, record, auditID, told>>

\* A row that was written may not be reported.
AuditToolCall ==
    /\ step \in {"audit", "audit_lost"}
    /\ step' = IF step = "audit" THEN Following(step) ELSE "ended"
    /\ record' \in {"none", IF success THEN "success" ELSE "failure"}
    /\ auditID' \in {FALSE, step = "audit" /\ record' # "none"}
    /\ UNCHANGED <<callConfig, answers, context, callVars, item, told>>

\* after_tool_call, and on_error for a failure.
AfterToolCall ==
    /\ step = "after" /\ step' = "ended"
    /\ told' = told \union {"after"} \union (IF success THEN {} ELSE {"on_error"})
    /\ UNCHANGED <<callConfig, answers, context, callVars, record, auditID, item>>

ToolNext ==
    \/ BeforeToolCall \/ BeforeRetrieval \/ RetrieveContext \/ CallTool
    \/ AppendWorkspace \/ AuditToolCall \/ AfterToolCall

-----------------------------------------------------------------------------
ToolTypeOK ==
    /\ tool \in Tools /\ retrieving \in BOOLEAN /\ parameters \in BOOLEAN /\ hooks \in Seq(Registrations)
    /\ step \in {"before", "rag_hook", "search", "fetch", "pack", "call", "workspace", "audit",
                 "audit_lost", "after", "ended", "panic"}
    /\ context \in BOOLEAN /\ called \in BOOLEAN /\ success \in BOOLEAN
    /\ record \in {"none", "success", "failure"} /\ auditID \in BOOLEAN /\ item \in BOOLEAN
    /\ told \subseteq {"after", "on_error", "rag_after", "rag_error"}

Objects(i, said) ==
    hooks[i].blocking /\ (said[i] = "refuse" \/ (said[i] = "failed" /\ hookConfig.failClosed))

\* No tool is called over the objection of a blocking hook that was heard, in
\* whatever place of the list, and no context is retrieved over one; a refused call
\* leaves nothing behind.  What a call leaves agrees with its result although each
\* trace may be lost: the audit row tells its success, an item stands for a result,
\* and the hooks hear of an error exactly after a call they were told has failed.
ToolCallIsGuarded ==
    /\ hookConfig.blocking =>
          /\ called => \A i \in DOMAIN hooks : ~Objects(i, answers.call)
          /\ context => \A i \in DOMAIN hooks : ~Objects(i, answers.rag)
    /\ ~called => record = "none" /\ ~item /\ told \subseteq {"rag_after", "rag_error"}
    /\ record # "none" => (record = "success" <=> success)
    /\ auditID => record # "none"
    /\ item => success \/ tool = "sandbox_execution"
    /\ "on_error" \in told <=> ("after" \in told /\ ~success)
    /\ step = "ended" /\ success => "after" \in told
=============================================================================
